------------------------- MODULE TerminalManagerProofs -------------------------
(***************************************************************************)
(* Theorems about named screens and their browser views, for any number of *)
(* threads, names, windows and views: a screen in the table has its        *)
(* window, a registered page shows the screen it was made for, and when    *)
(* all calls have returned nothing is left that no table knows of.         *)
(*                                                                         *)
(* What close() has taken out of the tables is torn down without the lock, *)
(* so the invariant accounts for each thing twice over: a window, process, *)
(* tmux session or ttyd is in a table or some thread has still to do with  *)
(* it what its call is for.                                                *)
(***************************************************************************)
EXTENDS TerminalManager, FiniteSetTheorems, SequenceTheorems, TLAPS

\* The bounds are numbers, whatever they are.
Sizes == MaxWindows \in Nat /\ MaxViews \in Nat

\* What a thread has to do, one thing after the other.
Entry == [op : Op, arg : Nat, screen : Window \cup {All}]
Due(t) == Range(todo[t])
Pending(op, arg) == \E t \in Threads : \E d \in Due(t) : d.op = op /\ d.arg = arg

\* The steps of the constructor of a view, and those of its close().
Making == {"create", "serve", "register"}
Ending == {"view", "end", "ttyd", "session"}

\* A view that close() of its screen or of the manager will find.
Registered(v) == v \in Range(cleanups) \/ \E w \in Window : v \in Range(viewers[w])

\* The tables: names are used once, closed screens have left, a closed manager
\* knows no views.
TablesInv ==
  /\ screens \cap shut = {}
  /\ \A w \in Window : name[w] # NoName => w \in screens \cup shut
  /\ OpenScreensLive
  /\ closed => cleanups = <<>> /\ \A w \in Window : viewers[w] = <<>>

\* Views are registered with open screens, and when their constructor is done.
ViewsInv ==
  /\ \A w \in Window : viewers[w] # <<>> => w \in screens
  /\ \A w \in Window : \A v \in Range(viewers[w]) : v \in served /\ shows[v] = w
  /\ \A v \in Range(cleanups) : v \in served /\ shows[v] = All

\* What is still to do with screens: only a closed one is taken down.
DueScreens(d) ==
  /\ d.op = "screen" => d.arg \in screens \cup shut
  /\ d.op \in {"procs", "window"} => d.arg \in shut
  /\ d.op = "rollback" => d.arg \in 0..created

\* What is still to do with views.  One that is made is known to its thread
\* alone, and shows its screen as long as that is open.
DueViews(t, d) ==
  /\ d.op \in Ending => d.arg \in 1..begun
  /\ d.op \in {"ttyd", "session"} => d.arg \in ended
  /\ d.op \in Making =>
       /\ Len(todo[t]) = 1
       /\ d.arg \in (1..begun) \ (ended \cup served)
       /\ d.screen \in screens \cup shut \cup {All}
       /\ \A k \in Threads \ {t} : \A e \in Due(k) : e.op \in Making \cup Ending => e.arg # d.arg
  /\ d.op \in {"serve", "register"} /\ d.screen \in screens \cup {All} => shows[d.arg] = d.screen

\* The same of all threads.
DueInv == \A t \in Threads : \A d \in Due(t) : DueScreens(d) /\ DueViews(t, d)

\* A window or a process without its screen is about to go.
OrphansInv ==
  /\ \A w \in windows \ screens : Pending("window", w) \/ Pending("rollback", w)
  /\ \A w \in procs \ screens : Pending("procs", w) \/ Pending("rollback", w)

\* Someone is going to end the view, or can.
Kept(v) == v \notin ended /\ (Pending("view", v) \/ Registered(v))

\* A tmux session or a ttyd has its view, or is about to go.
PagesInv ==
  /\ \A v \in sessions : \/ Pending("serve", v) \/ Pending("register", v)
                         \/ Pending("end", v) \/ Pending("session", v) \/ Kept(v)
  /\ \A v \in ttyds : Pending("register", v) \/ Pending("end", v) \/ Pending("ttyd", v) \/ Kept(v)

\* A closed manager goes on to its screens and its server.
ClosedInv == closed => /\ \A w \in screens : Pending("screen", w)
                       /\ server => Pending("server", 0)

\* The invariant.
ScreenInv == TypeOK /\ TablesInv /\ ViewsInv /\ DueInv /\ OrphansInv /\ PagesInv /\ ClosedInv
----------------------------------------------------------------------------
(* Sequences and what they run through                                     *)

\* The entries of sequences that are put together or taken apart.
LEMMA RangeEmpty == Range(<<>>) = {}
  BY DEF Range

\* One entry.
LEMMA RangeOne == \A x : Range(<<x>>) = {x}
  BY DEF Range

\* Two entries.
LEMMA RangeTwo == \A x, y : Range(<<x, y>>) = {x, y}
<1> SUFFICES ASSUME NEW x, NEW y PROVE Range(<<x, y>>) = {x, y}
  OBVIOUS
<1>1. DOMAIN <<x, y>> = {1, 2} /\ <<x, y>>[1] = x /\ <<x, y>>[2] = y
  OBVIOUS
<1>2. QED
  BY <1>1 DEF Range

\* One sequence after the other.
LEMMA RangeConcat ==
  ASSUME NEW S, NEW p \in Seq(S), NEW q \in Seq(S)
  PROVE  Range(p \o q) = Range(p) \cup Range(q)
<1> DEFINE r == p \o q
<1>1. /\ r \in Seq(S) /\ Len(r) = Len(p) + Len(q)
      /\ \A i \in 1..Len(r) : r[i] = IF i <= Len(p) THEN p[i] ELSE q[i - Len(p)]
  OBVIOUS
<1>2. ASSUME NEW x \in Range(r) PROVE x \in Range(p) \cup Range(q)
  <2>1. PICK i \in 1..Len(r) : x = r[i]
    BY <1>1 DEF Range
  <2>2. CASE i <= Len(p)
    BY <2>1, <2>2, <1>1 DEF Range
  <2>3. CASE ~(i <= Len(p))
    <3>1. i - Len(p) \in 1..Len(q) /\ x = q[i - Len(p)]
      BY <2>1, <2>3, <1>1
    <3>2. QED
      BY <3>1 DEF Range
  <2>4. QED
    BY <2>2, <2>3
<1>3. ASSUME NEW x \in Range(p) PROVE x \in Range(r)
  <2>1. PICK i \in 1..Len(p) : x = p[i]
    BY DEF Range
  <2>2. i \in 1..Len(r) /\ x = r[i]
    BY <2>1, <1>1
  <2>3. QED
    BY <2>2, <1>1 DEF Range
<1>4. ASSUME NEW x \in Range(q) PROVE x \in Range(r)
  <2>1. PICK i \in 1..Len(q) : x = q[i]
    BY DEF Range
  <2>2. i + Len(p) \in 1..Len(r) /\ x = r[i + Len(p)]
    BY <2>1, <1>1
  <2>3. QED
    BY <2>2, <1>1 DEF Range
<1>5. QED
  BY <1>2, <1>3, <1>4

\* The head and the others; if there are others there is more than one.
LEMMA RangeHead ==
  ASSUME NEW S, NEW p \in Seq(S), p # <<>>
  PROVE  /\ Head(p) \in S /\ Tail(p) \in Seq(S) /\ Len(Tail(p)) = Len(p) - 1
         /\ Range(p) = {Head(p)} \cup Range(Tail(p))
         /\ \A x \in Range(Tail(p)) : Len(p) > 1
<1>1. /\ Head(p) \in S /\ Tail(p) \in Seq(S) /\ Len(Tail(p)) = Len(p) - 1 /\ Len(p) > 0
      /\ Head(p) = p[1] /\ \A i \in 1..Len(p)-1 : Tail(p)[i] = p[i + 1]
  OBVIOUS
<1>2. ASSUME NEW x \in Range(p) PROVE x \in {Head(p)} \cup Range(Tail(p))
  <2>1. PICK i \in 1..Len(p) : x = p[i]
    BY DEF Range
  <2>2. CASE i = 1
    BY <2>1, <2>2, <1>1
  <2>3. CASE i # 1
    <3>1. i - 1 \in 1..Len(Tail(p)) /\ x = Tail(p)[i - 1]
      BY <2>1, <2>3, <1>1
    <3>2. DOMAIN Tail(p) = 1..Len(Tail(p))
      BY <1>1
    <3>3. QED
      BY <3>1, <3>2 DEF Range
  <2>4. QED
    BY <2>2, <2>3
<1>3. ASSUME NEW x \in Range(Tail(p)) PROVE x \in Range(p) /\ Len(p) > 1
  <2>1. PICK i \in 1..Len(Tail(p)) : x = Tail(p)[i]
    BY <1>1 DEF Range
  <2>2. i + 1 \in 1..Len(p) /\ x = p[i + 1]
    BY <2>1, <1>1
  <2>3. QED
    BY <2>2 DEF Range
<1>4. Head(p) \in Range(p)
  BY <1>1 DEF Range
<1>5. QED
  BY <1>1, <1>2, <1>3, <1>4

\* The entries of a sequence over S are members of S.
LEMMA RangeType ==
  ASSUME NEW S, NEW p \in Seq(S)
  PROVE  /\ Range(p) \subseteq S
         /\ p # <<>> <=> Range(p) # {}
<1>1. Range(p) \subseteq S
  BY DEF Range
<1>2. p = <<>> => Range(p) = {}
  BY RangeEmpty
<1>3. p # <<>> => p[1] \in Range(p)
  BY DEF Range
<1>4. QED
  BY <1>1, <1>2, <1>3

\* What close() does with the views it has taken out of the tables.
LEMMA RangeCloseViews ==
  ASSUME NEW p \in Seq(View)
  PROVE  /\ CloseViews(p) \in Seq(Entry)
         /\ Range(CloseViews(p)) = {Do("view", v) : v \in Range(p)}
<1> DEFINE r == Reverse(p)
<1>1. r = [i \in 1..Len(p) |-> p[(Len(p) - i) + 1]]
  BY DEF Reverse
<1>2. Len(p) \in Nat /\ \A i \in 1..Len(p) : p[i] \in View
  OBVIOUS
<1>3. \A i \in 1..Len(p) : (Len(p) - i) + 1 \in 1..Len(p) /\ r[i] = p[(Len(p) - i) + 1]
  BY <1>1, <1>2
<1>4. CloseViews(p) = [i \in 1..Len(p) |-> Do("view", r[i])]
  BY DEF CloseViews
<1> HIDE DEF r
<1>5. \A v \in View : Do("view", v) \in Entry
  BY DEF Entry, Do, Op, View, All
<1>6. \A i \in 1..Len(p) : Do("view", r[i]) \in Entry
  BY <1>2, <1>3, <1>5
<1>7. CloseViews(p) \in Seq(Entry)
  BY <1>2, <1>4, <1>6
<1>8. ASSUME NEW x \in Range(CloseViews(p)) PROVE x \in {Do("view", v) : v \in Range(p)}
  <2>1. PICK i \in 1..Len(p) : x = Do("view", r[i])
    BY <1>4 DEF Range
  <2>2. r[i] \in Range(p)
    BY <1>3 DEF Range
  <2>3. QED
    BY <2>1, <2>2
<1>9. ASSUME NEW v \in Range(p) PROVE Do("view", v) \in Range(CloseViews(p))
  <2>1. PICK i \in 1..Len(p) : v = p[i]
    BY DEF Range
  <2>2. (Len(p) - i) + 1 \in 1..Len(p) /\ (Len(p) - ((Len(p) - i) + 1)) + 1 = i
    BY <1>2
  <2>3. PICK j \in 1..Len(p) : v = r[j]
    BY <2>1, <2>2, <1>3
  <2>4. QED
    BY <2>3, <1>4 DEF Range
<1>10. QED
  BY <1>7, <1>8, <1>9
----------------------------------------------------------------------------
(* What a thread has to do                                                 *)

\* A step of a thread takes H off what it has to do and adds A.
Moves(t, H, A) ==
  /\ H \subseteq Due(t) /\ A \subseteq Due(t)'
  /\ \A d \in Due(t) : d \in H \/ d \in Due(t)'
  /\ \A d \in Due(t)' : d \in A \/ (d \in Due(t) /\ Len(todo[t]) > 1)
  /\ \A k \in Threads \ {t} : Due(k)' = Due(k) /\ todo'[k] = todo[k]

\* The types of what is to do.
LEMMA DueType ==
  ASSUME TypeOK, NEW t \in Threads
  PROVE  /\ todo[t] \in Seq(Entry) /\ Due(t) \subseteq Entry
         /\ Idle(t) <=> Due(t) = {}
         /\ \A op : At(t, op) => Head(todo[t]) \in Due(t) /\ Head(todo[t]) \in Entry
<1>1. todo[t] \in Seq(Entry)
  BY DEF TypeOK, Entry
<1>2. Due(t) \subseteq Entry /\ (Idle(t) <=> Due(t) = {})
  BY <1>1, RangeType DEF Due, Idle
<1>3. ASSUME todo[t] # <<>> PROVE Head(todo[t]) \in Due(t) /\ Head(todo[t]) \in Entry
  BY <1>1, <1>3, RangeHead DEF Due
<1>4. QED
  BY <1>1, <1>2, <1>3 DEF At

\* A call that has something to do begins with all of it.
LEMMA Starts ==
  ASSUME TypeOK, NEW t \in Threads, Idle(t), NEW steps \in Seq(Entry), Begin(t, steps)
  PROVE  /\ Moves(t, {}, Range(steps)) /\ todo' \in [Threads -> Seq(Entry)]
         /\ Due(t) = {} /\ Len(todo'[t]) = Len(steps)
<1>1. /\ todo \in [Threads -> Seq(Entry)] /\ todo' = [todo EXCEPT ![t] = steps]
      /\ Due(t) = {}
  BY DueType DEF TypeOK, Entry, Begin
<1>2. /\ Due(t)' = Range(steps) /\ \A k \in Threads \ {t} : Due(k)' = Due(k) /\ todo'[k] = todo[k]
  BY <1>1 DEF Due
<1>3. QED
  BY <1>1, <1>2 DEF Moves

\* A thread does the next thing, in whose place others come.
LEMMA Advances ==
  ASSUME TypeOK, NEW t \in Threads, todo[t] # <<>>, NEW steps \in Seq(Entry), Instead(t, steps)
  PROVE  /\ Moves(t, {Head(todo[t])}, Range(steps)) /\ todo' \in [Threads -> Seq(Entry)]
         /\ Len(todo'[t]) = Len(steps) + Len(todo[t]) - 1
<1> DEFINE rest == Tail(todo[t])
<1>1. /\ todo \in [Threads -> Seq(Entry)] /\ todo' = [todo EXCEPT ![t] = steps \o rest]
  BY DEF TypeOK, Entry, Instead
<1>2. /\ rest \in Seq(Entry) /\ Due(t) = {Head(todo[t])} \cup Range(rest)
      /\ Len(rest) = Len(todo[t]) - 1 /\ \A x \in Range(rest) : Len(todo[t]) > 1
  BY <1>1, RangeHead DEF Due
<1>3. todo'[t] = steps \o rest /\ steps \o rest \in Seq(Entry)
  BY <1>1, <1>2
<1>4. Due(t)' = Range(steps) \cup Range(rest)
  <2>1. Range(steps \o rest) = Range(steps) \cup Range(rest)
    <3>1. rest \in Seq(Entry) /\ steps \in Seq(Entry)
      BY <1>2
    <3> HIDE DEF rest
    <3>2. QED
      BY ONLY <3>1, RangeConcat
  <2>2. Due(t)' = Range(todo'[t])
    BY DEF Due
  <2>3. QED
    BY <2>1, <2>2, <1>3
<1>5. \A k \in Threads \ {t} : Due(k)' = Due(k) /\ todo'[k] = todo[k]
  BY <1>1 DEF Due
<1>6. Moves(t, {Head(todo[t])}, Range(steps))
  BY <1>2, <1>4, <1>5 DEF Moves
<1>7. QED
  BY <1>1, <1>2, <1>3, <1>6

\* Nothing comes in its place.
LEMMA Finishes ==
  ASSUME TypeOK, NEW t \in Threads, todo[t] # <<>>, Done(t)
  PROVE  Moves(t, {Head(todo[t])}, {}) /\ todo' \in [Threads -> Seq(Entry)]
<1>1. <<>> \in Seq(Entry)
  OBVIOUS
<1>2. QED
  BY <1>1, Advances, RangeEmpty DEF Done

\* One other thing comes in its place.
LEMMA Turns ==
  ASSUME TypeOK, NEW t \in Threads, todo[t] # <<>>, NEW d \in Entry, Instead(t, <<d>>)
  PROVE  /\ Moves(t, {Head(todo[t])}, {d}) /\ todo' \in [Threads -> Seq(Entry)]
         /\ Len(todo'[t]) = Len(todo[t])
<1>1. <<d>> \in Seq(Entry) /\ Len(<<d>>) = 1
  OBVIOUS
<1>2. /\ Moves(t, {Head(todo[t])}, Range(<<d>>)) /\ todo' \in [Threads -> Seq(Entry)]
      /\ Len(todo'[t]) = 1 + Len(todo[t]) - 1
  BY <1>1, Advances
<1>3. Len(todo[t]) \in Nat
  BY DEF TypeOK
<1>4. Range(<<d>>) = {d} /\ 1 + Len(todo[t]) - 1 = Len(todo[t])
  BY <1>3, RangeOne
<1>5. QED
  BY <1>2, <1>4

\* A call that has one thing to do.
LEMMA Calls ==
  ASSUME TypeOK, NEW t \in Threads, Idle(t), NEW d \in Entry, Begin(t, <<d>>)
  PROVE  /\ Moves(t, {}, {d}) /\ todo' \in [Threads -> Seq(Entry)]
         /\ Due(t) = {} /\ Len(todo'[t]) = 1
<1>1. <<d>> \in Seq(Entry) /\ Len(<<d>>) = 1
  OBVIOUS
<1>2. QED
  BY <1>1, Starts, RangeOne

\* What is pending after a step.
LEMMA PendingMoves ==
  ASSUME NEW t \in Threads, NEW H, NEW A, Moves(t, H, A)
  PROVE  /\ \A op, arg : Pending(op, arg) =>
               Pending(op, arg)' \/ \E h \in H : h.op = op /\ h.arg = arg
         /\ \A d \in A : Pending(d.op, d.arg)'
<1>1. ASSUME NEW op, NEW arg, Pending(op, arg)
      PROVE  Pending(op, arg)' \/ \E h \in H : h.op = op /\ h.arg = arg
  <2>1. PICK k \in Threads : \E d \in Due(k) : d.op = op /\ d.arg = arg
    BY <1>1 DEF Pending
  <2>2. CASE k = t
    BY <2>1, <2>2 DEF Pending, Moves
  <2>3. CASE k # t
    BY <2>1, <2>3 DEF Pending, Moves
  <2>4. QED
    BY <2>2, <2>3
<1>2. ASSUME NEW d \in A PROVE Pending(d.op, d.arg)'
  BY <1>2 DEF Moves, Pending
<1>3. QED
  BY <1>1, <1>2

\* Nobody does anything of what is to do.
LEMMA PendingSame ==
  ASSUME UNCHANGED todo
  PROVE  \A op, arg : Pending(op, arg)' <=> Pending(op, arg)
  BY DEF Pending, Due
----------------------------------------------------------------------------
(* What a step keeps that hardly touches a part of the invariant           *)

\* The tables stay and no screen loses its window.
LEMMA TablesSame ==
  ASSUME TablesInv, UNCHANGED tableVars, server' => server /\ screens \cap windows \subseteq windows'
  PROVE  TablesInv'
  BY DEF TablesInv, OpenScreensLive, tableVars

\* Registrations stay.
LEMMA ViewsSame ==
  ASSUME ViewsInv, UNCHANGED <<screens, cleanups, viewers>>, served \subseteq served',
         \A v \in served : shows'[v] = shows[v]
  PROVE  ViewsInv'
  BY DEF ViewsInv

\* No screen leaves, and what was taken off the list of things to do is done.
LEMMA OrphansSame ==
  ASSUME OrphansInv, NEW t \in Threads, NEW H, NEW A, Moves(t, H, A), UNCHANGED screens,
         windows' \subseteq windows, procs' \subseteq procs,
         \A h \in H : /\ h.op \in {"window", "rollback"} => h.arg \notin windows' \ screens
                      /\ h.op \in {"procs", "rollback"} => h.arg \notin procs' \ screens
  PROVE  OrphansInv'
<1>1. ASSUME NEW w \in windows' \ screens'
      PROVE  Pending("window", w)' \/ Pending("rollback", w)'
  <2>1. Pending("window", w) \/ Pending("rollback", w)
    BY DEF OrphansInv
  <2>2. QED
    BY <2>1, PendingMoves
<1>2. ASSUME NEW w \in procs' \ screens'
      PROVE  Pending("procs", w)' \/ Pending("rollback", w)'
  <2>1. Pending("procs", w) \/ Pending("rollback", w)
    BY DEF OrphansInv
  <2>2. QED
    BY <2>1, PendingMoves
<1>3. QED
  BY <1>1, <1>2 DEF OrphansInv

\* Views are let alone.
LEMMA PagesSame ==
  ASSUME PagesInv, NEW t \in Threads, NEW H, NEW A, Moves(t, H, A),
         UNCHANGED <<cleanups, viewers, ended>>,
         sessions' \subseteq sessions, ttyds' \subseteq ttyds,
         \A h \in H : h.op \notin Making \cup Ending
  PROVE  PagesInv'
<1>1. \A op \in Making \cup Ending : \A v : Pending(op, v) => Pending(op, v)'
  BY PendingMoves
<1>2. /\ "view" \in Making \cup Ending /\ "serve" \in Making \cup Ending
      /\ "register" \in Making \cup Ending /\ "end" \in Making \cup Ending
      /\ "session" \in Making \cup Ending /\ "ttyd" \in Making \cup Ending
  BY DEF Making, Ending
<1>3. \A v : Registered(v)' <=> Registered(v)
  BY DEF Registered
<1>4. \A v : Kept(v) => Kept(v)'
  BY <1>1, <1>2, <1>3 DEF Kept
<1>5. QED
  BY <1>1, <1>2, <1>4 DEF PagesInv

\* No screen is added, and what was taken off the list is done.
LEMMA ClosedSame ==
  ASSUME ClosedInv, NEW t \in Threads, NEW H, NEW A, Moves(t, H, A),
         closed' = closed, screens' \subseteq screens, server' => server,
         \A h \in H : /\ h.op = "screen" => h.arg \notin screens'
                      /\ h.op = "server" => ~server'
  PROVE  ClosedInv'
<1>1. ASSUME closed', NEW w \in screens' PROVE Pending("screen", w)'
  <2>1. Pending("screen", w)
    BY <1>1 DEF ClosedInv
  <2>2. QED
    BY <2>1, PendingMoves
<1>2. ASSUME closed', server' PROVE Pending("server", 0)'
  <2>1. Pending("server", 0)
    BY <1>2 DEF ClosedInv
  <2>2. QED
    BY <1>2, <2>1, PendingMoves
<1>3. QED
  BY <1>1, <1>2 DEF ClosedInv

\* The views that a step begins to end are not those another thread makes.
LEMMA DueStep ==
  ASSUME TypeOK, DueInv, NEW t \in Threads, NEW H, NEW A, Moves(t, H, A),
         screens \cup shut \subseteq screens' \cup shut', shut \subseteq shut',
         \A w \in screens' \ screens : w > created, created' \in Nat, created' >= created,
         begun' \in Nat, begun' >= begun, ended \subseteq ended',
         \A k \in Threads \ {t} : \A d \in Due(k) : d.op \in Making =>
             d.arg \notin (ended' \cup served') \ (ended \cup served) /\ shows'[d.arg] = shows[d.arg],
         \A a \in A : DueScreens(a)' /\ DueViews(t, a)',
         \A a \in A : a.op \in Making \cup Ending =>
           \/ \E h \in H : h.op \in Making \cup Ending /\ h.arg = a.arg
           \/ a.arg \in served \/ a.arg > begun
  PROVE  DueInv'
<1>1. ASSUME NEW k \in Threads, NEW d \in Due(k), DueScreens(d), DueViews(k, d)
      PROVE  DueScreens(d)'
  <2>1. created \in Nat /\ \A n \in 0..created : n \in 0..created'
    BY DEF TypeOK
  <2>2. QED
    BY <1>1, <2>1 DEF DueScreens
<1>2. ASSUME NEW k \in Threads, NEW d \in Due(k), DueViews(k, d),
             d.op \in Making => k # t
      PROVE  DueViews(k, d)'
  <2>1. d.op \in Ending => d.arg \in 1..begun'
    BY <1>2 DEF DueViews, TypeOK
  <2>2. d.op \in {"ttyd", "session"} => d.arg \in ended'
    BY <1>2 DEF DueViews
  <2>3. ASSUME d.op \in Making
        PROVE  /\ Len(todo'[k]) = 1
               /\ d.arg \in (1..begun') \ (ended' \cup served')
               /\ d.screen \in screens' \cup shut' \cup {All}
    <3>1. /\ Len(todo[k]) = 1 /\ d.arg \in (1..begun) \ (ended \cup served)
          /\ d.screen \in screens \cup shut \cup {All} /\ k # t
      BY <1>2, <2>3 DEF DueViews
    <3>2. Len(todo'[k]) = 1
      BY <3>1 DEF Moves
    <3>3. d.arg \notin ended' \cup served'
      BY <2>3, <3>1
    <3>4. d.arg \in 1..begun'
      BY <3>1 DEF TypeOK
    <3>5. QED
      BY <3>1, <3>2, <3>3, <3>4
  <2>4. ASSUME d.op \in Making, NEW j \in Threads \ {k}, NEW e \in Due(j)',
               e.op \in Making \cup Ending
        PROVE  e.arg # d.arg
    <3>1. /\ d.arg \in (1..begun) \ (ended \cup served) /\ k # t
          /\ \A i \in Threads \ {k} : \A f \in Due(i) : f.op \in Making \cup Ending => f.arg # d.arg
      BY <1>2, <2>4 DEF DueViews
    <3>2. CASE e \in Due(j)
      BY <2>4, <3>1, <3>2
    <3>3. CASE e \notin Due(j)
      <4>1. j = t /\ e \in A
        BY <2>4, <3>3 DEF Moves
      <4>2. CASE \E h \in H : h.op \in Making \cup Ending /\ h.arg = e.arg
        BY <2>4, <3>1, <4>1, <4>2 DEF Moves
      <4>3. CASE e.arg \in served \/ e.arg > begun
        BY <3>1, <4>3 DEF TypeOK
      <4>4. QED
        BY <2>4, <4>1, <4>2, <4>3
    <3>4. QED
      BY <3>2, <3>3
  <2>5. ASSUME d.op \in {"serve", "register"}, d.screen \in screens' \cup {All}
        PROVE  shows'[d.arg] = d.screen
    <3>1. d.op \in Making /\ d.screen \in screens \cup shut \cup {All} /\ k # t
      BY <1>2, <2>5 DEF DueViews, Making
    <3>2. d.screen \in screens \cup {All}
      <4>1. screens \cup shut \subseteq 1..created /\ created \in Nat
        BY DEF TypeOK
      <4>2. d.screen \in screens' => d.screen \in screens \/ d.screen > created
        OBVIOUS
      <4>3. QED
        BY <2>5, <3>1, <4>1, <4>2 DEF All
    <3>3. shows[d.arg] = d.screen
      BY <1>2, <2>5, <3>2 DEF DueViews
    <3>4. QED
      BY <3>1, <3>3
  <2>6. QED
    BY <2>1, <2>2, <2>3, <2>4, <2>5 DEF DueViews
<1>3. ASSUME NEW k \in Threads, NEW d \in Due(k)' PROVE DueScreens(d)' /\ DueViews(k, d)'
  <2>1. CASE k = t /\ d \in A
    BY <2>1
  <2>2. CASE ~(k = t /\ d \in A)
    <3>1. d \in Due(k) /\ (k = t => Len(todo[t]) > 1)
      BY <2>2, <1>3 DEF Moves
    <3>2. DueScreens(d) /\ DueViews(k, d)
      BY <3>1 DEF DueInv
    <3>3. ASSUME d.op \in Making, k = t PROVE FALSE
      <4>1. Len(todo[t]) = 1 /\ Len(todo[t]) > 1
        BY <3>1, <3>2, <3>3 DEF DueViews
      <4>2. QED
        BY <4>1
    <3>4. QED
      BY <3>1, <3>2, <3>3, <1>1, <1>2
  <2>3. QED
    BY <2>1, <2>2
<1>4. QED
  BY <1>3 DEF DueInv

\* ... and in a step that changes neither tables nor views,
LEMMA DueSame ==
  ASSUME TypeOK, DueInv, NEW t \in Threads, NEW H, NEW A, Moves(t, H, A),
         UNCHANGED <<screens, shut, created, begun, shows, ended, served>>,
         \A a \in A : DueScreens(a)' /\ DueViews(t, a)',
         \A a \in A : a.op \in Making \cup Ending =>
           \/ \E h \in H : h.op \in Making \cup Ending /\ h.arg = a.arg
           \/ a.arg \in served \/ a.arg > begun
  PROVE  DueInv'
<1>1. created \in Nat /\ begun \in Nat
  BY DEF TypeOK
<1>2. /\ screens \cup shut \subseteq screens' \cup shut' /\ shut \subseteq shut'
      /\ \A w \in screens' \ screens : w > created
      /\ created' \in Nat /\ created' >= created /\ begun' \in Nat /\ begun' >= begun
      /\ ended \subseteq ended'
  BY <1>1
<1>3. \A k \in Threads \ {t} : \A d \in Due(k) : d.op \in Making =>
        d.arg \notin (ended' \cup served') \ (ended \cup served) /\ shows'[d.arg] = shows[d.arg]
  OBVIOUS
<1>4. QED
  BY <1>2, <1>3, DueStep
----------------------------------------------------------------------------
(* The steps                                                               *)

\* open() cleans up after itself.
LEMMA RollbackStep ==
  ASSUME Sizes, ScreenInv, NEW t \in Threads, Rollback(t)
  PROVE  ScreenInv'
<1> USE DEF ScreenInv
<1>1. PICK h \in Entry :
        /\ h = Head(todo[t]) /\ todo[t] # <<>> /\ h.op = "rollback" /\ h.arg = Arg(t) /\ h \in Due(t)
        /\ DueScreens(h) /\ DueViews(t, h)
  BY DueType DEF Rollback, At, Arg, DueInv
<1>2. Moves(t, {h}, {}) /\ todo' \in [Threads -> Seq(Entry)]
  BY <1>1, Finishes DEF Rollback
<1>3. TypeOK'
  BY <1>2 DEF TypeOK, Entry, Rollback, tableVars, tmuxVars, viewVars, KillWindows
<1>4. TablesInv'
  BY <1>1, TablesSame DEF TablesInv, OpenScreensLive, DueScreens, Rollback, tableVars,
     tmuxVars, viewVars, KillWindows
<1>5. ViewsInv'
  BY ViewsSame DEF Rollback, tableVars, tmuxVars, viewVars, KillWindows
<1>6. DueInv'
  BY <1>2, DueSame DEF Rollback, tableVars, tmuxVars, viewVars, KillWindows
<1>7. OrphansInv'
  BY <1>1, <1>2, OrphansSame DEF Rollback, tableVars, tmuxVars, viewVars, KillWindows
<1>8. PagesInv'
  BY <1>1, <1>2, PagesSame DEF Making, Ending, Rollback, tableVars, tmuxVars, viewVars,
     KillWindows
<1>9. ClosedInv'
  BY <1>1, <1>2, ClosedSame DEF Rollback, tableVars, tmuxVars, viewVars, KillWindows
<1>10. QED
  BY <1>3, <1>4, <1>5, <1>6, <1>7, <1>8, <1>9

\* The processes of a screen are stopped.
LEMMA StopProcessesStep ==
  ASSUME Sizes, ScreenInv, NEW t \in Threads, StopProcesses(t)
  PROVE  ScreenInv'
<1> USE DEF ScreenInv
<1>1. PICK h \in Entry :
        /\ h = Head(todo[t]) /\ todo[t] # <<>> /\ h.op = "procs" /\ h.arg = Arg(t) /\ h \in Due(t)
        /\ DueScreens(h) /\ DueViews(t, h)
  BY DueType DEF StopProcesses, At, Arg, DueInv
<1>2. Moves(t, {h}, {}) /\ todo' \in [Threads -> Seq(Entry)]
  BY <1>1, Finishes DEF StopProcesses
<1>3. TypeOK'
  BY <1>2 DEF TypeOK, Entry, StopProcesses, tableVars, tmuxVars, viewVars
<1>4. TablesInv'
  BY <1>1, TablesSame DEF TablesInv, OpenScreensLive, DueScreens, StopProcesses, tableVars,
     tmuxVars, viewVars
<1>5. ViewsInv'
  BY ViewsSame DEF StopProcesses, tableVars, tmuxVars, viewVars
<1>6. DueInv'
  BY <1>2, DueSame DEF StopProcesses, tableVars, tmuxVars, viewVars
<1>7. OrphansInv'
  BY <1>1, <1>2, OrphansSame DEF StopProcesses, tableVars, tmuxVars, viewVars
<1>8. PagesInv'
  BY <1>1, <1>2, PagesSame DEF Making, Ending, StopProcesses, tableVars, tmuxVars, viewVars
<1>9. ClosedInv'
  BY <1>1, <1>2, ClosedSame DEF StopProcesses, tableVars, tmuxVars, viewVars
<1>10. QED
  BY <1>3, <1>4, <1>5, <1>6, <1>7, <1>8, <1>9

\* The window of a screen is killed.
LEMMA KillWindowStep ==
  ASSUME Sizes, ScreenInv, NEW t \in Threads, KillWindow(t)
  PROVE  ScreenInv'
<1> USE DEF ScreenInv
<1>1. PICK h \in Entry :
        /\ h = Head(todo[t]) /\ todo[t] # <<>> /\ h.op = "window" /\ h.arg = Arg(t) /\ h \in Due(t)
        /\ DueScreens(h) /\ DueViews(t, h)
  BY DueType DEF KillWindow, At, Arg, DueInv
<1>2. Moves(t, {h}, {}) /\ todo' \in [Threads -> Seq(Entry)]
  BY <1>1, Finishes DEF KillWindow
<1>3. TypeOK'
  BY <1>2 DEF TypeOK, Entry, KillWindow, tableVars, tmuxVars, viewVars, KillWindows
<1>4. TablesInv'
  BY <1>1, TablesSame DEF TablesInv, OpenScreensLive, DueScreens, KillWindow, tableVars,
     tmuxVars, viewVars, KillWindows
<1>5. ViewsInv'
  BY ViewsSame DEF KillWindow, tableVars, tmuxVars, viewVars, KillWindows
<1>6. DueInv'
  BY <1>2, DueSame DEF KillWindow, tableVars, tmuxVars, viewVars, KillWindows
<1>7. OrphansInv'
  BY <1>1, <1>2, OrphansSame DEF KillWindow, tableVars, tmuxVars, viewVars, KillWindows
<1>8. PagesInv'
  BY <1>1, <1>2, PagesSame DEF Making, Ending, KillWindow, tableVars, tmuxVars, viewVars,
     KillWindows
<1>9. ClosedInv'
  BY <1>1, <1>2, ClosedSame DEF KillWindow, tableVars, tmuxVars, viewVars, KillWindows
<1>10. QED
  BY <1>3, <1>4, <1>5, <1>6, <1>7, <1>8, <1>9

\* The server is stopped.
LEMMA StopServerStep ==
  ASSUME Sizes, ScreenInv, NEW t \in Threads, StopServer(t)
  PROVE  ScreenInv'
<1> USE DEF ScreenInv
<1>1. PICK h \in Entry :
        /\ h = Head(todo[t]) /\ todo[t] # <<>> /\ h.op = "server" /\ h.arg = Arg(t) /\ h \in Due(t)
        /\ DueScreens(h) /\ DueViews(t, h)
  BY DueType DEF StopServer, At, Arg, DueInv
<1>2. Moves(t, {h}, {}) /\ todo' \in [Threads -> Seq(Entry)]
  BY <1>1, Finishes DEF StopServer
<1>3. TypeOK'
  BY <1>2 DEF TypeOK, Entry, StopServer, tableVars, tmuxVars, viewVars, NoServer
<1>4. TablesInv'
  BY <1>1, TablesSame DEF TablesInv, OpenScreensLive, DueScreens, StopServer, tableVars,
     tmuxVars, viewVars, NoServer
<1>5. ViewsInv'
  BY ViewsSame DEF StopServer, tableVars, tmuxVars, viewVars, NoServer
<1>6. DueInv'
  BY <1>2, DueSame DEF StopServer, tableVars, tmuxVars, viewVars, NoServer
<1>7. OrphansInv'
  BY <1>1, <1>2, OrphansSame DEF StopServer, tableVars, tmuxVars, viewVars, NoServer
<1>8. PagesInv'
  BY <1>1, <1>2, PagesSame DEF Making, Ending, StopServer, tableVars, tmuxVars, viewVars,
     NoServer
<1>9. ClosedInv'
  BY <1>1, <1>2, ClosedSame DEF StopServer, tableVars, tmuxVars, viewVars, NoServer
<1>10. QED
  BY <1>3, <1>4, <1>5, <1>6, <1>7, <1>8, <1>9

\* The ttyd of a view is stopped.
LEMMA StopTtydStep ==
  ASSUME Sizes, ScreenInv, NEW t \in Threads, StopTtyd(t)
  PROVE  ScreenInv'
<1> USE DEF ScreenInv
<1>1. PICK h \in Entry :
        /\ h = Head(todo[t]) /\ todo[t] # <<>> /\ h.op = "ttyd" /\ h.arg = Arg(t) /\ h \in Due(t)
        /\ DueScreens(h) /\ DueViews(t, h)
  BY DueType DEF StopTtyd, At, Arg, DueInv
<1>2. Moves(t, {h}, {}) /\ todo' \in [Threads -> Seq(Entry)]
  BY <1>1, Finishes DEF StopTtyd
<1>3. TypeOK'
  BY <1>2 DEF TypeOK, Entry, StopTtyd, tableVars, tmuxVars, viewVars
<1>4. TablesInv'
  BY <1>1, TablesSame DEF TablesInv, OpenScreensLive, DueScreens, StopTtyd, tableVars,
     tmuxVars, viewVars
<1>5. ViewsInv'
  BY ViewsSame DEF StopTtyd, tableVars, tmuxVars, viewVars
<1>6. DueInv'
  BY <1>2, DueSame DEF StopTtyd, tableVars, tmuxVars, viewVars
<1>7. OrphansInv'
  BY <1>1, <1>2, OrphansSame DEF StopTtyd, tableVars, tmuxVars, viewVars
<1>8. PagesInv'
  <2>1. \A op \in (Making \cup Ending) \ {"ttyd"} : \A v : Pending(op, v) => Pending(op, v)'
    BY <1>1, <1>2, PendingMoves
  <2>2. \A v : Pending("ttyd", v) => Pending("ttyd", v)' \/ v = Arg(t)
    BY <1>1, <1>2, PendingMoves
  <2>3. \A v : (Kept(v) => Kept(v)') /\ (Kept(v) => v \notin ended)
    BY <2>1 DEF Kept, Registered, Making, Ending, StopTtyd, tableVars, tmuxVars, viewVars
  <2>4. Arg(t) \in ended
    BY <1>1 DEF DueViews, Ending
  <2>5. QED
    BY <2>1, <2>2, <2>3, <2>4 DEF PagesInv, Making, Ending, StopTtyd, tableVars, tmuxVars,
       viewVars
<1>9. ClosedInv'
  BY <1>1, <1>2, ClosedSame DEF StopTtyd, tableVars, tmuxVars, viewVars
<1>10. QED
  BY <1>3, <1>4, <1>5, <1>6, <1>7, <1>8, <1>9

\* The tmux session of a view is killed.
LEMMA KillSessionStep ==
  ASSUME Sizes, ScreenInv, NEW t \in Threads, KillSession(t)
  PROVE  ScreenInv'
<1> USE DEF ScreenInv
<1>1. PICK h \in Entry :
        /\ h = Head(todo[t]) /\ todo[t] # <<>> /\ h.op = "session" /\ h.arg = Arg(t) /\ h \in Due(t)
        /\ DueScreens(h) /\ DueViews(t, h)
  BY DueType DEF KillSession, At, Arg, DueInv
<1>2. Moves(t, {h}, {}) /\ todo' \in [Threads -> Seq(Entry)]
  BY <1>1, Finishes DEF KillSession
<1>3. TypeOK'
  BY <1>2 DEF TypeOK, Entry, KillSession, tableVars, tmuxVars, viewVars
<1>4. TablesInv'
  BY <1>1, TablesSame DEF TablesInv, OpenScreensLive, DueScreens, KillSession, tableVars,
     tmuxVars, viewVars
<1>5. ViewsInv'
  BY ViewsSame DEF KillSession, tableVars, tmuxVars, viewVars
<1>6. DueInv'
  BY <1>2, DueSame DEF KillSession, tableVars, tmuxVars, viewVars
<1>7. OrphansInv'
  BY <1>1, <1>2, OrphansSame DEF KillSession, tableVars, tmuxVars, viewVars
<1>8. PagesInv'
  <2>1. \A op \in (Making \cup Ending) \ {"session"} : \A v : Pending(op, v) => Pending(op, v)'
    BY <1>1, <1>2, PendingMoves
  <2>2. \A v : Pending("session", v) => Pending("session", v)' \/ v = Arg(t)
    BY <1>1, <1>2, PendingMoves
  <2>3. \A v : (Kept(v) => Kept(v)') /\ (Kept(v) => v \notin ended)
    BY <2>1 DEF Kept, Registered, Making, Ending, KillSession, tableVars, tmuxVars, viewVars
  <2>4. Arg(t) \in ended
    BY <1>1 DEF DueViews, Ending
  <2>5. QED
    BY <2>1, <2>2, <2>3, <2>4 DEF PagesInv, Making, Ending, KillSession, tableVars, tmuxVars,
       viewVars
<1>9. ClosedInv'
  BY <1>1, <1>2, ClosedSame DEF KillSession, tableVars, tmuxVars, viewVars
<1>10. QED
  BY <1>3, <1>4, <1>5, <1>6, <1>7, <1>8, <1>9

\* What a step adds to do.
LEMMA DoIs ==
  \A op \in Op, arg \in Nat :
    /\ Do(op, arg) \in Entry /\ Do(op, arg).op = op /\ Do(op, arg).arg = arg
    /\ \A w \in Window \cup {All} :
         /\ DoFor(op, arg, w) \in Entry /\ DoFor(op, arg, w).op = op
         /\ DoFor(op, arg, w).arg = arg /\ DoFor(op, arg, w).screen = w
  BY DEF Do, DoFor, Entry

\* An entry that ends a view asks for nothing more.
LEMMA EndingDue ==
  ASSUME NEW t, NEW d, d.op \in {"view", "end"}, d.arg \in 1..begun
  PROVE  DueScreens(d) /\ DueViews(t, d)
  BY DEF DueScreens, DueViews, Making, Ending

\* A view is ended unless it has been.
LEMMA EndViewStep ==
  ASSUME Sizes, ScreenInv, NEW t \in Threads, EndView(t)
  PROVE  ScreenInv'
<1> USE DEF ScreenInv
<1>1. PICK h \in Entry :
        /\ h = Head(todo[t]) /\ todo[t] # <<>> /\ h.op = "view" /\ h.arg = Arg(t) /\ h \in Due(t)
        /\ DueScreens(h) /\ DueViews(t, h)
  BY DueType DEF EndView, At, Arg, DueInv
<1>2. h.arg \in Nat /\ h.arg \in 1..begun
  BY <1>1 DEF Entry, DueViews, Ending
<1>3. PICK A : /\ Moves(t, {h}, A) /\ todo' \in [Threads -> Seq(Entry)]
               /\ h.arg \notin ended => Do("end", h.arg) \in A
               /\ \A a \in A : a = Do("end", h.arg)
  <2>1. CASE Arg(t) \in ended
    <3>1. Moves(t, {h}, {}) /\ todo' \in [Threads -> Seq(Entry)]
      BY <1>1, <2>1, Finishes DEF EndView
    <3>2. QED
      BY <1>1, <2>1, <3>1
  <2>2. CASE Arg(t) \notin ended
    <3>1. Do("end", h.arg) \in Entry
      BY <1>2, DoIs DEF Op
    <3>2. Instead(t, <<Do("end", h.arg)>>)
      BY <1>1, <2>2 DEF EndView
    <3>3. Moves(t, {h}, {Do("end", h.arg)}) /\ todo' \in [Threads -> Seq(Entry)]
      BY <1>1, <3>1, <3>2, Turns
    <3>4. QED
      BY <3>3
  <2>3. QED
    BY <2>1, <2>2
<1>4. Do("end", h.arg).op = "end" /\ Do("end", h.arg).arg = h.arg
  BY DEF Do
<1>5. TypeOK'
  BY <1>3 DEF TypeOK, Entry, EndView, tableVars, tmuxVars, viewVars
<1>6. TablesInv'
  BY TablesSame DEF TablesInv, OpenScreensLive, EndView, tableVars, tmuxVars, viewVars
<1>7. ViewsInv'
  BY ViewsSame DEF EndView, tableVars, tmuxVars, viewVars
<1>8. DueInv'
  <2>1. UNCHANGED <<screens, shut, created, begun, shows, ended, served>>
    BY DEF EndView, tableVars, tmuxVars, viewVars
  <2>2. \A a \in A : /\ a.op = "end" /\ a.arg \in 1..begun' /\ a.arg = h.arg
    BY <1>2, <1>3, <1>4, <2>1
  <2>3. \A a \in A : DueScreens(a)' /\ DueViews(t, a)'
    BY <2>2 DEF DueScreens, DueViews, Making, Ending
  <2>4. h.op \in Making \cup Ending
    BY <1>1 DEF Ending
  <2>5. QED
    BY <1>3, <2>1, <2>2, <2>3, <2>4, DueSame
<1>9. OrphansInv'
  BY <1>1, <1>3, OrphansSame DEF EndView, tableVars, tmuxVars, viewVars
<1>10. PagesInv'
  <2>1. \A op \in (Making \cup Ending) \ {"view"} : \A v : Pending(op, v) => Pending(op, v)'
    BY <1>1, <1>3, PendingMoves
  <2>2. \A v : Pending("view", v) => Pending("view", v)' \/ v = h.arg
    BY <1>1, <1>3, PendingMoves
  <2>3. h.arg \in ended \/ Pending("end", h.arg)'
    BY <1>3, <1>4, PendingMoves
  <2>4. \A v : Kept(v) => Kept(v)' \/ Pending("end", v)'
    BY <2>2, <2>3 DEF Kept, Registered, EndView, tableVars, tmuxVars, viewVars
  <2>5. QED
    BY <2>1, <2>4 DEF PagesInv, Making, Ending, EndView, tableVars, tmuxVars, viewVars
<1>11. ClosedInv'
  BY <1>1, <1>3, ClosedSame DEF EndView, tableVars, tmuxVars, viewVars
<1>12. QED
  BY <1>5, <1>6, <1>7, <1>8, <1>9, <1>10, <1>11

\* A view is marked as ended; its ttyd and session go next.
LEMMA SetEndedStep ==
  ASSUME Sizes, ScreenInv, NEW t \in Threads, SetEnded(t)
  PROVE  ScreenInv'
<1> USE DEF ScreenInv
<1>1. PICK h \in Entry :
        /\ h = Head(todo[t]) /\ todo[t] # <<>> /\ h.op = "end" /\ h.arg = Arg(t) /\ h \in Due(t)
        /\ DueScreens(h) /\ DueViews(t, h)
  BY DueType DEF SetEnded, At, Arg, DueInv
<1>2. h.arg \in Nat /\ h.arg \in 1..begun
  BY <1>1 DEF Entry, DueViews, Ending
<1> DEFINE ttyd == Do("ttyd", h.arg)
<1> DEFINE session == Do("session", h.arg)
<1>0. "ttyd" \in Op /\ "session" \in Op
  BY DEF Op
<1>3. /\ ttyd \in Entry /\ ttyd.op = "ttyd" /\ ttyd.arg = h.arg
      /\ session \in Entry /\ session.op = "session" /\ session.arg = h.arg
  BY <1>2, <1>0, DoIs
<1>4. Moves(t, {h}, {ttyd, session}) /\ todo' \in [Threads -> Seq(Entry)]
  <2>1. Instead(t, <<ttyd, session>>)
    BY <1>1 DEF SetEnded
  <2>2. <<ttyd, session>> \in Seq(Entry)
    BY <1>3
  <2>3. /\ Moves(t, {h}, Range(<<ttyd, session>>)) /\ todo' \in [Threads -> Seq(Entry)]
    BY <1>1, <2>1, <2>2, Advances
  <2>4. Range(<<ttyd, session>>) = {ttyd, session}
    BY RangeTwo
  <2>5. QED
    BY <2>3, <2>4
<1>5. ended' = ended \cup {h.arg}
  BY <1>1 DEF SetEnded
<1> HIDE DEF ttyd, session
<1>6. TypeOK'
  BY <1>2, <1>4, <1>5 DEF TypeOK, Entry, SetEnded, tableVars, tmuxVars, viewVars
<1>7. TablesInv'
  BY TablesSame DEF TablesInv, OpenScreensLive, SetEnded, tableVars, tmuxVars, viewVars
<1>8. ViewsInv'
  BY ViewsSame DEF SetEnded, tableVars, tmuxVars, viewVars
<1>9. DueInv'
  <2>1. UNCHANGED <<screens, shut, created, begun, shows, served>>
    BY DEF SetEnded, tableVars, tmuxVars, viewVars
  <2>2. \A a \in {ttyd, session} : DueScreens(a)' /\ DueViews(t, a)'
    BY <1>2, <1>3, <1>5, <2>1 DEF DueScreens, DueViews, Making, Ending
  <2>3. h.op \in Making \cup Ending
    BY <1>1 DEF Ending
  <2>4. \A k \in Threads \ {t} : \A d \in Due(k) : d.op \in Making => d.arg # h.arg
    BY <1>1, <2>3 DEF DueInv, DueViews
  <2>5. created \in Nat /\ begun \in Nat
    BY DEF TypeOK
  <2>6. \A k \in Threads \ {t} : \A d \in Due(k) : d.op \in Making =>
          d.arg \notin (ended' \cup served') \ (ended \cup served) /\ shows'[d.arg] = shows[d.arg]
    BY <2>1, <2>4, <1>5
  <2>7. \A a \in {ttyd, session} : \E e \in {h} : e.op \in Making \cup Ending /\ e.arg = a.arg
    BY <2>3, <1>3
  <2>8. QED
    BY <1>4, <1>5, <2>1, <2>2, <2>5, <2>6, <2>7, DueStep
<1>10. OrphansInv'
  BY <1>1, <1>4, OrphansSame DEF SetEnded, tableVars, tmuxVars, viewVars
<1>11. PagesInv'
  <2>1. \A op \in (Making \cup Ending) \ {"end"} : \A v : Pending(op, v) => Pending(op, v)'
    BY <1>1, <1>4, PendingMoves
  <2>2. \A v : Pending("end", v) => Pending("end", v)' \/ v = h.arg
    BY <1>1, <1>4, PendingMoves
  <2>3. Pending("ttyd", h.arg)' /\ Pending("session", h.arg)'
    BY <1>3, <1>4, PendingMoves
  <2>4. \A v : Kept(v) => Kept(v)' \/ v = h.arg
    BY <2>1, <1>5 DEF Kept, Registered, Making, Ending, SetEnded, tableVars, tmuxVars, viewVars
  <2>5. QED
    BY <2>1, <2>2, <2>3, <2>4 DEF PagesInv, Making, Ending, SetEnded, tableVars, tmuxVars,
       viewVars
<1>12. ClosedInv'
  BY <1>1, <1>4, ClosedSame DEF SetEnded, tableVars, tmuxVars, viewVars
<1>13. QED
  BY <1>6, <1>7, <1>8, <1>9, <1>10, <1>11, <1>12

\* Windows and views are numbered as they come.
LEMMA Numbers ==
  ASSUME Sizes, TypeOK
  PROVE  /\ created \in Nat /\ begun \in Nat /\ created <= MaxWindows /\ begun <= MaxViews
         /\ 1..created \subseteq Window /\ 1..begun \subseteq View
         /\ screens \subseteq Window /\ shut \subseteq Window /\ served \subseteq View
<1>1. /\ created \in Nat /\ begun \in Nat /\ created <= MaxWindows /\ begun <= MaxViews
  BY DEF Sizes, TypeOK
<1>2. 1..created \subseteq Window /\ 1..begun \subseteq View
  BY <1>1 DEF Sizes, Window, View
<1>3. QED
  BY <1>1, <1>2 DEF TypeOK
\* A view that is made goes on to the next step of its constructor, or is ended.
LEMMA DueMaking ==
  ASSUME Sizes, TypeOK, DueInv, NEW t \in Threads, NEW h \in Due(t), h.op \in Making,
         NEW d, Moves(t, {h}, {d}), Len(todo'[t]) = Len(todo[t]),
         UNCHANGED <<screens, shut, created, begun, ended, served>>,
         \A v \in View : v # h.arg => shows'[v] = shows[v], d.arg = h.arg,
         \/ d.op = "view"
         \/ /\ d.op \in {"serve", "register"} /\ d.screen = h.screen
            /\ d.screen \in screens \cup {All} => shows'[d.arg] = d.screen
  PROVE  DueInv'
<1>1. /\ DueViews(t, h) /\ Len(todo[t]) = 1
      /\ h.arg \in (1..begun) \ (ended \cup served)
      /\ h.screen \in screens \cup shut \cup {All}
      /\ \A k \in Threads \ {t} : \A e \in Due(k) : e.op \in Making \cup Ending => e.arg # h.arg
  BY DEF DueInv, DueViews
<1>2. /\ created \in Nat /\ begun \in Nat /\ 1..begun \subseteq View
  BY Numbers
<1>3. \A k \in Threads \ {t} : \A d1 \in Due(k) : d1.op \in Making =>
        d1.arg \in View /\ d1.arg # h.arg
  BY <1>1, <1>2 DEF DueInv, DueViews
<1>4. DueScreens(d)'
  BY DEF DueScreens
<1>5. DueViews(t, d)'
  <2>1. d.arg \in 1..begun' /\ d.arg \notin ended' \cup served'
    BY <1>1
  <2>2. CASE d.op = "view"
    BY <2>1, <2>2 DEF DueViews, Making, Ending
  <2>3. CASE d.op \in {"serve", "register"} /\ d.screen = h.screen
    <3>1. Len(todo'[t]) = 1 /\ d.screen \in screens' \cup shut' \cup {All}
      BY <1>1, <2>3
    <3>2. \A k \in Threads \ {t} : \A e \in Due(k)' : e.op \in Making \cup Ending => e.arg # d.arg
      BY <1>1 DEF Moves
    <3>3. d.op \notin Ending /\ d.op \notin {"ttyd", "session"}
      BY <2>3 DEF Ending
    <3>4. d.screen \in screens' \cup {All} => shows'[d.arg] = d.screen
      BY <2>3
    <3>5. QED
      BY <2>1, <3>1, <3>2, <3>3, <3>4 DEF DueViews
  <2>4. QED
    BY <2>2, <2>3
<1>6. \A k \in Threads \ {t} : \A d1 \in Due(k) : d1.op \in Making =>
        d1.arg \notin (ended' \cup served') \ (ended \cup served) /\ shows'[d1.arg] = shows[d1.arg]
  BY <1>3
<1>7. QED
  BY <1>2, <1>4, <1>5, <1>6, DueStep

\* tmux makes the session of a view, or not.
LEMMA CreateViewStep ==
  ASSUME Sizes, ScreenInv, NEW t \in Threads, CreateView(t)
  PROVE  ScreenInv'
<1> USE DEF ScreenInv
<1>1. PICK h \in Entry :
        /\ h = Head(todo[t]) /\ todo[t] # <<>> /\ h.op = "create" /\ h.arg = Arg(t) /\ h \in Due(t)
        /\ DueScreens(h) /\ DueViews(t, h)
  BY DueType DEF CreateView, At, Arg, DueInv
<1>2. /\ Len(todo[t]) = 1 /\ h.arg \in (1..begun) \ (ended \cup served)
      /\ h.screen \in screens \cup shut \cup {All}
      /\ h.screen \in Window \cup {All} /\ h.arg \in Nat /\ h.arg \in View
  BY <1>1, Numbers DEF DueViews, Making, Entry
<1>3. PICK d \in Entry :
        /\ d.arg = h.arg /\ Instead(t, <<d>>)
        /\ \/ /\ d.op = "view" /\ UNCHANGED <<shows, sessions>>
           \/ /\ d.op = "serve" /\ d.screen = h.screen
              /\ \E x \in IF h.screen = All THEN {All} ELSE Named(name[h.screen]) :
                   shows' = [shows EXCEPT ![h.arg] = x]
              /\ sessions' = sessions \cup {h.arg}
  <2>1. "view" \in Op /\ "serve" \in Op
    BY DEF Op
  <2>2. CASE Instead(t, <<Do("view", h.arg)>>) /\ UNCHANGED <<shows, sessions>>
    <3>1. /\ Do("view", h.arg) \in Entry /\ Do("view", h.arg).op = "view"
          /\ Do("view", h.arg).arg = h.arg
      BY <1>2, <2>1, DoIs
    <3>2. QED
      BY <2>2, <3>1
  <2>3. CASE /\ Instead(t, <<DoFor("serve", h.arg, h.screen)>>)
             /\ \E x \in IF h.screen = All THEN {All} ELSE Named(name[h.screen]) :
                  shows' = [shows EXCEPT ![h.arg] = x]
             /\ sessions' = sessions \cup {h.arg}
    <3>1. /\ DoFor("serve", h.arg, h.screen) \in Entry
          /\ DoFor("serve", h.arg, h.screen).op = "serve"
          /\ DoFor("serve", h.arg, h.screen).arg = h.arg
          /\ DoFor("serve", h.arg, h.screen).screen = h.screen
      BY <1>2, <2>1, DoIs
    <3>2. QED
      BY <2>3, <3>1
  <2>4. QED
    BY <1>1, <2>2, <2>3 DEF CreateView
<1>4. /\ Moves(t, {h}, {d}) /\ todo' \in [Threads -> Seq(Entry)]
      /\ Len(todo'[t]) = Len(todo[t])
  BY <1>1, <1>3, Turns
<1>5. UNCHANGED <<tableVars, lock, tmuxVars, begun, ttyds, ended, served>>
  BY DEF CreateView
<1>6. \/ d.op = "view" /\ UNCHANGED shows
      \/ \E x \in Window \cup {All} : /\ shows' = [shows EXCEPT ![h.arg] = x]
                                      /\ h.screen \in screens \cup {All} => x = h.screen
  <2>1. ASSUME NEW x \in IF h.screen = All THEN {All} ELSE Named(name[h.screen])
        PROVE  x \in Window \cup {All} /\ (h.screen \in screens \cup {All} => x = h.screen)
    <3>1. screens \subseteq Window
      BY Numbers
    <3>2. CASE h.screen = All
      BY <3>2
    <3>3. CASE h.screen # All
      <4>1. x \in screens /\ name[x] = name[h.screen]
        BY <3>3 DEF Named
      <4>2. QED
        BY <3>1, <3>3, <4>1 DEF TablesInv, OpenScreensLive
    <3>4. QED
      BY <3>2, <3>3
  <2>2. QED
    BY <1>3, <2>1
<1>7. shows \in [View -> Window \cup {All}]
  BY DEF TypeOK
<1>8. \A v \in View : v # h.arg => shows'[v] = shows[v]
  BY <1>2, <1>6, <1>7
<1>9. TypeOK'
  <2>1. shows' \in [View -> Window \cup {All}] /\ sessions' \subseteq 1..begun
    BY ZenonT(40), <1>2, <1>3, <1>6, <1>7 DEF TypeOK
  <2>2. QED
    BY <1>4, <1>5, <2>1 DEF TypeOK, Entry, tableVars, tmuxVars, viewVars
<1>10. TablesInv'
  BY <1>5, TablesSame DEF TablesInv, OpenScreensLive, tableVars, tmuxVars, viewVars
<1>11. ViewsInv'
  <2>1. \A v \in served : shows'[v] = shows[v]
    BY <1>2, <1>8, Numbers
  <2>2. QED
    BY <1>5, <2>1, ViewsSame DEF tableVars, tmuxVars, viewVars
<1>12. DueInv'
  <2>1. h.op \in Making
    BY <1>1 DEF Making
  <2>2. d.op = "serve" => d.screen = h.screen
    BY <1>3
  <2>3. d.op = "serve" /\ d.screen \in screens \cup {All} => shows'[d.arg] = d.screen
    <3>1. ASSUME d.op = "serve", d.screen \in screens \cup {All} PROVE shows'[d.arg] = d.screen
      <4>1. shows' = [shows EXCEPT ![h.arg] = h.screen]
        BY <1>6, <2>2, <3>1
      <4>2. QED
        BY <1>2, <1>3, <1>7, <2>2, <3>1, <4>1
    <3>2. QED
      BY <3>1
  <2>4. QED
    BY <1>1, <1>3, <1>4, <1>5, <1>8, <2>1, <2>2, <2>3, DueMaking DEF tableVars, tmuxVars,
       viewVars
<1>13. OrphansInv'
  BY <1>1, <1>4, <1>5, OrphansSame DEF tableVars, tmuxVars, viewVars
<1>14. PagesInv'
  <2>1. \A op \in (Making \cup Ending) \ {"create"} : \A v : Pending(op, v) => Pending(op, v)'
    BY <1>1, <1>4, PendingMoves
  <2>2. h.arg \in sessions' => h.arg \in sessions \/ Pending("serve", h.arg)'
    BY <1>3, <1>4, PendingMoves
  <2>3. \A v : Kept(v) => Kept(v)'
    BY <2>1, <1>5 DEF Kept, Registered, Making, Ending, tableVars, tmuxVars, viewVars
  <2>4. sessions' \subseteq sessions \cup {h.arg}
    BY <1>3
  <2>5. QED
    BY <1>5, <2>1, <2>2, <2>3, <2>4 DEF PagesInv, Making, Ending, tableVars, tmuxVars, viewVars
<1>15. ClosedInv'
  BY <1>1, <1>4, <1>5, ClosedSame DEF tableVars, tmuxVars, viewVars
<1>16. QED
  BY <1>9, <1>10, <1>11, <1>12, <1>13, <1>14, <1>15

\* The ttyd of a view is started, and is ready in time or not.
LEMMA ServeStep ==
  ASSUME Sizes, ScreenInv, NEW t \in Threads, Serve(t)
  PROVE  ScreenInv'
<1> USE DEF ScreenInv
<1>1. PICK h \in Entry :
        /\ h = Head(todo[t]) /\ todo[t] # <<>> /\ h.op = "serve" /\ h.arg = Arg(t) /\ h \in Due(t)
        /\ DueScreens(h) /\ DueViews(t, h)
  BY DueType DEF Serve, At, Arg, DueInv
<1>2. /\ Len(todo[t]) = 1 /\ h.arg \in (1..begun) \ (ended \cup served)
      /\ h.screen \in screens \cup shut \cup {All}
      /\ h.screen \in Window \cup {All} /\ h.arg \in Nat /\ h.arg \in View
  BY <1>1, Numbers DEF DueViews, Making, Entry
<1>3. PICK d \in Entry :
        /\ d.arg = h.arg /\ Instead(t, <<d>>)
        /\ d.op = "view" \/ (d.op = "register" /\ d.screen = h.screen)
  <2>1. "view" \in Op /\ "register" \in Op
    BY DEF Op
  <2>2. Do("view", h.arg) \in Entry /\ Do("view", h.arg).op = "view" /\ Do("view", h.arg).arg = h.arg
    BY <1>2, <2>1, DoIs
  <2>3. LET d == DoFor("register", h.arg, h.screen)
        IN  d \in Entry /\ d.op = "register" /\ d.arg = h.arg /\ d.screen = h.screen
    BY <1>2, <2>1, DoIs
  <2>4. Instead(t, <<Do("view", h.arg)>>) \/ Instead(t, <<DoFor("register", h.arg, h.screen)>>)
    BY <1>1 DEF Serve
  <2>5. QED
    BY <2>2, <2>3, <2>4
<1>4. /\ Moves(t, {h}, {d}) /\ todo' \in [Threads -> Seq(Entry)]
      /\ Len(todo'[t]) = Len(todo[t])
  BY <1>1, <1>3, Turns
<1>5. /\ UNCHANGED <<tableVars, lock, tmuxVars, begun, shows, sessions, ended, served>>
      /\ ttyds' = ttyds \cup {h.arg}
  BY <1>1 DEF Serve
<1>6. TypeOK'
  BY <1>2, <1>4, <1>5 DEF TypeOK, Entry, tableVars, tmuxVars, viewVars
<1>7. TablesInv'
  BY <1>5, TablesSame DEF TablesInv, OpenScreensLive, tableVars, tmuxVars, viewVars
<1>8. ViewsInv'
  BY <1>5, ViewsSame DEF tableVars, tmuxVars, viewVars
<1>9. DueInv'
  <2>1. h.op \in Making /\ h.op \in {"serve", "register"}
    BY <1>1 DEF Making
  <2>2. h.screen \in screens \cup {All} => shows[h.arg] = h.screen
    BY <1>1, <2>1 DEF DueViews
  <2>3. d.op = "register" /\ d.screen \in screens \cup {All} => shows'[d.arg] = d.screen
    BY <1>3, <1>5, <2>2
  <2>4. QED
    BY <1>1, <1>3, <1>4, <1>5, <2>1, <2>3, DueMaking DEF tableVars, tmuxVars, viewVars
<1>10. OrphansInv'
  BY <1>1, <1>4, <1>5, OrphansSame DEF tableVars, tmuxVars, viewVars
<1>11. PagesInv'
  <2>1. \A op \in (Making \cup Ending) \ {"serve"} : \A v : Pending(op, v) => Pending(op, v)'
    BY <1>1, <1>4, PendingMoves
  <2>2. \A v : Pending("serve", v) => Pending("serve", v)' \/ v = h.arg
    BY <1>1, <1>4, PendingMoves
  <2>3. \A v : Kept(v) => Kept(v)'
    BY <2>1, <1>5 DEF Kept, Registered, Making, Ending, tableVars, tmuxVars, viewVars
  <2>4. Pending("register", h.arg)' \/ Kept(h.arg)'
    <3>1. Pending("register", h.arg)' \/ Pending("view", h.arg)'
      BY <1>3, <1>4, PendingMoves
    <3>2. h.arg \notin ended'
      BY <1>2, <1>5
    <3>3. QED
      BY <3>1, <3>2 DEF Kept
  <2>5. QED
    BY <1>5, <2>1, <2>2, <2>3, <2>4 DEF PagesInv, Making, Ending, tableVars, tmuxVars, viewVars
<1>12. ClosedInv'
  BY <1>1, <1>4, <1>5, ClosedSame DEF tableVars, tmuxVars, viewVars
<1>13. QED
  BY <1>6, <1>7, <1>8, <1>9, <1>10, <1>11, <1>12

\* A view is ended when its screen or the manager was closed meanwhile.
LEMMA RefusedStep ==
  ASSUME Sizes, ScreenInv, NEW t \in Threads, Register(t), ~Registers(Head(todo[t]).screen)
  PROVE  ScreenInv'
<1> USE DEF ScreenInv
<1>1. PICK h \in Entry :
        /\ h = Head(todo[t]) /\ todo[t] # <<>> /\ h.op = "register" /\ h.arg = Arg(t) /\ h \in Due(t)
        /\ DueScreens(h) /\ DueViews(t, h)
  BY DueType DEF Register, At, Arg, DueInv
<1>2. /\ Len(todo[t]) = 1 /\ h.arg \in (1..begun) \ (ended \cup served)
      /\ h.screen \in screens \cup shut \cup {All}
      /\ h.screen \in Window \cup {All} /\ h.arg \in Nat /\ h.arg \in View
  BY <1>1, Numbers DEF DueViews, Making, Entry
<1>3. Do("view", h.arg) \in Entry /\ Do("view", h.arg).op = "view" /\ Do("view", h.arg).arg = h.arg
  BY <1>2, DoIs DEF Op
<1>4. Instead(t, <<Do("view", h.arg)>>) /\ UNCHANGED <<cleanups, viewers, served>>
  BY <1>1 DEF Register
<1>5. PICK d \in Entry : d.op = "view" /\ d.arg = h.arg /\ Instead(t, <<d>>)
  BY <1>3, <1>4
<1>6. /\ Moves(t, {h}, {d}) /\ todo' \in [Threads -> Seq(Entry)]
      /\ Len(todo'[t]) = Len(todo[t])
  BY <1>1, <1>5, Turns
<1>7. UNCHANGED <<tableVars, lock, tmuxVars, viewVars>>
  BY <1>4 DEF Register, tableVars, tmuxVars, viewVars
<1>8. TypeOK'
  BY <1>6, <1>7 DEF TypeOK, Entry, tableVars, tmuxVars, viewVars
<1>9. TablesInv'
  BY <1>7, TablesSame DEF TablesInv, OpenScreensLive, tableVars, tmuxVars, viewVars
<1>10. ViewsInv'
  BY <1>7, ViewsSame DEF tableVars, tmuxVars, viewVars
<1>11. DueInv'
  <2>1. h.op \in Making
    BY <1>1 DEF Making
  <2>2. QED
    BY <1>1, <1>5, <1>6, <1>7, <2>1, DueMaking DEF tableVars, tmuxVars, viewVars
<1>12. OrphansInv'
  BY <1>1, <1>6, <1>7, OrphansSame DEF tableVars, tmuxVars, viewVars
<1>13. PagesInv'
  <2>1. \A op \in (Making \cup Ending) \ {"register"} : \A v : Pending(op, v) => Pending(op, v)'
    BY <1>1, <1>6, PendingMoves
  <2>2. \A v : Pending("register", v) => Pending("register", v)' \/ v = h.arg
    BY <1>1, <1>6, PendingMoves
  <2>3. \A v : Kept(v) => Kept(v)'
    BY <2>1, <1>7 DEF Kept, Registered, Making, Ending, tableVars, tmuxVars, viewVars
  <2>4. Pending("view", h.arg)' /\ h.arg \notin ended'
    BY <1>2, <1>5, <1>6, <1>7, PendingMoves DEF tableVars, tmuxVars, viewVars
  <2>5. QED
    BY <1>7, <2>1, <2>2, <2>3, <2>4 DEF PagesInv, Kept, Making, Ending, tableVars, tmuxVars,
       viewVars
<1>14. ClosedInv'
  BY <1>1, <1>6, <1>7, ClosedSame DEF tableVars, tmuxVars, viewVars
<1>15. QED
  BY <1>8, <1>9, <1>10, <1>11, <1>12, <1>13, <1>14

\* One entry more.
LEMMA RangeAppend ==
  ASSUME NEW S, NEW p \in Seq(S), NEW x \in S
  PROVE  Append(p, x) \in Seq(S) /\ Append(p, x) # <<>> /\ Range(Append(p, x)) = Range(p) \cup {x}
<1>1. Append(p, x) = p \o <<x>> /\ <<x>> \in Seq(S) /\ Append(p, x) \in Seq(S) /\ Append(p, x) # <<>>
  OBVIOUS
<1>2. Range(p \o <<x>>) = Range(p) \cup Range(<<x>>)
  BY ZenonT(40), <1>1, RangeConcat
<1>3. Range(<<x>>) = {x}
  BY RangeOne
<1>4. QED
  BY <1>1, <1>2, <1>3

\* A view is registered with the screen it shows, or with the manager.
LEMMA RegisterStep ==
  ASSUME Sizes, ScreenInv, NEW t \in Threads, Register(t), Registers(Head(todo[t]).screen)
  PROVE  ScreenInv'
<1> USE DEF ScreenInv
<1>1. PICK h \in Entry :
        /\ h = Head(todo[t]) /\ todo[t] # <<>> /\ h.op = "register" /\ h.arg = Arg(t) /\ h \in Due(t)
        /\ DueScreens(h) /\ DueViews(t, h)
  BY DueType DEF Register, At, Arg, DueInv
<1>2. /\ Len(todo[t]) = 1 /\ h.arg \in (1..begun) \ (ended \cup served)
      /\ h.screen \in screens \cup shut \cup {All}
      /\ h.screen \in Window \cup {All} /\ h.arg \in Nat /\ h.arg \in View
  BY <1>1, Numbers DEF DueViews, Making, Entry
<1> DEFINE v == h.arg
<1> DEFINE w == h.screen
<1>3. /\ Done(t) /\ served' = served \cup {v} /\ ~closed
      /\ \/ w = All /\ cleanups' = Append(cleanups, v) /\ UNCHANGED viewers
         \/ /\ w \in screens /\ UNCHANGED cleanups
            /\ viewers' = [viewers EXCEPT ![w] = Append(@, v)]
  BY <1>1 DEF Register, Registers, IsOpen
<1>4. /\ UNCHANGED <<closed, screens, name, shut, lock, tmuxVars, begun, shows, sessions, ttyds, ended>>
  BY DEF Register
<1>5. Moves(t, {h}, {}) /\ todo' \in [Threads -> Seq(Entry)]
  BY <1>1, <1>3, Finishes
<1>6. cleanups \in Seq(View) /\ viewers \in [Window -> Seq(View)] /\ screens \subseteq Window
  BY Numbers DEF TypeOK
<1>7. shows[v] = w
  <2>1. h.op \in {"serve", "register"} /\ w \in screens \cup {All}
    BY <1>1, <1>3
  <2>2. QED
    BY <1>1, <2>1 DEF DueViews
<1> HIDE DEF v, w
<1>8. /\ cleanups' \in Seq(View) /\ Range(cleanups') \subseteq Range(cleanups) \cup {v}
      /\ Range(cleanups) \subseteq Range(cleanups')
      /\ Range(cleanups') # Range(cleanups) => v \in Range(cleanups') /\ w = All
  <2>1. CASE w = All /\ cleanups' = Append(cleanups, v)
    <3>1. v \in View
      BY <1>2 DEF v
    <3>2. Append(cleanups, v) \in Seq(View) /\ Range(Append(cleanups, v)) = Range(cleanups) \cup {v}
      BY <1>6, <3>1, RangeAppend
    <3>3. QED
      BY <2>1, <3>2
  <2>2. CASE UNCHANGED cleanups
    BY <1>6, <2>2
  <2>3. QED
    BY <1>3, <2>1, <2>2
<1>9. /\ viewers' \in [Window -> Seq(View)]
      /\ \A x \in Window : /\ Range(viewers[x]) \subseteq Range(viewers'[x])
                           /\ Range(viewers'[x]) \subseteq Range(viewers[x]) \cup {v}
                           /\ viewers'[x] = viewers[x] \/ (x = w /\ w \in screens)
  <2>1. CASE UNCHANGED viewers
    BY <1>6, <2>1
  <2>2. CASE viewers' = [viewers EXCEPT ![w] = Append(@, v)] /\ w \in screens
    <3>1. /\ viewers[w] \in Seq(View) /\ v \in View
          /\ viewers'[w] = Append(viewers[w], v)
          /\ \A x \in Window : x # w => viewers'[x] = viewers[x]
      BY <1>2, <1>6, <2>2 DEF v
    <3>2. /\ Append(viewers[w], v) \in Seq(View)
          /\ Range(Append(viewers[w], v)) = Range(viewers[w]) \cup {v}
      BY <3>1, RangeAppend
    <3>3. viewers' \in [Window -> Seq(View)]
      BY <1>6, <2>2, <3>1, <3>2
    <3>4. QED
      BY <2>2, <3>1, <3>2, <3>3
  <2>3. QED
    BY <1>3, <2>1, <2>2
<1>10. v \in Range(cleanups') \/ \E x \in Window : v \in Range(viewers'[x])
  <2>1. CASE w = All /\ cleanups' = Append(cleanups, v)
    BY <1>2, <1>6, <2>1, RangeAppend DEF v
  <2>2. CASE w \in screens /\ viewers' = [viewers EXCEPT ![w] = Append(@, v)]
    <3>1. viewers[w] \in Seq(View) /\ v \in View /\ viewers'[w] = Append(viewers[w], v) /\ w \in Window
      BY <1>2, <1>6, <2>2 DEF v
    <3>2. QED
      BY <3>1, RangeAppend
  <2>3. QED
    BY <1>3, <2>1, <2>2
<1>11. TypeOK'
  <2>1. served' \subseteq 1..begun
    BY <1>2, <1>3 DEF TypeOK, v
  <2>2. QED
    BY <1>4, <1>5, <1>8, <1>9, <2>1 DEF TypeOK, Entry, tmuxVars
<1>12. TablesInv'
  BY <1>3, <1>4 DEF TablesInv, OpenScreensLive, tmuxVars
<1>13. ViewsInv'
  <2>1. \A x \in Window : viewers'[x] # <<>> => x \in screens'
    BY <1>4, <1>9 DEF ViewsInv
  <2>2. \A x \in Window : \A u \in Range(viewers'[x]) : u \in served' /\ shows'[u] = x
    BY <1>3, <1>4, <1>7, <1>9 DEF ViewsInv
  <2>3. \A u \in Range(cleanups') : u \in served' /\ shows'[u] = All
    BY <1>3, <1>4, <1>7, <1>8 DEF ViewsInv
  <2>4. QED
    BY <2>1, <2>2, <2>3 DEF ViewsInv
<1>14. DueInv'
  <2>1. h.op \in Making \cup Ending
    BY <1>1 DEF Making
  <2>2. \A k \in Threads \ {t} : \A d \in Due(k) : d.op \in Making => d.arg # v
    BY <1>1, <2>1 DEF DueInv, DueViews, v
  <2>3. \A k \in Threads \ {t} : \A d \in Due(k) : d.op \in Making =>
          d.arg \notin (ended' \cup served') \ (ended \cup served) /\ shows'[d.arg] = shows[d.arg]
    BY <2>2, <1>3, <1>4
  <2>4. /\ UNCHANGED <<screens, shut, created, begun, ended>> /\ created \in Nat /\ begun \in Nat
    BY <1>4, Numbers DEF tmuxVars
  <2>5. QED
    BY <1>5, <2>3, <2>4, DueStep
<1>15. OrphansInv'
  BY <1>1, <1>4, <1>5, OrphansSame DEF tmuxVars
<1>16. PagesInv'
  <2>1. \A op \in (Making \cup Ending) \ {"register"} : \A u : Pending(op, u) => Pending(op, u)'
    BY <1>1, <1>5, PendingMoves
  <2>2. \A u : Pending("register", u) => Pending("register", u)' \/ u = v
    BY <1>1, <1>5, PendingMoves DEF v
  <2>3. \A u : Registered(u) => Registered(u)'
    BY <1>8, <1>9 DEF Registered
  <2>4. \A u : Kept(u) => Kept(u)'
    BY <2>1, <2>3, <1>4 DEF Kept, Making, Ending
  <2>5. \A u : u = v => Kept(u)'
    <3>1. v \notin ended'
      BY <1>2, <1>4 DEF v
    <3>2. \A u : u = v => Registered(u)'
      BY <1>10 DEF Registered
    <3>3. QED
      BY <3>1, <3>2 DEF Kept
  <2>6. QED
    BY <1>4, <2>1, <2>2, <2>4, <2>5 DEF PagesInv, Making, Ending
<1>17. ClosedInv'
  BY <1>1, <1>4, <1>5, ClosedSame DEF tmuxVars
<1>18. QED
  BY <1>11, <1>12, <1>13, <1>14, <1>15, <1>16, <1>17

\* The program ends a view.
LEMMA CloseViewStep ==
  ASSUME Sizes, ScreenInv, NEW t \in Threads, NEW v \in View, CloseView(t, v)
  PROVE  ScreenInv'
<1> USE DEF ScreenInv
<1>1. PICK d \in Entry : d.op = "view" /\ d.arg = v /\ Begin(t, <<d>>)
  <2>1. Do("view", v) \in Entry /\ Do("view", v).op = "view" /\ Do("view", v).arg = v
    BY DoIs DEF Op, View
  <2>2. QED
    BY <2>1 DEF CloseView
<1>2. /\ Idle(t) /\ v \in served /\ UNCHANGED <<tableVars, lock, tmuxVars, viewVars>>
  BY DEF CloseView
<1>3. Moves(t, {}, {d}) /\ todo' \in [Threads -> Seq(Entry)]
  BY <1>1, <1>2, Calls
<1>4. TypeOK'
  BY <1>2, <1>3 DEF TypeOK, Entry, tableVars, tmuxVars, viewVars
<1>5. TablesInv'
  BY <1>2, TablesSame DEF TablesInv, OpenScreensLive, tableVars, tmuxVars, viewVars
<1>6. ViewsInv'
  BY <1>2, ViewsSame DEF tableVars, tmuxVars, viewVars
<1>7. DueInv'
  <2>1. v \in 1..begun'
    BY <1>2 DEF TypeOK, tableVars, tmuxVars, viewVars
  <2>2. DueScreens(d)' /\ DueViews(t, d)'
    BY <1>1, <2>1 DEF DueScreens, DueViews, Making, Ending
  <2>3. QED
    BY <1>1, <1>2, <1>3, <2>2, DueSame DEF tableVars, tmuxVars, viewVars
<1>8. OrphansInv'
  BY <1>2, <1>3, OrphansSame DEF tableVars, tmuxVars, viewVars
<1>9. PagesInv'
  BY <1>2, <1>3, PagesSame DEF tableVars, tmuxVars, viewVars
<1>10. ClosedInv'
  BY <1>2, <1>3, ClosedSame DEF tableVars, tmuxVars, viewVars
<1>11. QED
  BY <1>4, <1>5, <1>6, <1>7, <1>8, <1>9, <1>10

\* The constructor of a view begins.
LEMMA OpenViewStep ==
  ASSUME Sizes, ScreenInv, NEW t \in Threads, NEW w \in Window \cup {All}, OpenView(t, w)
  PROVE  ScreenInv'
<1> USE DEF ScreenInv
<1>1. /\ Idle(t) /\ begun < MaxViews /\ begun' = begun + 1 /\ w \in screens \cup {All}
      /\ UNCHANGED <<tableVars, lock, tmuxVars, shows, sessions, ttyds, ended, served>>
      /\ begun' \in View /\ begun' \in Nat /\ begun \in Nat
  BY Numbers DEF OpenView, View, Sizes
<1>2. PICK v \in View : v = begun'
  BY <1>1
<1>3. PICK d \in Entry : d.op = "create" /\ d.arg = v /\ d.screen = w /\ Begin(t, <<d>>)
  <2>1. /\ DoFor("create", v, w) \in Entry /\ DoFor("create", v, w).op = "create"
        /\ DoFor("create", v, w).arg = v /\ DoFor("create", v, w).screen = w
    BY <1>1, <1>2, DoIs DEF Op
  <2>2. Begin(t, <<DoFor("create", v, w)>>)
    BY <1>2 DEF OpenView
  <2>3. QED
    BY <2>1, <2>2
<1>4. Moves(t, {}, {d}) /\ todo' \in [Threads -> Seq(Entry)] /\ Len(todo'[t]) = 1
  BY <1>1, <1>3, Calls
<1>5. TypeOK'
  <2>1. begun' \in 0..MaxViews /\ \A n \in 1..begun : n \in 1..begun'
    BY <1>1 DEF Sizes
  <2>2. sessions' \subseteq 1..begun' /\ ttyds' \subseteq 1..begun'
    BY <1>1, <2>1 DEF TypeOK
  <2>3. ended' \subseteq 1..begun' /\ served' \subseteq 1..begun'
    BY <1>1, <2>1 DEF TypeOK
  <2>4. QED
    BY <1>1, <1>4, <2>1, <2>2, <2>3 DEF TypeOK, Entry, tableVars, tmuxVars
<1>6. TablesInv'
  BY <1>1, TablesSame DEF TablesInv, OpenScreensLive, tableVars, tmuxVars, viewVars
<1>7. ViewsInv'
  BY <1>1, ViewsSame DEF tableVars, tmuxVars, viewVars
<1>8. DueInv'
  <2>1. /\ UNCHANGED <<screens, shut, created, ended, served, shows>>
        /\ created \in Nat /\ created >= created /\ begun' >= begun
        /\ v \in (1..begun') \ (ended \cup served) /\ v > begun
    <3>1. UNCHANGED <<screens, shut, created, ended, served, shows>> /\ created \in Nat
      BY <1>1, Numbers DEF tableVars, tmuxVars
    <3>2. v > begun /\ v \in 1..begun' /\ v \notin 1..begun
      BY <1>1, <1>2
    <3>3. QED
      BY <1>1, <3>1, <3>2 DEF TypeOK
  <2>2. DueScreens(d)'
    BY <1>3 DEF DueScreens
  <2>3. ASSUME NEW k \in Threads \ {t}, NEW e \in Due(k)', e.op \in Making \cup Ending
        PROVE  e.arg # d.arg
    <3>1. e \in Due(k)
      BY <1>4, <2>3 DEF Moves
    <3>2. e.arg \in 1..begun
      BY <2>3, <3>1 DEF DueInv, DueViews
    <3>3. QED
      BY <1>1, <1>3, <2>1, <3>2
  <2>4. DueViews(t, d)'
    BY <1>1, <1>3, <1>4, <2>1, <2>3 DEF DueViews, Making, Ending
  <2>5. \A k \in Threads \ {t} : \A e \in Due(k) : e.op \in Making =>
          e.arg \notin (ended' \cup served') \ (ended \cup served) /\ shows'[e.arg] = shows[e.arg]
    BY <2>1
  <2>6. QED
    BY <1>1, <1>3, <1>4, <2>1, <2>2, <2>4, <2>5, DueStep
<1>9. OrphansInv'
  BY <1>1, <1>4, OrphansSame DEF tableVars, tmuxVars, viewVars
<1>10. PagesInv'
  BY <1>1, <1>4, PagesSame DEF tableVars, tmuxVars, viewVars
<1>11. ClosedInv'
  BY <1>1, <1>4, ClosedSame DEF tableVars, tmuxVars, viewVars
<1>12. QED
  BY <1>5, <1>6, <1>7, <1>8, <1>9, <1>10, <1>11

\* open() fails, with a window of its own or without.
LEMMA OpenFailsStep ==
  ASSUME Sizes, ScreenInv, NEW t \in Threads, NEW n \in Names, OpenFails(t, n)
  PROVE  ScreenInv'
<1> USE DEF ScreenInv
<1>1. PICK w \in 0..created' :
        /\ Begin(t, <<Do("rollback", w)>>)
        /\ \/ UNCHANGED <<created, windows, procs>>
           \/ /\ w = created' /\ created' = created + 1 /\ created < MaxWindows
              /\ windows' = windows \cup {w} /\ procs' = procs \cup {w}
  <2>1. created \in Nat
    BY Numbers
  <2>2. CASE Begin(t, <<Do("rollback", 0)>>) /\ UNCHANGED <<created, windows, procs>>
    <3>1. 0 \in 0..created'
      BY <2>1, <2>2
    <3>2. QED
      BY <2>2, <3>1
  <2>3. CASE /\ created < MaxWindows /\ created' = created + 1
             /\ windows' = windows \cup {created'} /\ procs' = procs \cup {created'}
             /\ Begin(t, <<Do("rollback", created')>>)
    <3>1. created' \in 0..created'
      BY <2>1, <2>3
    <3>2. QED
      BY <2>3, <3>1
  <2>4. QED
    BY <2>2, <2>3 DEF OpenFails
<1>2. /\ Idle(t) /\ UNCHANGED <<tableVars, server, viewVars>> /\ lock' = t
  BY DEF OpenFails
<1>3. /\ created \in Nat /\ created' \in Nat /\ created' >= created /\ created' <= MaxWindows
      /\ w \in Nat
  BY <1>1, Numbers DEF Sizes
<1>4. PICK d \in Entry : d.op = "rollback" /\ d.arg = w /\ Begin(t, <<d>>)
  <2>1. /\ Do("rollback", w) \in Entry /\ Do("rollback", w).op = "rollback"
        /\ Do("rollback", w).arg = w
    BY <1>3, DoIs DEF Op
  <2>2. QED
    BY <1>1, <2>1
<1>5. Moves(t, {}, {d}) /\ todo' \in [Threads -> Seq(Entry)]
  BY <1>2, <1>4, Calls
<1>6. windows' \subseteq windows \cup {w} /\ procs' \subseteq procs \cup {w} /\ windows \subseteq windows'
  BY <1>1
<1>7. TypeOK'
  <2>1. \A x \in 1..created : x \in 1..created'
    BY <1>3
  <2>2. windows' \subseteq 1..created' /\ procs' \subseteq 1..created'
    <3>1. windows \subseteq 1..created' /\ procs \subseteq 1..created'
      BY <2>1 DEF TypeOK
    <3>2. CASE UNCHANGED <<windows, procs>>
      BY <3>1, <3>2
    <3>3. CASE /\ w = created' /\ created' = created + 1
               /\ windows' = windows \cup {w} /\ procs' = procs \cup {w}
      <4>1. w \in 1..created'
        BY <1>3, <3>3
      <4>2. QED
        BY <3>1, <3>3, <4>1
    <3>4. QED
      BY <1>1, <3>2, <3>3
  <2>3. screens' \subseteq 1..created' /\ shut' \subseteq 1..created'
    BY <1>2, <2>1 DEF TypeOK, tableVars
  <2>4. created' \in 0..MaxWindows
    BY <1>3 DEF Sizes
  <2>5. QED
    BY <1>2, <1>5, <2>2, <2>3, <2>4 DEF TypeOK, Entry, tableVars, viewVars
<1>8. TablesInv'
  BY <1>2, <1>6, TablesSame
<1>9. ViewsInv'
  BY <1>2, ViewsSame DEF tableVars, viewVars
<1>10. DueInv'
  <2>1. DueScreens(d)' /\ DueViews(t, d)'
    BY <1>1, <1>4 DEF DueScreens, DueViews, Making, Ending
  <2>2. d.op \notin Making \cup Ending
    BY <1>4 DEF Making, Ending
  <2>3. UNCHANGED <<screens, shut, begun, shows, ended, served>> /\ begun \in Nat
    BY <1>2, Numbers DEF tableVars, viewVars
  <2>4. \A k \in Threads \ {t} : \A e \in Due(k) : e.op \in Making =>
          e.arg \notin (ended' \cup served') \ (ended \cup served) /\ shows'[e.arg] = shows[e.arg]
    BY <2>3
  <2>5. QED
    BY <1>3, <1>5, <2>1, <2>2, <2>3, <2>4, DueStep
<1>11. OrphansInv'
  <2>1. Pending("rollback", w)'
    BY <1>4, <1>5, PendingMoves
  <2>2. \A op, x : Pending(op, x) => Pending(op, x)'
    BY <1>5, PendingMoves
  <2>3. \A x \in windows' \ screens' : x = w \/ x \in windows \ screens
    BY <1>2, <1>6 DEF tableVars
  <2>4. \A x \in procs' \ screens' : x = w \/ x \in procs \ screens
    BY <1>2, <1>6 DEF tableVars
  <2>5. QED
    BY <2>1, <2>2, <2>3, <2>4 DEF OrphansInv
<1>12. PagesInv'
  BY <1>2, <1>5, PagesSame DEF tableVars, viewVars
<1>13. ClosedInv'
  BY <1>2, <1>5, ClosedSame DEF tableVars, viewVars
<1>14. QED
  BY <1>7, <1>8, <1>9, <1>10, <1>11, <1>12, <1>13

\* open() creates a screen.
LEMMA OpenStep ==
  ASSUME Sizes, ScreenInv, NEW t \in Threads, NEW n \in Names, Open(t, n)
  PROVE  ScreenInv'
<1> USE DEF ScreenInv
<1>1. PICK w \in Window :
        /\ w = created' /\ created' = created + 1 /\ created \in Nat /\ w \notin 1..created
        /\ windows' = windows \cup {w} /\ procs' = procs \cup {w} /\ screens' = screens \cup {w}
        /\ name' = [name EXCEPT ![w] = n]
  <2>1. /\ created \in Nat /\ created < MaxWindows /\ created' = created + 1
        /\ windows' = windows \cup {created'} /\ procs' = procs \cup {created'}
        /\ screens' = screens \cup {created'} /\ name' = [name EXCEPT ![created'] = n]
    BY Numbers DEF Open
  <2>2. created' \in Window /\ created' \notin 1..created
    BY <2>1 DEF Window, Sizes
  <2>3. QED
    BY <2>1, <2>2
<1>2. /\ ~closed /\ server /\ Named(n) = {} /\ created < MaxWindows
      /\ UNCHANGED <<closed, shut, cleanups, viewers, lock, server, viewVars, todo>>
  BY DEF Open, IsOpen
<1>3. \A x \in 1..created : x \in 1..created'
  BY <1>1
<1>4. w \notin screens /\ w \notin shut /\ w \in 1..created'
  BY <1>1 DEF TypeOK
<1>5. TypeOK'
  <2>1. screens' \subseteq 1..created' /\ shut' \subseteq 1..created'
    BY <1>1, <1>2, <1>3, <1>4 DEF TypeOK
  <2>2. windows' \subseteq 1..created' /\ procs' \subseteq 1..created'
    BY <1>1, <1>3, <1>4 DEF TypeOK
  <2>3. created' \in 0..MaxWindows
    BY <1>1, <1>2 DEF Sizes
  <2>4. name' \in [Window -> Names \cup {NoName}]
    BY <1>1 DEF TypeOK
  <2>5. QED
    BY <1>2, <2>1, <2>2, <2>3, <2>4 DEF TypeOK, viewVars
<1>6. TablesInv'
  <2>1. screens' \cap shut' = {}
    BY <1>1, <1>2, <1>4 DEF TablesInv
  <2>2. name'[w] = n /\ \A x \in Window : x # w => name'[x] = name[x]
    BY <1>1 DEF TypeOK
  <2>3. \A x \in Window : name'[x] # NoName => x \in screens' \cup shut'
    BY <1>1, <1>2, <2>2 DEF TablesInv
  <2>4. \A x \in screens : name'[x] = name[x] /\ name[x] # n
    BY <1>2, <1>4, <2>2, Numbers DEF Named
  <2>5. \A x, y \in screens' : name'[x] = name'[y] => x = y
    BY <1>1, <2>2, <2>4 DEF TablesInv, OpenScreensLive
  <2>6. server' => screens' \subseteq windows'
    BY <1>1, <1>2 DEF TablesInv, OpenScreensLive
  <2>7. QED
    BY <1>2, <2>1, <2>3, <2>5, <2>6 DEF TablesInv, OpenScreensLive
<1>7. ViewsInv'
  BY <1>1, <1>2 DEF ViewsInv, viewVars
<1>8. DueInv'
  <2>1. ASSUME NEW k \in Threads, NEW d \in Due(k)
        PROVE  DueScreens(d)' /\ DueViews(k, d)'
    <3>1. DueScreens(d) /\ DueViews(k, d)
      BY DEF DueInv
    <3>2. \A x \in 0..created : x \in 0..created'
      BY <1>1
    <3>3. DueScreens(d)'
      BY <1>1, <1>2, <3>1, <3>2 DEF DueScreens
    <3>4. d.screen \in screens \cup shut \cup {All} /\ d.screen \in screens' \cup {All} =>
            d.screen \in screens \cup {All}
      BY <1>1, <1>4 DEF All
    <3>5. \A j \in Threads : Due(j)' = Due(j)
      BY <1>2 DEF Due
    <3>6. d.op \in {"serve", "register"} => d.op \in Making
      BY DEF Making
    <3>7. DueViews(k, d)'
      BY <1>1, <1>2, <3>1, <3>4, <3>5, <3>6 DEF DueViews, viewVars
    <3>8. QED
      BY <3>3, <3>7
  <2>2. QED
    BY <1>2, <2>1 DEF DueInv, Due
<1>9. \A op, arg : Pending(op, arg)' <=> Pending(op, arg)
  BY <1>2, PendingSame
<1>10. OrphansInv'
  BY <1>1, <1>9 DEF OrphansInv
<1>11. PagesInv'
  BY <1>2, <1>9 DEF PagesInv, Kept, Registered, viewVars
<1>12. ClosedInv'
  BY <1>2 DEF ClosedInv
<1>13. QED
  BY <1>5, <1>6, <1>7, <1>8, <1>10, <1>11, <1>12

\* The server dies.
LEMMA ServerDiesStep == ASSUME Sizes, ScreenInv, ServerDies PROVE ScreenInv'
<1> USE DEF ScreenInv
<1>1. /\ ~server' /\ windows' = {} /\ sessions' = {}
      /\ UNCHANGED <<tableVars, lock, created, procs, begun, shows, ttyds, ended, served, todo>>
  BY DEF ServerDies, NoServer
<1>2. \A op, arg : Pending(op, arg)' <=> Pending(op, arg)
  BY <1>1, PendingSame
<1>3. TypeOK'
  BY <1>1 DEF TypeOK, ServerDies, NoServer, tableVars
<1>4. TablesInv'
  BY <1>1, TablesSame
<1>5. ViewsInv'
  BY <1>1, ViewsSame DEF tableVars
<1>6. DueInv'
  BY <1>1 DEF DueInv, DueScreens, DueViews, Due, tableVars
<1>7. OrphansInv' /\ ClosedInv'
  BY <1>1, <1>2 DEF OrphansInv, ClosedInv, tableVars
<1>8. PagesInv'
  BY <1>1, <1>2 DEF PagesInv, Kept, Registered, tableVars
<1>9. QED
  BY <1>3, <1>4, <1>5, <1>6, <1>7, <1>8

\* What close() of a screen has left to do: its views, those of the manager
\* when it was the last, its processes and its window.
LEMMA TeardownIs ==
  ASSUME Sizes, TypeOK, NEW w \in screens
  PROVE  /\ Teardown(w) \in Seq(Entry)
         /\ \A a \in Range(Teardown(w)) :
              \/ /\ a.op = "view"
                 /\ a.arg \in Range(viewers[w]) \/ (screens = {w} /\ a.arg \in Range(cleanups))
              \/ a.op \in {"procs", "window"} /\ a.arg = w
         /\ Do("procs", w) \in Range(Teardown(w)) /\ Do("window", w) \in Range(Teardown(w))
         /\ \A v \in Range(viewers[w]) : Do("view", v) \in Range(Teardown(w))
         /\ screens = {w} => \A v \in Range(cleanups) : Do("view", v) \in Range(Teardown(w))
<1> DEFINE common == IF screens = {w} THEN cleanups ELSE <<>>
<1> DEFINE last == <<Do("procs", w), Do("window", w)>>
<1>1. viewers[w] \in Seq(View) /\ cleanups \in Seq(View) /\ <<>> \in Seq(View)
  <2>1. w \in Window
    BY Numbers
  <2>2. QED
    BY <2>1 DEF TypeOK
<1>2. common \in Seq(View) /\ viewers[w] \o common \in Seq(View)
  BY <1>1
<1>3. Range(viewers[w] \o common) = Range(viewers[w]) \cup Range(common)
  BY ZenonT(40), <1>1, <1>2, RangeConcat
<1>4. Do("procs", w) \in Entry /\ Do("window", w) \in Entry /\ last \in Seq(Entry)
  <2>1. w \in Nat
    BY Numbers DEF Window
  <2>2. QED
    BY <2>1, DoIs DEF Op
<1>5. Range(last) = {Do("procs", w), Do("window", w)}
  BY RangeTwo
<1>6. Teardown(w) = CloseViews(viewers[w] \o common) \o last
  BY DEF Teardown
<1>7. Range(common) = IF screens = {w} THEN Range(cleanups) ELSE {}
  BY RangeEmpty
<1> HIDE DEF common, last
<1>8. /\ CloseViews(viewers[w] \o common) \in Seq(Entry)
      /\ Range(CloseViews(viewers[w] \o common))
           = {Do("view", v) : v \in Range(viewers[w] \o common)}
  BY <1>2, RangeCloseViews
<1>9. /\ Teardown(w) \in Seq(Entry)
      /\ Range(Teardown(w)) = Range(CloseViews(viewers[w] \o common)) \cup Range(last)
  <2>1. Range(CloseViews(viewers[w] \o common) \o last)
          = Range(CloseViews(viewers[w] \o common)) \cup Range(last)
    BY <1>4, <1>8, RangeConcat
  <2>2. QED
    BY <1>4, <1>6, <1>8, <2>1
<1>10. Range(Teardown(w)) = {Do("view", v) : v \in Range(viewers[w]) \cup Range(common)}
                              \cup {Do("procs", w), Do("window", w)}
  BY <1>3, <1>5, <1>8, <1>9
<1>11. \A op, arg : Do(op, arg).op = op /\ Do(op, arg).arg = arg
  BY DEF Do
<1>12. QED
  BY <1>7, <1>9, <1>10, <1>11

\* A screen leaves the tables, called by the program or by close() of the manager.
LEMMA ShutStep ==
  ASSUME Sizes, ScreenInv, NEW t \in Threads, NEW w \in screens, Shut(w), NEW H, NEW A,
         A = Range(Teardown(w)), Moves(t, H, A), todo' \in [Threads -> Seq(Entry)],
         \A h \in H : h.op = "screen" /\ h.arg = w,
         UNCHANGED <<lock, tmuxVars, viewVars>>
  PROVE  ScreenInv'
<1> USE DEF ScreenInv
<1>1. /\ shut' = shut \cup {w} /\ screens' = screens \ {w} /\ w \notin screens'
      /\ viewers' = [viewers EXCEPT ![w] = <<>>]
      /\ cleanups' = IF screens' = {} THEN <<>> ELSE cleanups
      /\ UNCHANGED <<closed, name>>
      /\ screens' = {} => screens = {w}
  BY DEF Shut
<1>2. /\ \A a \in A : \/ /\ a.op = "view"
                         /\ a.arg \in Range(viewers[w]) \cup Range(cleanups)
                      \/ a.op \in {"procs", "window"} /\ a.arg = w
      /\ Do("procs", w) \in A /\ Do("window", w) \in A
      /\ \A v \in Range(viewers[w]) : Do("view", v) \in A
      /\ screens = {w} => \A v \in Range(cleanups) : Do("view", v) \in A
  BY TeardownIs
<1>3. /\ viewers \in [Window -> Seq(View)] /\ <<>> \in Seq(View) /\ w \in Window /\ Range(<<>>) = {}
      /\ viewers'[w] = <<>> /\ \A x \in Window : x # w => viewers'[x] = viewers[x]
  <2>1. w \in Window /\ Range(<<>>) = {} /\ viewers \in [Window -> Seq(View)]
    BY Numbers, RangeEmpty DEF TypeOK
  <2>2. QED
    BY <1>1, <2>1
<1>4. /\ \A op, arg : Pending(op, arg) => Pending(op, arg)' \/ (op = "screen" /\ arg = w)
      /\ \A op, arg : Do(op, arg) \in A => Pending(op, arg)'
  <2>1. \A op, arg : Pending(op, arg) => Pending(op, arg)' \/ \E h \in H : h.op = op /\ h.arg = arg
    BY PendingMoves
  <2>2. \A d \in A : Pending(d.op, d.arg)'
    BY PendingMoves
  <2>3. \A op, arg : Do(op, arg).op = op /\ Do(op, arg).arg = arg
    BY DEF Do
  <2>4. QED
    BY <2>1, <2>2, <2>3
<1>5. TypeOK'
  <2>1. screens' \subseteq 1..created' /\ shut' \subseteq 1..created'
    BY <1>1 DEF TypeOK, tmuxVars
  <2>2. viewers' \in [Window -> Seq(View)] /\ cleanups' \in Seq(View)
    BY <1>1, <1>3 DEF TypeOK
  <2>3. QED
    BY <1>1, <2>1, <2>2 DEF TypeOK, Entry, tmuxVars, viewVars
<1>6. TablesInv'
  BY <1>1, <1>3 DEF TablesInv, OpenScreensLive, tmuxVars
<1>7. ViewsInv'
  <2>1. \A x \in Window : viewers'[x] # <<>> => x \in screens'
    BY <1>1, <1>3 DEF ViewsInv
  <2>2. \A x \in Window : \A v \in Range(viewers'[x]) : v \in served' /\ shows'[v] = x
    BY <1>3 DEF ViewsInv, viewVars
  <2>3. \A v \in Range(cleanups') : v \in served' /\ shows'[v] = All
    BY <1>1, <1>3 DEF ViewsInv, viewVars
  <2>4. QED
    BY <2>1, <2>2, <2>3 DEF ViewsInv
<1>8. DueInv'
  <2>1. \A v \in Range(viewers[w]) \cup Range(cleanups) : v \in served /\ v \in 1..begun
    BY <1>3 DEF ViewsInv, TypeOK
  <2>2. \A a \in A : DueScreens(a)' /\ DueViews(t, a)'
    <3>1. SUFFICES ASSUME NEW a \in A PROVE DueScreens(a)' /\ DueViews(t, a)'
      OBVIOUS
    <3>2. CASE a.op = "view" /\ a.arg \in served /\ a.arg \in 1..begun
      BY <3>2 DEF DueScreens, DueViews, Making, Ending, viewVars
    <3>3. CASE a.op \in {"procs", "window"} /\ a.arg = w
      BY <1>1, <3>3 DEF DueScreens, DueViews, Making, Ending
    <3>4. QED
      BY <1>2, <2>1, <3>2, <3>3
  <2>3. \A a \in A : a.op \in Making \cup Ending => a.arg \in served
    BY <1>2, <2>1 DEF Making, Ending
  <2>4. /\ UNCHANGED <<created, begun, ended, served, shows>> /\ created \in Nat /\ begun \in Nat
    BY Numbers DEF tmuxVars, viewVars
  <2>5. \A k \in Threads \ {t} : \A d \in Due(k) : d.op \in Making =>
          d.arg \notin (ended' \cup served') \ (ended \cup served) /\ shows'[d.arg] = shows[d.arg]
    BY <2>4
  <2>6. screens \cup shut \subseteq screens' \cup shut' /\ shut \subseteq shut' /\ screens' \subseteq screens
    BY <1>1
  <2>7. QED
    BY <2>2, <2>3, <2>4, <2>5, <2>6, DueStep
<1>9. OrphansInv'
  BY <1>1, <1>2, <1>4 DEF OrphansInv, tmuxVars
<1>10. PagesInv'
  <2>1. \A v : Registered(v) => Registered(v)' \/ Pending("view", v)'
    <3>1. SUFFICES ASSUME NEW v, Registered(v) PROVE Registered(v)' \/ Pending("view", v)'
      OBVIOUS
    <3>2. CASE v \in Range(cleanups)
      BY <1>1, <1>2, <1>4, <3>2 DEF Registered
    <3>3. CASE \E x \in Window : v \in Range(viewers[x])
      BY <1>2, <1>3, <1>4, <3>3 DEF Registered
    <3>4. QED
      BY <3>1, <3>2, <3>3 DEF Registered
  <2>2. \A op \in Making \cup Ending : \A v : Pending(op, v) => Pending(op, v)'
    BY <1>4 DEF Making, Ending
  <2>3. \A v : Kept(v) => Kept(v)'
    BY <2>1, <2>2 DEF Kept, Making, Ending, viewVars
  <2>4. QED
    BY <2>2, <2>3 DEF PagesInv, Making, Ending, viewVars
<1>11. ClosedInv'
  BY <1>1, <1>4 DEF ClosedInv, tmuxVars
<1>12. QED
  BY <1>5, <1>6, <1>7, <1>8, <1>9, <1>10, <1>11

\* The program closes a screen.
LEMMA CloseScreenCall ==
  ASSUME Sizes, ScreenInv, NEW t \in Threads, NEW w \in Window, CloseScreen(t, w)
  PROVE  ScreenInv'
<1> USE DEF ScreenInv
<1>1. w \in screens /\ Shut(w) /\ Idle(t) /\ Begin(t, Teardown(w))
  BY DEF CloseScreen, TablesInv
<1>2. Teardown(w) \in Seq(Entry)
  BY <1>1, TeardownIs
<1>3. Moves(t, {}, Range(Teardown(w))) /\ todo' \in [Threads -> Seq(Entry)]
  BY <1>1, <1>2, Starts
<1>4. UNCHANGED <<lock, tmuxVars, viewVars>>
  BY DEF CloseScreen
<1>5. QED
  BY <1>1, <1>3, <1>4, ShutStep

\* close() of the manager comes to a screen.
LEMMA CloseScreenTurn ==
  ASSUME Sizes, ScreenInv, NEW t \in Threads, CloseScreenStep(t)
  PROVE  ScreenInv'
<1> USE DEF ScreenInv
<1>1. PICK h \in Entry :
        /\ h = Head(todo[t]) /\ todo[t] # <<>> /\ h.op = "screen" /\ h.arg = Arg(t) /\ h \in Due(t)
        /\ DueScreens(h) /\ DueViews(t, h)
  BY DueType DEF CloseScreenStep, At, Arg, DueInv
<1>2. UNCHANGED <<lock, tmuxVars, viewVars>>
  BY DEF CloseScreenStep
<1>3. CASE h.arg \in shut
  <2>1. UNCHANGED <<tableVars, tmuxVars, viewVars>>
    BY <1>1, <1>2, <1>3 DEF CloseScreenStep
  <2>2. Moves(t, {h}, {}) /\ todo' \in [Threads -> Seq(Entry)]
    BY <1>1, <1>3, Finishes DEF CloseScreenStep
  <2>3. TypeOK'
    BY <1>2, <2>1, <2>2 DEF TypeOK, Entry, tableVars, tmuxVars, viewVars
  <2>4. TablesInv'
    BY <2>1, TablesSame DEF TablesInv, OpenScreensLive, tableVars, tmuxVars, viewVars
  <2>5. ViewsInv'
    BY <2>1, ViewsSame DEF tableVars, tmuxVars, viewVars
  <2>6. DueInv'
    BY <2>1, <2>2, DueSame DEF tableVars, tmuxVars, viewVars
  <2>7. OrphansInv'
    BY <1>1, <2>1, <2>2, OrphansSame DEF tableVars, tmuxVars, viewVars
  <2>8. PagesInv'
    BY SMTT(30), <1>1, <2>1, <2>2, PagesSame DEF Making, Ending, tableVars, tmuxVars, viewVars
  <2>9. ClosedInv'
    <3>1. h.arg \notin screens
      BY <1>3 DEF TablesInv
    <3>2. QED
      BY <1>1, <2>1, <2>2, <3>1, ClosedSame DEF tableVars, tmuxVars, viewVars
  <2>10. QED
    BY <2>3, <2>4, <2>5, <2>6, <2>7, <2>8, <2>9
<1>4. CASE h.arg \notin shut
  <2>1. PICK w \in screens : w = h.arg
    BY <1>1, <1>4 DEF DueScreens
  <2>2. Shut(w) /\ Instead(t, Teardown(w)) /\ Teardown(w) \in Seq(Entry)
    BY <1>1, <1>4, <2>1, TeardownIs DEF CloseScreenStep
  <2>3. Moves(t, {h}, Range(Teardown(w))) /\ todo' \in [Threads -> Seq(Entry)]
    BY <1>1, <2>2, Advances
  <2>4. QED
    BY <1>1, <1>2, <2>1, <2>2, <2>3, ShutStep
<1>5. QED
  BY <1>3, <1>4

\* A finite set has its orders, each with every member once.
LEMMA OrderIs ==
  ASSUME NEW S, IsFiniteSet(S), NEW order \in Orders(S)
  PROVE  order \in Seq(S) /\ DOMAIN order = 1..Len(order) /\ Range(order) = S
<1>1. Cardinality(S) \in Nat
  BY FS_CardinalityType
<1>2. order \in [1..Cardinality(S) -> S] /\ \A x \in S : \E i \in 1..Cardinality(S) : order[i] = x
  BY DEF Orders, Bijection, Surjection, Injection
<1>3. order \in Seq(S) /\ Len(order) = Cardinality(S)
  BY <1>1, <1>2
<1>4. QED
  BY <1>2, <1>3 DEF Range

\* The manager is closed; what it knew it takes down.
LEMMA CloseManagerStep ==
  ASSUME Sizes, ScreenInv, NEW t \in Threads, CloseManager(t)
  PROVE  ScreenInv'
<1> USE DEF ScreenInv
<1>1. /\ Idle(t) /\ ~closed /\ closed' = TRUE
      /\ cleanups' = <<>> /\ viewers' = [w \in Window |-> <<>>]
      /\ UNCHANGED <<screens, name, shut, lock, tmuxVars, viewVars>>
  BY DEF CloseManager
<1>2. PICK views \in Orders(ScreenViews), order \in Orders(screens) :
        Begin(t, CloseViews(cleanups \o views)
                   \o [i \in 1..Len(order) |-> Do("screen", order[i])]
                   \o <<Do("server", 0)>>)
  BY DEF CloseManager
<1>3. IsFiniteSet(screens) /\ IsFiniteSet(ScreenViews) /\ ScreenViews \subseteq View
  <2>1. IsFiniteSet(1..created) /\ IsFiniteSet(View)
    BY Numbers, FS_Interval DEF View, Sizes
  <2>2. \A w \in Window : viewers[w] \in Seq(View)
    BY DEF TypeOK
  <2>3. ScreenViews \subseteq View
    BY <2>2, RangeType DEF ScreenViews
  <2>4. QED
    BY <2>1, <2>3, FS_Subset DEF TypeOK
<1>4. /\ order \in Seq(screens) /\ DOMAIN order = 1..Len(order) /\ Range(order) = screens
      /\ views \in Seq(View) /\ Range(views) = ScreenViews
  <2>1. order \in Seq(screens) /\ DOMAIN order = 1..Len(order) /\ Range(order) = screens
    BY <1>3, OrderIs
  <2>2. views \in Seq(ScreenViews) /\ Range(views) = ScreenViews
    BY <1>3, OrderIs
  <2>3. QED
    BY <1>3, <2>1, <2>2
<1> DEFINE first == CloseViews(cleanups \o views)
<1> DEFINE middle == [i \in 1..Len(order) |-> Do("screen", order[i])]
<1> DEFINE last == <<Do("server", 0)>>
<1>5. /\ first \in Seq(Entry)
      /\ Range(first) = {Do("view", v) : v \in Range(cleanups) \cup ScreenViews}
  <2>1. cleanups \in Seq(View) /\ cleanups \o views \in Seq(View)
    BY <1>4 DEF TypeOK
  <2>2. Range(cleanups \o views) = Range(cleanups) \cup ScreenViews
    BY <1>4, <2>1, RangeConcat
  <2>3. /\ first \in Seq(Entry)
        /\ Range(first) = {Do("view", v) : v \in Range(cleanups \o views)}
    BY <2>1, RangeCloseViews
  <2>4. QED
    BY <2>2, <2>3
<1>6. /\ middle \in Seq(Entry)
      /\ Range(middle) = {Do("screen", w) : w \in screens}
  <2>1. \A w \in screens : Do("screen", w) \in Entry
    BY Numbers, DoIs DEF Op, Window
  <2>2. Len(order) \in Nat /\ \A i \in 1..Len(order) : order[i] \in screens
    BY <1>4
  <2>3. middle \in [1..Len(order) -> Entry]
    BY <2>1, <2>2
  <2>4. middle \in Seq(Entry)
    BY <2>2, <2>3
  <2>5. \A w \in screens : \E i \in 1..Len(order) : order[i] = w
    BY <1>4 DEF Range
  <2>6. DOMAIN middle = 1..Len(order) /\ \A i \in 1..Len(order) : middle[i] = Do("screen", order[i])
    OBVIOUS
  <2> HIDE DEF middle
  <2>7. ASSUME NEW x \in Range(middle) PROVE x \in {Do("screen", w) : w \in screens}
    BY <2>2, <2>6 DEF Range
  <2>8. ASSUME NEW w \in screens PROVE Do("screen", w) \in Range(middle)
    <3>1. PICK i \in 1..Len(order) : order[i] = w
      BY <2>5
    <3>2. QED
      BY <2>6, <3>1 DEF Range
  <2>9. QED
    BY <2>4, <2>7, <2>8
<1>7. last \in Seq(Entry) /\ Range(last) = {Do("server", 0)}
  <2>1. Do("server", 0) \in Entry
    BY DoIs DEF Op
  <2>2. QED
    BY <2>1, RangeOne
<1> DEFINE steps == first \o middle \o last
<1>8. Begin(t, steps)
  BY <1>2
<1> DEFINE A == Range(steps)
<1>9. /\ steps \in Seq(Entry)
      /\ A = {Do("view", v) : v \in Range(cleanups) \cup ScreenViews}
                \cup {Do("screen", w) : w \in screens} \cup {Do("server", 0)}
  <2> HIDE DEF first, middle, last
  <2>1. first \o middle \in Seq(Entry) /\ Range(first \o middle) = Range(first) \cup Range(middle)
    BY <1>5, <1>6, RangeConcat
  <2>2. Range((first \o middle) \o last) = Range(first \o middle) \cup Range(last)
    <3> DEFINE p == first \o middle
    <3>1. p \in Seq(Entry) /\ last \in Seq(Entry)
      BY <1>7, <2>1
    <3> HIDE DEF p
    <3>2. Range(p \o last) = Range(p) \cup Range(last)
      BY <3>1, RangeConcat
    <3>3. QED
      BY <3>2 DEF p
  <2>3. QED
    BY <1>5, <1>6, <1>7, <2>1, <2>2
<1> HIDE DEF first, middle, last, steps
<1>10. Moves(t, {}, A) /\ todo' \in [Threads -> Seq(Entry)]
  BY <1>1, <1>8, <1>9, Starts
<1>11. \A op, arg : Do(op, arg).op = op /\ Do(op, arg).arg = arg
  BY DEF Do
<1> HIDE DEF A
<1>12. /\ \A op, arg : Pending(op, arg) => Pending(op, arg)'
       /\ \A op, arg : Do(op, arg) \in A => Pending(op, arg)'
  <2>1. \A d \in A : Pending(d.op, d.arg)'
    BY <1>10, PendingMoves
  <2>2. QED
    BY <1>10, <1>11, <2>1, PendingMoves
<1>13. Range(<<>>) = {} /\ <<>> \in Seq(View)
  BY RangeEmpty
<1>14. TypeOK'
  BY <1>1, <1>10, <1>13 DEF TypeOK, Entry, tmuxVars, viewVars
<1>15. TablesInv'
  BY <1>1 DEF TablesInv, OpenScreensLive, tmuxVars
<1>16. ViewsInv'
  BY <1>1, <1>13 DEF ViewsInv
<1>17. DueInv'
  <2>1. \A v \in Range(cleanups) \cup ScreenViews : v \in served /\ v \in 1..begun
    BY DEF ViewsInv, TypeOK, ScreenViews
  <2>2. \A a \in A : \/ a.op = "view" /\ a.arg \in served /\ a.arg \in 1..begun
                     \/ a.op = "screen" /\ a.arg \in screens
                     \/ a.op = "server"
    BY <1>9, <1>11, <2>1
  <2>3. \A a \in A : DueScreens(a)' /\ DueViews(t, a)'
    <3>1. SUFFICES ASSUME NEW a \in A PROVE DueScreens(a)' /\ DueViews(t, a)'
      OBVIOUS
    <3>2. DueScreens(a)'
      BY <1>1, <2>2 DEF DueScreens
    <3>3. DueViews(t, a)'
      BY <1>1, <2>2 DEF DueViews, Making, Ending, viewVars
    <3>4. QED
      BY <3>2, <3>3
  <2>4. \A a \in A : a.op \in Making \cup Ending => a.arg \in served
    BY <2>2 DEF Making, Ending
  <2>5. UNCHANGED <<screens, shut, created, begun, shows, ended, served>>
    BY <1>1 DEF tmuxVars, viewVars
  <2>6. QED
    BY <1>10, <2>3, <2>4, <2>5, DueSame
<1>18. OrphansInv'
  BY <1>1, <1>12 DEF OrphansInv, tmuxVars
<1>19. PagesInv'
  <2>1. \A v : Registered(v) => Pending("view", v)'
    <3>1. \A v : Registered(v) => v \in Range(cleanups) \cup ScreenViews
      BY DEF Registered, ScreenViews
    <3>2. QED
      BY <1>9, <1>12, <3>1
  <2>2. \A v : Kept(v) => Kept(v)'
    BY <1>1, <1>12, <2>1 DEF Kept, viewVars
  <2>3. QED
    BY <1>1, <1>12, <2>2 DEF PagesInv, viewVars
<1>20. ClosedInv'
  BY <1>1, <1>9, <1>12 DEF ClosedInv
<1>21. QED
  BY <1>14, <1>15, <1>16, <1>17, <1>18, <1>19, <1>20

----------------------------------------------------------------------------
(* The theorems                                                            *)

\* The invariant holds of a new manager,
LEMMA ScreenInit == ASSUME Sizes, Init PROVE ScreenInv
<1>1. Range(<<>>) = {} /\ <<>> \in Seq(View) /\ <<>> \in Seq(Entry)
  BY RangeEmpty
<1>2. \A t \in Threads : Due(t) = {}
  BY <1>1 DEF Init, Due
<1>3. TypeOK
  <2>1. 0 \in 0..MaxWindows /\ 0 \in 0..MaxViews
    BY DEF Sizes
  <2>2. todo \in [Threads -> Seq(Entry)]
    BY <1>1 DEF Init
  <2>3. name \in [Window -> Names \cup {NoName}] /\ viewers \in [Window -> Seq(View)]
        /\ shows \in [View -> Window \cup {All}] /\ cleanups \in Seq(View)
    BY <1>1 DEF Init
  <2>4. QED
    BY <2>1, <2>2, <2>3 DEF Init, TypeOK, Entry
<1>4. QED
  BY <1>1, <1>2, <1>3
     DEF Init, ScreenInv, TablesInv, OpenScreensLive, ViewsInv, DueInv, OrphansInv, PagesInv, ClosedInv

\* and every step keeps it.
LEMMA ScreenStep == ASSUME Sizes, ScreenInv, [Next]_vars PROVE ScreenInv'
<1>1. CASE UNCHANGED vars
  <2>1. UNCHANGED <<tableVars, lock, tmuxVars, viewVars, todo>>
    BY <1>1 DEF vars
  <2>2. \A op, arg : Pending(op, arg)' <=> Pending(op, arg)
    BY <2>1, PendingSame
  <2>3. TypeOK' /\ TablesInv'
    BY <2>1 DEF ScreenInv, TypeOK, TablesInv, OpenScreensLive, tableVars, tmuxVars, viewVars
  <2>4. ViewsInv'
    BY <2>1 DEF ScreenInv, ViewsInv, tableVars, viewVars
  <2>5. DueInv'
    BY <2>1 DEF ScreenInv, DueInv, DueScreens, DueViews, Due, tableVars, tmuxVars, viewVars
  <2>6. OrphansInv' /\ ClosedInv'
    BY <2>1, <2>2 DEF ScreenInv, OrphansInv, ClosedInv, tableVars, tmuxVars
  <2>7. PagesInv'
    BY <2>1, <2>2 DEF ScreenInv, PagesInv, Kept, Registered, tableVars, viewVars
  <2>8. QED
    BY <2>3, <2>4, <2>5, <2>6, <2>7 DEF ScreenInv
<1>2. ASSUME NEW t \in Threads, Step(t) PROVE ScreenInv'
  BY <1>2, RollbackStep, CloseScreenTurn, StopProcessesStep, KillWindowStep, StopServerStep,
     CreateViewStep, ServeStep, RegisterStep, RefusedStep, EndViewStep, SetEndedStep,
     StopTtydStep, KillSessionStep DEF Step
<1>3. QED
  BY <1>1, <1>2, OpenStep, OpenFailsStep, CloseScreenCall, CloseManagerStep, OpenViewStep,
     CloseViewStep, ServerDiesStep DEF Next

\* What the invariant means for the properties.
LEMMA ScreenFacts ==
  ASSUME Sizes, ScreenInv
  PROVE  OpenScreensLive /\ PageShowsItsScreen /\ NothingLeftBehind
<1> USE DEF ScreenInv
<1>1. OpenScreensLive
  BY DEF TablesInv
<1>2. PageShowsItsScreen
  <2>1. \A w \in Window : \A i \in 1..Len(viewers[w]) : viewers[w][i] \in Range(viewers[w])
    BY DEF TypeOK, Range
  <2>2. QED
    BY <2>1 DEF PageShowsItsScreen, ViewsInv
<1>3. ASSUME \A t \in Threads : Idle(t)
      PROVE  /\ windows \cup procs \subseteq screens
             /\ sessions \cup ttyds \subseteq served
             /\ \A v \in ttyds : shows[v] \in screens \cup {All}
             /\ closed => screens \cup windows \cup procs \cup sessions \cup ttyds = {} /\ ~server
  <2>1. \A op, arg : ~Pending(op, arg)
    BY <1>3, DueType DEF Pending
  <2>2. windows \cup procs \subseteq screens
    BY <2>1 DEF OrphansInv
  <2>3. \A v \in sessions \cup ttyds : Registered(v)
    BY <2>1 DEF PagesInv, Kept
  <2>4. \A v : Registered(v) => v \in served /\ shows[v] \in screens \cup {All}
    <3>1. \A w \in Window : viewers[w] \in Seq(View)
      BY DEF TypeOK
    <3>2. \A w \in Window : Range(viewers[w]) # {} => w \in screens
      BY <3>1, RangeType DEF ViewsInv
    <3>3. QED
      BY <3>2 DEF Registered, ViewsInv
  <2>5. closed => \A v : ~Registered(v)
    BY RangeEmpty DEF Registered, TablesInv
  <2>6. closed => screens = {} /\ ~server
    BY <2>1 DEF ClosedInv
  <2>7. QED
    BY <2>2, <2>3, <2>4, <2>5, <2>6
<1>4. QED
  BY <1>1, <1>2, <1>3 DEF NothingLeftBehind

\* The invariant holds of every behaviour of a manager.
THEOREM ScreenInvariant == ASSUME Sizes PROVE Spec => []ScreenInv
<1>1. Init => ScreenInv
  BY ScreenInit
<1>2. ScreenInv /\ [Next]_vars => ScreenInv'
  BY ScreenStep
<1>3. QED
  BY <1>1, <1>2, PTL DEF Spec
================================================================================
