-------------------------- MODULE CanaryQueueProofs --------------------------
(* What the canary queue guarantees for any number of Messages, children and  *)
(* deaths of the server.                                                      *)
EXTENDS CanaryQueue, FiniteSetTheorems, SequenceTheorems, TLAPS

Unknown == Lifecycle!Unknown

\* The states a Run of the queue is ever in.
Reached ==
    {Unknown, "prepared", "running", "verifying", "cancelling"} \cup Lifecycle!TerminalStates

\* Beside r a child lives whose start is the last one journaled.
Named(r) == started[r] # <<>> /\ <<r, Last(started[r])>> \in live

\* What the server ever asks of the kernel in one call.
Asks == {<<>>, <<"rolled_back">>, <<"cancelling">>, <<"cancelling", "cancelled">>,
         <<"cancelled">>, <<"failed">>}

Waiting == {pending[i] : i \in DOMAIN pending}

\* A server that is down has nothing in memory; the Run a submission prepares exists.
Down ==
    /\ ~up => active = NoItem /\ pending = <<>> /\ preparing = 0 /\ call = NoCall /\ asked = {}
    /\ preparing # 0 =>
          /\ state[preparing] # Unknown /\ call = NoCall
          /\ phase \in {"idle", "routing", "child", "reattach"}

\* A Run and its children.
Followed == \A r \in Run : state[r] \in Reached /\ Len(started[r]) <= spawned[r]

\* An item that waits.
WaitsWell(item) ==
    /\ state[item.run] # Unknown
    /\ item.mode # "start" => item.attempt \in DOMAIN started[item.run]
    /\ item.mode = "redispatch" => ~Named(item.run)

\* The active item, as far as its phase says.
ActiveWell ==
    active # NoItem =>
        /\ state[active.run] # Unknown
        /\ phase = "routing" => active.mode = "start"
        /\ phase = "begin" =>
              /\ active.mode # "reattach"
              /\ active.mode = "redispatch" => ~Named(active.run)
        /\ phase = "spawned" =>
              /\ active.child = spawned[active.run] /\ active.child \in 1..MaxSpawns
              /\ Len(started[active.run]) < spawned[active.run]
              /\ active.attempt = Len(started[active.run]) + 1
        /\ phase \in {"child", "reattach"} => active.attempt \in DOMAIN started[active.run]

\* The transitions that are asked for.
CallWell ==
    call # NoCall =>
        /\ state[call.run] # Unknown
        /\ phase \in {"idle", "routing", "child", "reattach", "settle"}
        /\ call.asks \in Asks
        /\ call.asks # <<>> /\ state[call.run] = "prepared" => call.asks = <<"rolled_back">>
        /\ \/ call.run \in asked
           \/ phase = "settle"
           \/ call.asks = <<"rolled_back">>
        /\ phase = "settle" => call.run = active.run /\ ~call.withdraws
        /\ call.withdraws => call.run \in asked

\* No child is to be started for these.
Stopped(r) == r \in asked \/ state[r] = "cancelling"

StopsWell(r) ==
    /\ \A item \in Waiting :
          item.run = r => \/ item.mode = "reattach"
                          \/ item.mode = "redispatch" /\ item.cancel
    /\ active.run = r => phase # "begin" /\ (phase = "routing" => active.cancel)

Stops == \A r \in Run : Stopped(r) => StopsWell(r)

\* A Run whose cancellation was asked for is not left to be queued again.
AskedWell == \A r \in asked : state[r] # Unknown /\ (state[r] = "prepared" => r \in Held)

Inv ==
    /\ TypeOK
    /\ Down
    /\ Followed
    /\ QueuedOnce
    /\ \A item \in Waiting : WaitsWell(item)
    /\ ActiveWell
    /\ CallWell
    /\ Stops
    /\ AskedWell

-----------------------------------------------------------------------------
(* Values.                                                                    *)

LEMMA States ==
    /\ Reached \subseteq Lifecycle!States \cup {Lifecycle!Unknown}
    /\ Lifecycle!TerminalStates \subseteq Reached
    /\ Lifecycle!TerminalStates
          \cap {Unknown, "prepared", "running", "verifying", "cancelling"} = {}
    /\ "rolled_back" \in Lifecycle!TerminalStates
    /\ Unknown \notin {"prepared", "running", "verifying", "cancelling"}
BY DEF Reached, Unknown, Lifecycle!States, Lifecycle!Unknown, Lifecycle!LiveStates,
       Lifecycle!TerminalStates

LEMMA Moving ==
    ASSUME NEW to \in Moves
    PROVE  to \in Reached /\ to # Unknown /\ to # "cancelling" /\ to # "prepared"
BY CanaryAssumption DEF Moves, Reached, Unknown, Lifecycle!Unknown, Lifecycle!TerminalStates

LEMMA AskValues ==
    ASSUME NEW asks \in Asks, asks # <<>>
    PROVE  /\ Head(asks) \in Reached
           /\ Head(asks) # Unknown /\ Head(asks) # "prepared"
           /\ Tail(asks) \in {<<>>, <<"cancelled">>}
           /\ Tail(asks) = <<>> /\ asks # <<"cancelling">> =>
                 Head(asks) \in Lifecycle!TerminalStates
           /\ Head(asks) = "cancelling" => asks # <<"rolled_back">>
           /\ asks = <<"rolled_back">> => Head(asks) = "rolled_back"
<1> DEFINE wanted(q) ==
      /\ Head(q) \in Reached /\ Head(q) # Unknown /\ Head(q) # "prepared"
      /\ Tail(q) \in {<<>>, <<"cancelled">>}
      /\ Tail(q) = <<>> /\ q # <<"cancelling">> => Head(q) \in Lifecycle!TerminalStates
      /\ Head(q) = "cancelling" => q # <<"rolled_back">>
      /\ q = <<"rolled_back">> => Head(q) = "rolled_back"
<1>1. ASSUME NEW s \in {"rolled_back", "cancelled", "failed"} PROVE wanted(<<s>>)
  <2>1. Head(<<s>>) = s /\ Tail(<<s>>) = <<>>
    OBVIOUS
  <2>2. s \in Lifecycle!TerminalStates /\ s \in Reached /\ s # Unknown /\ s # "prepared"
    BY DEF Reached, Unknown, Lifecycle!Unknown, Lifecycle!TerminalStates
  <2>3. s = "rolled_back" \/ <<s>> # <<"rolled_back">>
    OBVIOUS
  <2> QED
    BY <2>1, <2>2, <2>3
<1>2. wanted(<<"cancelling">>)
  <2>1. Head(<<"cancelling">>) = "cancelling" /\ Tail(<<"cancelling">>) = <<>>
    OBVIOUS
  <2>2. <<"cancelling">> # <<"rolled_back">>
    OBVIOUS
  <2> QED
    BY <2>1, <2>2 DEF Reached, Unknown, Lifecycle!Unknown
<1>3. wanted(<<"cancelling", "cancelled">>)
  <2>1. /\ Head(<<"cancelling", "cancelled">>) = "cancelling"
        /\ Tail(<<"cancelling", "cancelled">>) = <<"cancelled">>
    OBVIOUS
  <2>2. <<"cancelling", "cancelled">> # <<"rolled_back">> /\ <<"cancelled">> # <<>>
    OBVIOUS
  <2> QED
    BY <2>1, <2>2 DEF Reached, Unknown, Lifecycle!Unknown
<1>4. \E s \in {"rolled_back", "cancelled", "failed"} : asks = <<s>>
      \/ asks \in {<<"cancelling">>, <<"cancelling", "cancelled">>}
  BY DEF Asks
<1> HIDE DEF wanted
<1>5. wanted(asks)
  BY <1>1, <1>2, <1>3, <1>4
<1> QED
  BY <1>5 DEF wanted

LEMMA AsksTyped == ASSUME NEW asks \in Asks PROVE asks \in Seq(Lifecycle!States)
<1>1. {"rolled_back", "cancelling", "cancelled", "failed"} \subseteq Lifecycle!States
  BY DEF Lifecycle!States, Lifecycle!LiveStates, Lifecycle!TerminalStates
<1>2. ASSUME NEW S, NEW s \in S, NEW t \in S
      PROVE  <<>> \in Seq(S) /\ <<s>> \in Seq(S) /\ <<s, t>> \in Seq(S)
  OBVIOUS
<1>3. /\ <<>> \in Seq(Lifecycle!States)
      /\ <<"rolled_back">> \in Seq(Lifecycle!States)
      /\ <<"cancelling">> \in Seq(Lifecycle!States)
      /\ <<"cancelled">> \in Seq(Lifecycle!States)
      /\ <<"failed">> \in Seq(Lifecycle!States)
      /\ <<"cancelling", "cancelled">> \in Seq(Lifecycle!States)
  <2>1. /\ "rolled_back" \in Lifecycle!States /\ "cancelling" \in Lifecycle!States
        /\ "cancelled" \in Lifecycle!States /\ "failed" \in Lifecycle!States
    BY <1>1
  <2> QED
    BY <1>2, <2>1
<1> QED
  BY <1>3 DEF Asks

\* What is asked for a Run that was read in state s.
LEMMA AsksOf ==
    ASSUME NEW s \in Reached, NEW cancel \in BOOLEAN
    PROVE  /\ Requested(s) \in Asks /\ Cancelled(s) \in Asks /\ AfterExit(s, cancel) \in Asks
           /\ s = "prepared" =>
                 /\ Requested(s) = <<>> /\ Cancelled(s) = <<"rolled_back">>
                 /\ AfterExit(s, cancel) = <<"rolled_back">>
BY DEF Reached, Unknown, Lifecycle!Unknown, Lifecycle!TerminalStates, Requested, Cancelled,
       AfterExit, Asks

\* The call that asks what is left.
LEMMA CalledIs ==
    ASSUME NEW r \in Run, NEW asks \in Asks, NEW withdraws \in BOOLEAN
    PROVE  LET c == Called(r, asks, withdraws)
           IN  /\ c \in Calls \cup {NoCall}
               /\ asks = <<>> /\ ~withdraws => c = NoCall
               /\ asks # <<>> \/ withdraws =>
                     c # NoCall /\ c.run = r /\ c.asks = asks /\ c.withdraws = withdraws
<1>1. r # 0 /\ asks \in Seq(Lifecycle!States)
  BY AsksTyped, CanaryAssumption
<1>2. CASE asks = <<>> /\ ~withdraws
  BY <1>2 DEF Called
<1>3. CASE asks # <<>> \/ withdraws
  BY <1>1, <1>3 DEF Called, Calls, NoCall
<1> QED
  BY <1>2, <1>3

LEMMA CallIs ==
    /\ NoCall.run = 0 /\ NoCall.asks = <<>> /\ ~NoCall.withdraws /\ NoCall \notin Calls
    /\ \A c \in Calls : c.run \in Run /\ c.withdraws \in BOOLEAN /\ c # NoCall
BY CanaryAssumption DEF NoCall, Calls

LEMMA Items ==
    /\ \A r \in Run : r # 0 /\ r \in Nat /\ Start(r) \in Item /\ Start(r).run = r
    /\ \A r \in Run : Start(r).mode = "start"
    /\ NoItem \notin Item /\ NoItem.run = 0
    /\ \A item \in Item : item.run \in Run /\ item # NoItem
<1>1. \A r \in Run : r # 0 /\ r \in Nat
  BY CanaryAssumption
<1>2. \A item \in Item : item.run \in Run
  BY DEF Item
<1>3. \A r \in Run : Start(r) \in Item /\ Start(r).run = r /\ Start(r).mode = "start"
  <2>1. 0 \in 0..MaxSpawns
    BY CanaryAssumption
  <2> QED
    BY <2>1 DEF Start, Item
<1>4. NoItem.run = 0
  BY DEF NoItem
<1>5. \A item \in Item : item # NoItem
  BY <1>1, <1>2, <1>4
<1> QED
  BY <1>1, <1>2, <1>3, <1>4, <1>5

LEMMA ItemCancel == ASSUME NEW item \in Item PROVE item.cancel \in BOOLEAN
BY DEF Item

\* A cancellation is noted in an item.
LEMMA Noted ==
    ASSUME NEW item \in Item
    PROVE  /\ [item EXCEPT !.cancel = TRUE] \in Item
           /\ [item EXCEPT !.cancel = TRUE].run = item.run
           /\ [item EXCEPT !.cancel = TRUE].mode = item.mode
           /\ [item EXCEPT !.cancel = TRUE].child = item.child
           /\ [item EXCEPT !.cancel = TRUE].attempt = item.attempt
           /\ [item EXCEPT !.cancel = TRUE].cancel = TRUE
<1>1. [item EXCEPT !.cancel = TRUE].cancel = TRUE
  BY DEF Item
<1>2. /\ [item EXCEPT !.cancel = TRUE].run = item.run
      /\ [item EXCEPT !.cancel = TRUE].mode = item.mode
      /\ [item EXCEPT !.cancel = TRUE].child = item.child
      /\ [item EXCEPT !.cancel = TRUE].attempt = item.attempt
  BY DEF Item
<1>3. [item EXCEPT !.cancel = TRUE] \in Item
  BY DEF Item
<1> QED
  BY <1>1, <1>2, <1>3

LEMMA LastIn == ASSUME NEW S, NEW q \in Seq(S), q # <<>> PROVE Last(q) \in S
<1>1. Len(q) \in 1..Len(q)
  OBVIOUS
<1> QED
  BY <1>1, ElementOfSeq DEF Last

-----------------------------------------------------------------------------
(* The queue as a sequence.                                                   *)

\* The items q holds are pairwise of different Runs, and none is of Run r.
Distinct(q, r) ==
    /\ \A i, j \in DOMAIN q : q[i].run = q[j].run => i = j
    /\ \A i \in DOMAIN q : q[i].run # r

LEMMA DistinctIsOnce == QueuedOnce <=> Distinct(pending, active.run)
BY DEF QueuedOnce, Distinct, Pending

LEMMA AppendKeeps ==
    ASSUME NEW q \in Seq(Item), NEW item \in Item, NEW r, Distinct(q, r),
           item.run # r, \A i \in DOMAIN q : q[i].run # item.run
    PROVE  /\ Append(q, item) \in Seq(Item)
           /\ Distinct(Append(q, item), r)
           /\ \A i \in DOMAIN Append(q, item) :
                 Append(q, item)[i] = item \/ \E j \in DOMAIN q : Append(q, item)[i] = q[j]
BY DEF Distinct

LEMMA TailKeeps ==
    ASSUME NEW q \in Seq(Item), q # <<>>, NEW r, Distinct(q, r)
    PROVE  /\ Head(q) \in Item /\ Head(q) = q[1] /\ 1 \in DOMAIN q
           /\ Tail(q) \in Seq(Item)
           /\ Distinct(Tail(q), r) /\ Distinct(Tail(q), Head(q).run)
           /\ \A i \in DOMAIN Tail(q) : i + 1 \in DOMAIN q /\ Tail(q)[i] = q[i + 1]
BY DEF Distinct

LEMMA RemoveKeeps ==
    ASSUME NEW q \in Seq(Item), NEW n \in DOMAIN q, NEW r, Distinct(q, r)
    PROVE  /\ RemoveAt(q, n) \in Seq(Item)
           /\ Distinct(RemoveAt(q, n), r)
           /\ \A i \in DOMAIN RemoveAt(q, n) :
                 \E j \in DOMAIN q : j # n /\ RemoveAt(q, n)[i] = q[j]
           /\ \A j \in DOMAIN q : j # n =>
                 \E i \in DOMAIN RemoveAt(q, n) : RemoveAt(q, n)[i] = q[j]
<1>1. n \in 1..Len(q)
  OBVIOUS
<1>2. /\ SubSeq(q, 1, n - 1) = [i \in 1..(n - 1) |-> q[i]]
      /\ SubSeq(q, n + 1, Len(q)) = [i \in 1..(Len(q) - n) |-> q[i + n]]
  BY <1>1
<1>3. /\ SubSeq(q, 1, n - 1) \in Seq(Item) /\ Len(SubSeq(q, 1, n - 1)) = n - 1
      /\ SubSeq(q, n + 1, Len(q)) \in Seq(Item) /\ Len(SubSeq(q, n + 1, Len(q))) = Len(q) - n
  BY <1>1, <1>2
<1>4. /\ RemoveAt(q, n) \in Seq(Item) /\ Len(RemoveAt(q, n)) = Len(q) - 1
      /\ \A i \in 1..(Len(q) - 1) : RemoveAt(q, n)[i] = IF i < n THEN q[i] ELSE q[i + 1]
  <2> DEFINE front == SubSeq(q, 1, n - 1)
             back  == SubSeq(q, n + 1, Len(q))
  <2>1. /\ front \in Seq(Item) /\ Len(front) = n - 1 /\ \A i \in 1..(n - 1) : front[i] = q[i]
        /\ back \in Seq(Item) /\ Len(back) = Len(q) - n
        /\ \A i \in 1..(Len(q) - n) : back[i] = q[i + n]
    BY <1>1, <1>2, <1>3
  <2>2. RemoveAt(q, n) = front \o back
    BY DEF RemoveAt
  <2> HIDE DEF front, back
  <2>3. front \o back \in Seq(Item) /\ Len(front \o back) = Len(q) - 1
    BY <1>1, <2>1
  <2>4. ASSUME NEW i \in 1..(n - 1) PROVE (front \o back)[i] = q[i]
    BY <1>1, <2>1
  <2>5. ASSUME NEW i \in n..(Len(q) - 1) PROVE (front \o back)[i] = q[i + 1]
    <3>1. (front \o back)[i] = back[i - Len(front)]
      BY <1>1, <2>1
    <3>2. i - (n - 1) \in 1..(Len(q) - n) /\ i - (n - 1) + n = i + 1
      BY <1>1
    <3>3. back[i - (n - 1)] = q[i - (n - 1) + n]
      BY <2>1, <3>2
    <3> QED
      BY <2>1, <3>1, <3>2, <3>3
  <2>6. \A i \in 1..(Len(q) - 1) : (front \o back)[i] = IF i < n THEN q[i] ELSE q[i + 1]
    <3> SUFFICES ASSUME NEW i \in 1..(Len(q) - 1)
                 PROVE  (front \o back)[i] = IF i < n THEN q[i] ELSE q[i + 1]
      OBVIOUS
    <3>1. CASE i < n
      <4>1. i \in 1..(n - 1)
        BY <1>1, <3>1
      <4> QED
        BY <2>4, <3>1, <4>1
    <3>2. CASE ~(i < n)
      <4>1. i \in n..(Len(q) - 1)
        BY <1>1, <3>2
      <4> QED
        BY <2>5, <3>2, <4>1
    <3> QED
      BY <3>1, <3>2
  <2> QED
    BY <2>2, <2>3, <2>6
<1>5. \A i \in DOMAIN RemoveAt(q, n) :
        LET j == IF i < n THEN i ELSE i + 1
        IN  j \in DOMAIN q /\ j # n /\ RemoveAt(q, n)[i] = q[j]
  BY <1>1, <1>4
<1>6. Distinct(RemoveAt(q, n), r)
  <2>1. ASSUME NEW i \in DOMAIN RemoveAt(q, n), NEW k \in DOMAIN RemoveAt(q, n),
               RemoveAt(q, n)[i].run = RemoveAt(q, n)[k].run
        PROVE  i = k
    BY <1>1, <1>4, <1>5, <2>1 DEF Distinct
  <2> QED
    BY <1>5, <2>1 DEF Distinct
<1>7. ASSUME NEW j \in DOMAIN q, j # n
      PROVE  \E i \in DOMAIN RemoveAt(q, n) : RemoveAt(q, n)[i] = q[j]
  <2> DEFINE i == IF j < n THEN j ELSE j - 1
  <2>1. i \in 1..(Len(q) - 1) /\ q[j] = IF i < n THEN q[i] ELSE q[i + 1]
    BY <1>1, <1>7
  <2>2. i \in DOMAIN RemoveAt(q, n)
    BY <1>4, <2>1
  <2> QED
    BY <1>4, <2>1, <2>2
<1> QED
  BY <1>4, <1>5, <1>6, <1>7

-----------------------------------------------------------------------------
(* What steps have in common.                                                 *)

\* The Runs that are held.
LEMMA HeldIs ==
    \A r \in Run :
        /\ r \in Held <=>
              (\E item \in Waiting : item.run = r) \/ active.run = r \/ call.run = r
        /\ r \in Held' <=>
              (\E item \in Waiting' : item.run = r) \/ active'.run = r \/ call'.run = r
BY Items DEF Held, Queued, Pending, Waiting

\* The active item is not among those that wait.
LEMMA ActiveApart ==
    ASSUME Inv, active # NoItem
    PROVE  /\ active \in Item /\ active.run \in Run /\ active.cancel \in BOOLEAN
           /\ state[active.run] \in Reached \ {Unknown}
           /\ \A item \in Waiting : item.run # active.run
<1>1. active \in Item
  BY DEF Inv, TypeOK
<1>2. active.run \in Run
  BY <1>1, Items
<1>3. active.run \notin Pending
  BY DEF Inv, QueuedOnce
<1> QED
  BY <1>1, <1>2, <1>3, ItemCancel DEF Inv, TypeOK, Pending, Waiting, ActiveWell, Followed

\* Items that waited before stay well where no child is started.
LEMMA WaitsFrame ==
    ASSUME Inv, Waiting' \subseteq Waiting, started' = started,
           \A r \in Run : state[r] # Unknown => state'[r] # Unknown,
           \A r \in Run, k \in 1..MaxSpawns : <<r, k>> \in live' => <<r, k>> \in live
    PROVE  \A item \in Waiting' : WaitsWell(item)'
<1> SUFFICES ASSUME NEW item \in Waiting' PROVE WaitsWell(item)'
  OBVIOUS
<1>1. item \in Item /\ item.run \in Run /\ WaitsWell(item)
  <2>1. pending \in Seq(Item) /\ item \in Waiting
    BY DEF Inv, TypeOK
  <2>2. item \in Item
    BY <2>1, ElementOfSeq DEF Waiting
  <2> QED
    BY <2>1, <2>2, Items DEF Inv
<1>2. Named(item.run)' => Named(item.run)
  <2>1. started[item.run] # <<>> => Last(started[item.run]) \in 1..MaxSpawns
    <3>1. started[item.run] \in Seq(1..MaxSpawns)
      BY <1>1 DEF Inv, TypeOK
    <3> QED
      BY <3>1, LastIn
  <2> QED
    BY <1>1, <2>1 DEF Named
<1> QED
  BY <1>1, <1>2 DEF WaitsWell

\* What is stopped stays so where no item is added and none goes on.
LEMMA StopsFrame ==
    ASSUME Inv, Waiting' \subseteq Waiting,
           \A r \in Run : Stopped(r)' => Stopped(r),
           \/ active' = NoItem
           \/ active' = active /\ (phase' = phase \/ phase' \notin {"routing", "begin"})
    PROVE  Stops'
BY Items DEF Inv, Stops, StopsWell

LEMMA InvInit == Init => Inv
<1> SUFFICES ASSUME Init PROVE Inv
  OBVIOUS
<1>1. TypeOK
  BY CanaryAssumption DEF Init, TypeOK
<1>2. Followed
  BY DEF Init, Followed, Reached, Unknown
<1>3. Stops
  BY DEF Init, Stops, Stopped, Lifecycle!Unknown
<1> QED
  BY <1>1, <1>2, <1>3, Items
     DEF Init, Inv, Down, QueuedOnce, ActiveWell, CallWell, AskedWell, Pending, Waiting

-----------------------------------------------------------------------------
(* One lemma per action.                                                      *)

LEMMA CreateKeeps ==
    ASSUME Inv, NEW r \in Run, Create(r) PROVE Inv'
<1> USE DEF Inv
<1>1. /\ up /\ preparing = 0 /\ call = NoCall /\ preparing' = r
      /\ phase \in {"idle", "routing", "child", "reattach"}
      /\ state[r] = Unknown /\ state' = [state EXCEPT ![r] = "prepared"]
      /\ UNCHANGED <<up, linked, started, exited, pending, active, phase, call, spawned, live,
                     deaths, strays, asked>>
  BY DEF Create, Turn, childVars, history, Unknown
<1>2. state'[r] = "prepared" /\ \A o \in Run \ {r} : state'[o] = state[o]
  BY <1>1 DEF TypeOK
<1>3. TypeOK'
  BY <1>1, States DEF TypeOK, Create, Reached
<1>4. Followed'
  BY <1>1, <1>2 DEF Followed, Reached
<1>5. \A item \in Waiting' : WaitsWell(item)'
  BY <1>1, <1>2, States, WaitsFrame DEF Waiting
<1>6. QueuedOnce' /\ Down' /\ CallWell'
  BY <1>1, <1>2, States, Items DEF QueuedOnce, Pending, Down, CallWell
<1>7. ActiveWell'
  BY <1>1, <1>2, States, ActiveApart DEF ActiveWell, Named
<1>8. Stops'
  BY <1>1, <1>2, StopsFrame DEF Waiting, Stopped
<1>9. AskedWell'
  BY <1>1, <1>2, HeldIs, States DEF AskedWell, TypeOK, Waiting
<1> QED
  BY <1>3, <1>4, <1>5, <1>6, <1>7, <1>8, <1>9

LEMMA LinkKeeps ==
    ASSUME Inv, up, NEW r \in Run, NEW available \in BOOLEAN, LinkAndQueue(r, available),
           state[r] # Unknown, call = NoCall,
           phase \in {"idle", "routing", "child", "reattach"}
    PROVE  Inv'
<1> USE DEF Inv
<1>1. UNCHANGED <<up, state, routed, started, exited, active, phase, spawned, live, deaths, asked>>
  BY DEF LinkAndQueue, childVars
<1>2. pending' # pending =>
          /\ pending' = Append(pending, Start(r)) /\ call' = call
          /\ state[r] = "prepared"
          /\ r # active.run /\ \A i \in DOMAIN pending : pending[i].run # r
          /\ r \notin Held
  BY Items, CallIs DEF LinkAndQueue, Waits, Queued, Pending, Held
<1>3. \/ call' = NoCall
      \/ /\ call' = Called(r, <<"rolled_back">>, FALSE) /\ call' \in Calls \cup {NoCall}
         /\ call'.run = r /\ call'.asks = <<"rolled_back">> /\ ~call'.withdraws
  <2>1. <<"rolled_back">> \in Asks /\ <<"rolled_back">> # <<>>
    BY DEF Asks
  <2> QED
    BY <2>1, CalledIs DEF LinkAndQueue
<1>4. /\ \A item \in Waiting' : (item = Start(r) /\ pending' # pending) \/ item \in Waiting
      /\ \A item \in Waiting : item \in Waiting'
      /\ QueuedOnce' /\ pending' \in Seq(Item)
  <2>1. CASE pending' = pending
    BY <1>1, <2>1 DEF QueuedOnce, Pending, Waiting, TypeOK
  <2>2. CASE pending' # pending
    <3>1. /\ pending \in Seq(Item) /\ Distinct(pending, active.run)
          /\ Start(r) \in Item /\ Start(r).run = r
      BY Items, DistinctIsOnce DEF TypeOK
    <3>2. /\ Start(r).run # active.run
          /\ \A i \in DOMAIN pending : pending[i].run # Start(r).run
      BY <1>2, <2>2, <3>1
    <3>3. /\ pending' \in Seq(Item) /\ Distinct(pending', active.run)
          /\ \A i \in DOMAIN pending' :
                pending'[i] = Start(r) \/ \E j \in DOMAIN pending : pending'[i] = pending[j]
      <4> DEFINE q == Append(pending, Start(r))
      <4>1. /\ q \in Seq(Item) /\ Distinct(q, active.run)
            /\ \A i \in DOMAIN q : q[i] = Start(r) \/ \E j \in DOMAIN pending : q[i] = pending[j]
        BY <3>1, <3>2, AppendKeeps
      <4>2. pending' = q
        BY <1>2, <2>2
      <4> HIDE DEF q
      <4> QED
        BY <4>1, <4>2
    <3>4. \A i \in DOMAIN pending : i \in DOMAIN pending' /\ pending'[i] = pending[i]
      BY <1>2, <2>2, <3>1
    <3>5. QueuedOnce'
      BY <1>1, <3>3 DEF QueuedOnce, Distinct, Pending
    <3> QED
      BY <2>2, <3>3, <3>4, <3>5 DEF Waiting
  <2> QED
    BY <2>1, <2>2
<1>5. TypeOK'
  BY <1>1, <1>3, <1>4 DEF TypeOK, LinkAndQueue
<1>6. Followed' /\ ActiveWell'
  BY <1>1 DEF Followed, ActiveWell, Named
<1>7. ASSUME NEW item \in Waiting' PROVE WaitsWell(item)'
  <2>1. CASE item \in Waiting
    BY <1>1, <2>1 DEF WaitsWell, Named
  <2>2. CASE item = Start(r)
    <3>1. item.run = r /\ item.mode = "start"
      <4>1. Start(r).run = r /\ Start(r).mode = "start"
        BY Items
      <4> QED
        BY <2>2, <4>1
    <3>2. state'[r] # Unknown
      BY <1>1
    <3> QED
      BY <3>1, <3>2 DEF WaitsWell
  <2> QED
    BY <1>4, <2>1, <2>2
<1>8. CallWell' /\ Down'
  <2>1. <<"rolled_back">> \in Asks
    BY DEF Asks
  <2>2. CallWell'
    BY <1>1, <1>3, <2>1 DEF CallWell
  <2>3. preparing' = 0
    BY DEF LinkAndQueue
  <2> QED
    BY <1>1, <2>2, <2>3 DEF Down
<1>9. Stops'
  <2>1. pending' # pending => ~Stopped(r)
    BY <1>2 DEF AskedWell, Stopped
  <2>2. ASSUME NEW o \in Run, Stopped(o), NEW item \in Waiting', item.run = o
        PROVE  item \in Waiting
    BY <1>4, <2>1, <2>2, Items
  <2> QED
    BY <1>1, <2>2 DEF Stops, StopsWell, Stopped
<1>10. AskedWell'
  <2>1. \A o \in Run : o \in Held => o \in Held'
    BY <1>1, <1>4, HeldIs, CallIs, Items
  <2> QED
    BY <1>1, <2>1 DEF AskedWell, TypeOK
<1> QED
  BY <1>4, <1>5, <1>6, <1>7, <1>8, <1>9, <1>10

LEMMA DrainKeeps ==
    ASSUME Inv, Drain PROVE Inv'
<1> USE DEF Inv
<1> DEFINE item == Head(pending)
<1>1. /\ pending # <<>> /\ pending' = Tail(pending) /\ pending \in Seq(Item)
      /\ UNCHANGED <<up, state, routed, linked, started, exited, preparing, call, spawned, live,
                     deaths, strays, asked>>
      /\ active = NoItem /\ phase = "idle" /\ up /\ call = NoCall /\ preparing = 0
  BY DEF Drain, Turn, TypeOK, kernelVars, childVars, history
<1>2. /\ item \in Item /\ item \in Waiting /\ WaitsWell(item) /\ Tail(pending) \in Seq(Item)
      /\ Distinct(Tail(pending), NoItem.run) /\ Distinct(Tail(pending), item.run)
      /\ \A i \in DOMAIN Tail(pending) :
            i + 1 \in DOMAIN pending /\ Tail(pending)[i] = pending[i + 1]
  BY <1>1, TailKeeps, DistinctIsOnce DEF Waiting
<1>3. \/ /\ active' = NoItem /\ phase' = "idle"
         /\ (item.mode = "start" /\ state[item.run] # "prepared") \/ Terminal(item.run)
      \/ /\ active' = item
         /\ \/ item.mode = "reattach" /\ phase' = "reattach"
            \/ item.mode = "start" /\ phase' = "routing"
            \/ item.mode = "redispatch" /\ item.cancel /\ phase' = "settle"
            \/ /\ item.mode # "reattach" /\ phase' = "begin"
               /\ ~(item.mode = "redispatch" /\ item.cancel)
  BY <1>1 DEF Drain, Withdrawn
<1>4. \A w \in Waiting : w = item \/ w \in Waiting'
  <2>1. ASSUME NEW i \in DOMAIN pending, i # 1
        PROVE  i - 1 \in DOMAIN Tail(pending) /\ Tail(pending)[i - 1] = pending[i]
    BY <1>1, <2>1
  <2>2. item = pending[1]
    BY <1>1
  <2> QED
    BY <1>1, <2>1, <2>2 DEF Waiting
<1> HIDE DEF item
<1>5. Waiting' \subseteq Waiting /\ \A w \in Waiting' : w.run # item.run
  BY <1>1, <1>2 DEF Waiting, Distinct
<1>6. TypeOK'
  BY <1>1, <1>2, <1>3, Items DEF TypeOK
<1>7. Followed' /\ CallWell' /\ Down'
  BY <1>1 DEF Followed, CallWell, Down
<1>8. \A w \in Waiting' : WaitsWell(w)'
  BY <1>1, <1>5, WaitsFrame
<1>9. QueuedOnce'
  BY <1>1, <1>2, <1>3 DEF QueuedOnce, Distinct, Pending
<1>10. ActiveWell'
  BY <1>1, <1>2, <1>3, Items DEF ActiveWell, WaitsWell, Named, Item
<1>11. Stops'
  <2>1. Stopped(item.run) =>
           item.mode = "reattach" \/ (item.mode = "redispatch" /\ item.cancel)
    <3>1. item.run \in Run
      BY <1>2, Items
    <3>2. Stopped(item.run) => StopsWell(item.run)
      BY <3>1 DEF Stops
    <3> QED
      BY <1>2, <3>2 DEF StopsWell
  <2>2. \A r \in Run : Stopped(r)' = Stopped(r)
    BY <1>1 DEF Stopped
  <2>3. Stopped(item.run) /\ active'.run = item.run =>
           phase' # "begin" /\ phase' # "routing"
    BY <1>2, <1>3, <2>1, Items
  <2>4. active'.run \in Run => active'.run = item.run
    BY <1>3, Items
  <2> QED
    BY <1>5, <2>2, <2>3, <2>4 DEF Stops, StopsWell
<1>12. AskedWell'
  <2>1. \A r \in Run : r \in Held /\ r # item.run => r \in Held'
    BY <1>1, <1>4, HeldIs, CallIs, Items
  <2>2. active' = item \/ state[item.run] # "prepared"
    BY <1>2, <1>3, States DEF Terminal
  <2>3. active' = item => item.run \in Held'
    BY <1>2, HeldIs, Items
  <2> QED
    BY <1>1, <2>1, <2>2, <2>3 DEF AskedWell, TypeOK
<1> QED
  BY <1>6, <1>7, <1>8, <1>9, <1>10, <1>11, <1>12

LEMMA ResolveKeeps ==
    ASSUME Inv, NEW refused \in BOOLEAN, Resolve(refused) PROVE Inv'
<1> USE DEF Inv
<1>1. /\ up /\ preparing = 0 /\ call = NoCall /\ phase = "routing" /\ ~active.cancel
      /\ UNCHANGED <<up, state, linked, started, exited, preparing, pending, active, spawned,
                     live, deaths, strays, asked>>
  BY DEF Resolve, Turn, childVars, history
<1>2. /\ active # NoItem /\ active \in Item /\ active.run \in Run /\ active.mode = "start"
      /\ state[active.run] # Unknown
  BY <1>1, ActiveApart DEF TypeOK, ActiveWell
<1>3. \/ phase' = "begin" /\ call' = NoCall
      \/ /\ phase' = "settle" /\ call' \in Calls \cup {NoCall}
         /\ call'.run = active.run /\ call'.asks = <<"rolled_back">> /\ ~call'.withdraws
  <2>1. <<"rolled_back">> \in Asks /\ <<"rolled_back">> # <<>>
    BY DEF Asks
  <2> DEFINE c == Called(active.run, <<"rolled_back">>, FALSE)
  <2>2. /\ c \in Calls \cup {NoCall}
        /\ c.run = active.run /\ c.asks = <<"rolled_back">> /\ ~c.withdraws
    BY <1>2, <2>1, CalledIs
  <2>3. \/ phase' = "begin" /\ call' = call
        \/ phase' = "settle" /\ call' = c
    BY DEF Resolve
  <2> HIDE DEF c
  <2> QED
    BY <1>1, <2>2, <2>3
<1>4. TypeOK'
  BY <1>1, <1>2, <1>3 DEF TypeOK, Resolve
<1>5. Followed' /\ QueuedOnce' /\ Down' /\ ActiveWell'
  BY <1>1, <1>2, <1>3 DEF Followed, QueuedOnce, Pending, Down, ActiveWell, Named
<1>6. CallWell'
  BY <1>1, <1>2, <1>3 DEF CallWell, Asks
<1>7. \A item \in Waiting' : WaitsWell(item)'
  BY <1>1, WaitsFrame DEF Waiting
<1>8. Stops'
  BY <1>1, <1>2, <1>3 DEF Stops, StopsWell, Stopped, Waiting
<1>9. AskedWell'
  BY <1>1, HeldIs, CallIs, Items DEF AskedWell, TypeOK, Waiting
<1> QED
  BY <1>4, <1>5, <1>6, <1>7, <1>8, <1>9

LEMMA RoutingCancelledKeeps == ASSUME Inv, RoutingCancelled PROVE Inv'
<1> USE DEF Inv
<1>1. /\ phase = "routing" /\ phase' = "settle" /\ call = NoCall
      /\ UNCHANGED <<up, state, routed, linked, started, exited, preparing, pending, active,
                     call, spawned, live, deaths, strays, asked>>
  BY DEF RoutingCancelled, Turn, kernelVars, childVars, history
<1>2. TypeOK' /\ Followed' /\ QueuedOnce' /\ Down' /\ ActiveWell' /\ CallWell'
  <2>1. TypeOK'
    BY <1>1 DEF TypeOK
  <2> QED
    BY <1>1, <2>1 DEF Followed, QueuedOnce, Pending, Down, ActiveWell, CallWell,
                      RoutingCancelled, Turn
<1>3. \A item \in Waiting' : WaitsWell(item)'
  BY <1>1, WaitsFrame DEF Waiting
<1>4. Stops'
  BY <1>1, StopsFrame DEF Waiting, Stopped
<1>5. AskedWell'
  BY <1>1, HeldIs DEF AskedWell, TypeOK, Waiting
<1> QED
  BY <1>2, <1>3, <1>4, <1>5

\* The children and the journal of the active item's Run do not concern those that wait.
LEMMA WaitsApart ==
    ASSUME Inv, UNCHANGED <<state, pending>>, active # NoItem,
           \A o \in Run \ {active.run} :
              started'[o] = started[o] /\ \A k : <<o, k>> \in live' => <<o, k>> \in live
    PROVE  \A item \in Waiting' : WaitsWell(item)'
<1> SUFFICES ASSUME NEW item \in Waiting PROVE WaitsWell(item)'
  BY DEF Waiting
<1>1. item \in Item /\ item.run \in Run \ {active.run} /\ WaitsWell(item)
  BY ActiveApart, Items DEF Inv, TypeOK, Waiting
<1> QED
  BY <1>1 DEF WaitsWell, Named

LEMMA SpawnKeeps == ASSUME Inv, Spawn PROVE Inv'
<1> USE DEF Inv
<1> DEFINE r == active.run
           k == spawned[r] + 1
<1>1. active # NoItem /\ active \in Item /\ r \in Run /\ call = NoCall /\ phase = "begin"
  BY ActiveApart DEF Spawn, TypeOK, CallWell
<1>2. /\ k \in 1..MaxSpawns /\ spawned[r] \in Nat /\ Len(started[r]) \in Nat
      /\ Len(started[r]) <= spawned[r] /\ started[r] \in Seq(1..MaxSpawns)
      /\ spawned \in [Run -> 0..MaxSpawns]
  BY <1>1, CanaryAssumption DEF Spawn, TypeOK, Followed
<1>3. /\ spawned' = [spawned EXCEPT ![r] = k] /\ live' = live \cup {<<r, k>>}
      /\ active' = [active EXCEPT !.child = k, !.attempt = Len(started[r]) + 1]
      /\ phase' = "spawned" /\ up
      /\ UNCHANGED <<up, state, routed, linked, started, exited, preparing, pending, call, deaths,
                     strays, asked>>
  BY DEF Spawn, kernelVars, history
<1> HIDE DEF k
<1>4. active' \in Item /\ active'.run = r /\ active' # NoItem
      /\ active'.child = k /\ active'.attempt = Len(started[r]) + 1
  <2> DEFINE a == Len(started[r]) + 1
  <2>1. a \in 0..MaxSpawns
    BY <1>2, CanaryAssumption DEF k
  <2>2. k \in 0..MaxSpawns
    BY <1>2
  <2>3. active' = [active EXCEPT !.child = k, !.attempt = a]
    BY <1>3
  <2> HIDE DEF a
  <2>4. /\ active' \in Item /\ active'.run = active.run /\ active'.child = k
        /\ active'.attempt = a
    <3>1. active \in Item
      BY <1>1
    <3>2. active'.child = k /\ active'.attempt = a
      BY <2>3, <3>1 DEF Item
    <3>3. active'.run = active.run
      BY <2>3, <3>1 DEF Item
    <3>4. active' \in Item
      BY <2>1, <2>2, <2>3, <3>1 DEF Item
    <3> QED
      BY <3>2, <3>3, <3>4
  <2> QED
    BY <2>4, Items DEF a
<1>5. Stops'
  BY <1>1, <1>3, <1>4 DEF Stops, StopsWell, Stopped, Waiting
<1>6. AskedWell'
  BY <1>1, <1>3, <1>4, HeldIs DEF AskedWell, TypeOK, Waiting
<1>7. \A item \in Waiting' : WaitsWell(item)'
  BY <1>1, <1>3, WaitsApart
<1> HIDE DEF r
<1>8. TypeOK'
  BY <1>1, <1>2, <1>3, <1>4 DEF TypeOK
<1>9. Followed'
  BY <1>1, <1>2, <1>3 DEF Followed, k
<1>10. QueuedOnce' /\ Down' /\ CallWell'
  BY <1>1, <1>3, <1>4 DEF QueuedOnce, Pending, Down, CallWell, r
<1>11. ActiveWell'
  BY <1>1, <1>2, <1>3, <1>4 DEF ActiveWell, k, r
<1> QED
  BY <1>5, <1>6, <1>7, <1>8, <1>9, <1>10, <1>11

LEMMA JournalStartKeeps == ASSUME Inv, JournalStart PROVE Inv'
<1> USE DEF Inv
<1> DEFINE r == active.run
<1>1. /\ active # NoItem /\ active \in Item /\ r \in Run /\ call = NoCall
      /\ phase = "spawned" /\ phase' = "child" /\ up
  BY ActiveApart DEF JournalStart, TypeOK, CallWell
<1>2. /\ started[r] \in Seq(1..MaxSpawns) /\ active.child \in 1..MaxSpawns
      /\ Len(started[r]) < spawned[r] /\ active.attempt = Len(started[r]) + 1
      /\ state[r] # Unknown
  BY <1>1 DEF TypeOK, ActiveWell
<1>3. /\ started' = [started EXCEPT ![r] = Append(started[r], active.child)]
      /\ UNCHANGED <<up, state, routed, linked, exited, preparing, pending, active, call,
                     spawned, live, deaths, strays, asked>>
  BY DEF JournalStart, childVars, history
<1>4. /\ started'[r] = Append(started[r], active.child)
      /\ started'[r] \in Seq(1..MaxSpawns) /\ Len(started'[r]) = Len(started[r]) + 1
      /\ DOMAIN started'[r] = 1..(Len(started[r]) + 1) /\ DOMAIN started[r] = 1..Len(started[r])
  <2>1. started'[r] = Append(started[r], active.child)
    BY <1>1, <1>3 DEF TypeOK
  <2>2. /\ Append(started[r], active.child) \in Seq(1..MaxSpawns)
        /\ Len(Append(started[r], active.child)) = Len(started[r]) + 1
        /\ DOMAIN Append(started[r], active.child) = 1..(Len(started[r]) + 1)
        /\ DOMAIN started[r] = 1..Len(started[r])
    BY <1>2
  <2> QED
    BY <2>1, <2>2
<1>5. Stops'
  BY <1>1, <1>3, StopsFrame DEF Waiting, Stopped
<1>6. AskedWell'
  <2>1. Held' = Held /\ asked' = asked /\ state' = state
    BY <1>3 DEF Held, Queued, Pending
  <2> QED
    BY <2>1 DEF AskedWell
<1>7. \A item \in Waiting' : WaitsWell(item)'
  BY <1>1, <1>3, WaitsApart DEF TypeOK
<1> HIDE DEF r
<1>8. TypeOK'
  BY <1>1, <1>2, <1>3, <1>4 DEF TypeOK
<1>9. Followed'
  BY <1>1, <1>2, <1>3, <1>4 DEF Followed, TypeOK
<1>10. QueuedOnce' /\ Down' /\ CallWell'
  BY <1>1, <1>3 DEF QueuedOnce, Pending, Down, CallWell
<1>11. ActiveWell'
  BY <1>1, <1>2, <1>3, <1>4 DEF ActiveWell, r
<1> QED
  BY <1>5, <1>6, <1>7, <1>8, <1>9, <1>10, <1>11

LEMMA ExitSeenKeeps == ASSUME Inv, ExitSeen PROVE Inv'
<1> USE DEF Inv
<1>1. /\ active # NoItem /\ active \in Item /\ active.run \in Run
      /\ state[active.run] # Unknown /\ active.attempt \in DOMAIN started[active.run]
  BY ActiveApart DEF ExitSeen, TypeOK, ActiveWell
<1>2. DOMAIN started[active.run] \subseteq 1..MaxSpawns
  <2>1. /\ started[active.run] \in Seq(1..MaxSpawns) /\ spawned[active.run] \in 0..MaxSpawns
        /\ Len(started[active.run]) <= spawned[active.run]
    BY <1>1 DEF TypeOK, Followed
  <2> QED
    BY <2>1, CanaryAssumption
<1>3. /\ up /\ preparing = 0 /\ call = NoCall /\ phase' = "settle"
      /\ exited' = [exited EXCEPT ![active.run] = @ \cup {active.attempt}]
      /\ UNCHANGED <<up, state, routed, linked, started, preparing, pending, active, call,
                     spawned, live, deaths, strays, asked>>
  BY DEF ExitSeen, Turn, childVars, history
<1>4. TypeOK'
  BY <1>1, <1>2, <1>3 DEF TypeOK
<1>5. Followed' /\ QueuedOnce' /\ Down' /\ ActiveWell' /\ CallWell'
  BY <1>1, <1>3 DEF Followed, QueuedOnce, Pending, Down, ActiveWell, CallWell
<1>6. \A item \in Waiting' : WaitsWell(item)'
  BY <1>3, WaitsFrame DEF Waiting
<1>7. Stops'
  BY <1>3, StopsFrame DEF Waiting, Stopped
<1>8. AskedWell'
  BY <1>3, HeldIs DEF AskedWell, TypeOK, Waiting
<1> QED
  BY <1>4, <1>5, <1>6, <1>7, <1>8

\* A step of a call: what is left of it, what it does to the state, and whether the item leaves.
LEMMA CallGoesOn ==
    ASSUME Inv, up, preparing = 0, LeaveIfOver, Waiting' \subseteq Waiting, pending' \in Seq(Item),
           QueuedOnce',
           phase \in {"idle", "routing", "child", "reattach", "settle"},
           call' \in Calls \cup {NoCall}, CallWell',
           state' \in [Run -> Reached],
           \A r \in Run : state[r] # Unknown => state'[r] # Unknown,
           Stops',
           UNCHANGED <<up, routed, linked, started, exited, preparing, spawned, live, deaths,
                       strays, asked>>,
           \A r \in asked : state'[r] = "prepared" => r \in Held'
    PROVE  Inv'
<1> USE DEF Inv
<1>1. \/ active' = active /\ phase' = phase
      \/ active' = NoItem /\ phase' = "idle"
  BY DEF LeaveIfOver, Leave
<1>2. TypeOK'
  BY <1>1, States DEF TypeOK
<1>3. Followed' /\ Down' /\ ActiveWell'
  BY <1>1, Items, ActiveApart DEF Followed, Down, ActiveWell, Named
<1>4. \A item \in Waiting' : WaitsWell(item)'
  BY WaitsFrame
<1>5. AskedWell'
  BY DEF AskedWell, TypeOK
<1> QED
  BY <1>2, <1>3, <1>4, <1>5

\* An item that leaves, or does not, is queued once all the same.
LEMMA OnceStill ==
    ASSUME QueuedOnce, pending' = pending, active' \in {active, NoItem}, TypeOK
    PROVE  QueuedOnce'
BY Items DEF QueuedOnce, Pending, TypeOK

LEMMA SettleKeeps == ASSUME Inv, Settle PROVE Inv'
<1> USE DEF Inv
<1> DEFINE r == active.run
           asks == AfterExit(state[r], active.cancel)
<1>1. /\ up /\ phase = "settle" /\ call = NoCall /\ preparing = 0
      /\ active # NoItem /\ active \in Item /\ r \in Run /\ state[r] # Unknown
      /\ state[r] \in Reached /\ active.cancel \in BOOLEAN
  <2>1. phase = "settle" /\ active # NoItem
    BY DEF Settle, TypeOK
  <2>2. preparing = 0
    BY <2>1 DEF Down
  <2> QED
    BY <2>1, <2>2, ActiveApart DEF Settle, TypeOK
<1>2. /\ UNCHANGED <<up, state, routed, linked, started, exited, preparing, pending, spawned,
                     live, deaths, strays, asked>>
      /\ LeaveIfOver /\ call' = Called(r, asks, FALSE)
  BY DEF Settle, kernelVars, childVars, history
<1>3. asks \in Asks /\ (state[r] = "prepared" => asks = <<"rolled_back">>)
  BY <1>1, AsksOf
<1>4. /\ call' \in Calls \cup {NoCall}
      /\ asks = <<>> => call' = NoCall
      /\ asks # <<>> => /\ call' # NoCall /\ call'.run = r /\ call'.asks = asks
                        /\ ~call'.withdraws
  <2> DEFINE c == Called(r, asks, FALSE)
  <2> HIDE DEF asks
  <2>1. /\ c \in Calls \cup {NoCall}
        /\ asks = <<>> => c = NoCall
        /\ asks # <<>> => c # NoCall /\ c.run = r /\ c.asks = asks /\ ~c.withdraws
    BY <1>1, <1>3, CalledIs
  <2>2. call' = c
    BY <1>2
  <2> HIDE DEF c
  <2> QED
    BY <2>1, <2>2
<1> HIDE DEF asks
<1>5. \/ call' # NoCall /\ active' = active /\ phase' = phase
      \/ call' = NoCall /\ active' = NoItem /\ phase' = "idle"
  BY <1>1, <1>2 DEF LeaveIfOver, Leave
<1>6. CallWell'
  BY <1>1, <1>2, <1>3, <1>4, <1>5 DEF CallWell
<1>7. QueuedOnce'
  BY <1>2, <1>5, OnceStill
<1>8. \A o \in asked : state'[o] = "prepared" => o \in Held'
  <2>1. ASSUME NEW o \in asked, state[o] = "prepared" PROVE o \in Held'
    <3>1. o \in Run /\ o \in Held
      BY <2>1 DEF AskedWell, TypeOK
    <3>2. CASE o = r
      <4>1. asks # <<>>
        <5>1. <<"rolled_back">> # <<>>
          OBVIOUS
        <5> HIDE DEF r
        <5> QED
          BY <1>3, <2>1, <3>2, <5>1
      <4>2. active'.run = o
        BY <1>4, <1>5, <3>2, <4>1
      <4> QED
        BY <3>1, <4>2, HeldIs
    <3>3. CASE o # r
      <4>1. o # 0 /\ call.run = 0
        BY <1>1, <3>1, CallIs, Items
      <4>2. \E item \in Waiting : item.run = o
        BY <3>1, <3>3, <4>1, HeldIs
      <4>3. Waiting' = Waiting
        BY <1>2 DEF Waiting
      <4> QED
        BY <3>1, <4>2, <4>3, HeldIs
    <3> QED
      BY <3>2, <3>3
  <2> QED
    BY <1>2, <2>1
<1>9. state' \in [Run -> Reached]
  BY <1>2 DEF TypeOK, Followed
<1>10. Stops'
  BY <1>2, <1>5, StopsFrame DEF Waiting, Stopped
<1> QED
  BY <1>1, <1>2, <1>4, <1>6, <1>7, <1>8, <1>9, <1>10, CallGoesOn DEF Waiting, TypeOK

LEMMA TransitionKeeps == ASSUME Inv, Transition PROVE Inv'
<1> USE DEF Inv
<1> DEFINE r == call.run
           to == Head(call.asks)
           rest == Tail(call.asks)
<1>1. /\ up /\ call.asks # <<>> /\ call # NoCall /\ call \in Calls /\ r \in Run
      /\ call.withdraws \in BOOLEAN /\ call.asks \in Asks /\ preparing = 0
      /\ phase \in {"idle", "routing", "child", "reattach", "settle"}
      /\ state[r] # Unknown
  BY CallIs DEF Transition, CallWell, TypeOK, Down
<1>2. /\ UNCHANGED <<up, routed, linked, started, exited, preparing, pending, spawned,
                     live, deaths, strays, asked>>
      /\ LeaveIfOver
  BY DEF Transition, childVars, history
<1>3. /\ to \in Reached /\ to # Unknown /\ to # "prepared" /\ rest \in Asks
      /\ to = "cancelling" => call.asks # <<"rolled_back">>
      /\ call.asks = <<"rolled_back">> => to = "rolled_back"
  BY <1>1, AskValues DEF Asks
<1>4. \/ state' = [state EXCEPT ![r] = to] /\ call' = Called(r, rest, call.withdraws)
      \/ state' = state /\ ~Lifecycle!CanTransition(state[r], to) /\ call' = NoCall
  BY DEF Transition
<1>5. /\ Called(r, rest, call.withdraws) \in Calls \cup {NoCall}
      /\ Called(r, rest, call.withdraws) # NoCall =>
            /\ Called(r, rest, call.withdraws).run = r
            /\ Called(r, rest, call.withdraws).asks = rest
            /\ Called(r, rest, call.withdraws).withdraws = call.withdraws
  BY <1>1, <1>3, CalledIs
<1>6. /\ call.asks = <<"rolled_back">> => rest = <<>>
      /\ rest = <<>> /\ ~call.withdraws => Called(r, rest, call.withdraws) = NoCall
      /\ call.withdraws => r \in asked
  <2>1. call.asks = <<"rolled_back">> => rest = <<>>
    OBVIOUS
  <2>2. call.withdraws => r \in asked
    BY <1>1 DEF CallWell
  <2> HIDE DEF rest, r
  <2>3. rest = <<>> /\ ~call.withdraws => Called(r, rest, call.withdraws) = NoCall
    BY <1>1, <1>3, CalledIs
  <2> QED
    BY <2>1, <2>2, <2>3
<1>7. /\ \A o \in Run \ {r} : state'[o] = state[o]
      /\ state'[r] # Unknown /\ state'[r] # "prepared" /\ state' \in [Run -> Reached]
  <2>1. state \in [Run -> Reached]
    BY DEF TypeOK, Followed
  <2>2. CASE state' = [state EXCEPT ![r] = to]
    BY <1>1, <1>3, <2>1, <2>2
  <2>3. CASE state' = state /\ ~Lifecycle!CanTransition(state[r], to)
    <3>1. Lifecycle!CanTransition("prepared", "rolled_back")
      BY DEF Lifecycle!CanTransition, Lifecycle!Successors, Lifecycle!LiveStates
    <3>2. state[r] # "prepared"
      BY <1>1, <1>3, <2>3, <3>1 DEF CallWell
    <3> QED
      BY <1>1, <2>1, <2>3, <3>2
  <2> QED
    BY <1>4, <2>2, <2>3
<1> HIDE DEF to, rest
<1>8. \/ active' = active /\ phase' = phase
      \/ active' = NoItem /\ phase' = "idle" /\ call' = NoCall /\ phase = "settle"
  BY <1>2 DEF LeaveIfOver, Leave
<1>9. CallWell'
  <2>1. CASE call' = NoCall
    BY <2>1 DEF CallWell
  <2>2. CASE call' # NoCall
    <3>1. call'.run = r /\ call'.asks = rest /\ call'.withdraws = call.withdraws
      BY <1>4, <1>5, <2>2
    <3>2. active' = active /\ phase' = phase
      BY <1>8, <2>2
    <3>3. r \in asked \/ phase = "settle"
      BY <1>1, <1>4, <1>5, <1>6, <2>2 DEF CallWell
    <3>4. (phase = "settle" => r = active.run /\ ~call.withdraws) /\ (call.withdraws => r \in asked)
      BY <1>1 DEF CallWell
    <3> QED
      BY <1>1, <1>2, <1>3, <1>7, <3>1, <3>2, <3>3, <3>4 DEF CallWell
  <2> QED
    BY <2>1, <2>2
<1>10. QueuedOnce'
  BY <1>2, <1>8, OnceStill
<1>11. Stops'
  <2>1. \A o \in Run : Stopped(o)' => Stopped(o) \/ (o = r /\ phase = "settle")
    <3>1. state'[r] = "cancelling" =>
             state[r] = "cancelling" \/ r \in asked \/ phase = "settle"
      BY <1>1, <1>3, <1>4 DEF CallWell, TypeOK
    <3> QED
      BY <1>2, <1>7, <3>1 DEF Stopped
  <2>2. phase = "settle" => /\ r = active.run /\ \A item \in Waiting : item.run # r
                            /\ active # NoItem
    BY <1>1, ActiveApart DEF CallWell, TypeOK
  <2>3. ASSUME NEW o \in Run, Stopped(o)' PROVE StopsWell(o)'
    <3>1. CASE Stopped(o)
      BY <1>2, <1>8, <3>1, Items DEF Stops, StopsWell, Waiting
    <3>2. CASE o = r /\ phase = "settle"
      BY <1>2, <1>8, <2>2, <3>2, Items DEF StopsWell, Waiting
    <3> QED
      BY <2>1, <2>3, <3>1, <3>2
  <2> QED
    BY <2>3 DEF Stops
<1>12. \A o \in asked : state'[o] = "prepared" => o \in Held'
  <2>1. ASSUME NEW o \in asked, state'[o] = "prepared" PROVE o \in Held'
    <3>1. o \in Run /\ o # r /\ state[o] = "prepared"
      BY <1>7, <2>1 DEF TypeOK
    <3>2. o \in Held
      BY <2>1, <3>1 DEF AskedWell
    <3>3. active.run = o => active' = active
      BY <1>1, <1>8, <3>1 DEF CallWell
    <3> QED
      BY <1>2, <3>1, <3>2, <3>3, HeldIs DEF Waiting
  <2> QED
    BY <2>1
<1> QED
  BY <1>1, <1>2, <1>4, <1>5, <1>7, <1>9, <1>10, <1>11, <1>12, CallGoesOn DEF Waiting, TypeOK

LEMMA WithdrawKeeps == ASSUME Inv, Withdraw PROVE Inv'
<1> USE DEF Inv
<1> DEFINE r == call.run
           asks == Cancelled(state[r])
<1>1. /\ up /\ call.withdraws /\ call # NoCall /\ call \in Calls /\ r \in Run /\ r \in asked
      /\ preparing = 0 /\ state[r] # Unknown /\ state[r] \in Reached
      /\ phase \in {"idle", "routing", "child", "reattach"}
  <2>1. up /\ call.withdraws /\ call # NoCall /\ call \in Calls
    BY CallIs DEF Withdraw, TypeOK
  <2>2. r \in Run
    BY <2>1, CallIs
  <2> QED
    BY <2>1, <2>2 DEF CallWell, Down, Followed
<1>2. PICK n \in DOMAIN pending : pending[n].run = r /\ pending' = RemoveAt(pending, n)
  BY DEF Withdraw
<1>3. /\ UNCHANGED <<up, state, routed, linked, started, exited, preparing, active, phase, spawned,
                     live, deaths, strays, asked>>
      /\ call' = Called(r, asks, FALSE)
  BY DEF Withdraw, kernelVars, childVars, history
<1>4. /\ pending \in Seq(Item) /\ Distinct(pending, active.run)
      /\ pending' \in Seq(Item) /\ Distinct(pending', active.run)
      /\ \A i \in DOMAIN pending' : \E j \in DOMAIN pending : j # n /\ pending'[i] = pending[j]
      /\ \A j \in DOMAIN pending : j # n => \E i \in DOMAIN pending' : pending'[i] = pending[j]
  <2>1. pending \in Seq(Item) /\ Distinct(pending, active.run)
    BY DistinctIsOnce DEF TypeOK
  <2> QED
    BY <1>2, <2>1, RemoveKeeps
<1>5. asks \in Asks /\ (state[r] = "prepared" => asks = <<"rolled_back">>)
  BY <1>1, AsksOf
<1>6. /\ call' \in Calls \cup {NoCall}
      /\ asks = <<>> => call' = NoCall
      /\ asks # <<>> => /\ call' # NoCall /\ call'.run = r /\ call'.asks = asks
                        /\ ~call'.withdraws
  <2> DEFINE c == Called(r, asks, FALSE)
  <2> HIDE DEF asks
  <2>1. /\ c \in Calls \cup {NoCall}
        /\ asks = <<>> => c = NoCall
        /\ asks # <<>> => c # NoCall /\ c.run = r /\ c.asks = asks /\ ~c.withdraws
    BY <1>1, <1>5, CalledIs
  <2>2. call' = c
    BY <1>3
  <2> HIDE DEF c
  <2> QED
    BY <2>1, <2>2
<1> HIDE DEF asks
<1>7. Waiting' \subseteq Waiting /\ LeaveIfOver /\ QueuedOnce'
  <2>1. Waiting' \subseteq Waiting
    BY <1>4 DEF Waiting
  <2>2. LeaveIfOver
    BY <1>1, <1>3 DEF LeaveIfOver
  <2>3. QueuedOnce'
    BY <1>3, <1>4 DEF QueuedOnce, Distinct, Pending
  <2> QED
    BY <2>1, <2>2, <2>3
<1>8. CallWell'
  BY <1>1, <1>3, <1>5, <1>6 DEF CallWell
<1>9. \A o \in asked : state'[o] = "prepared" => o \in Held'
  <2>1. ASSUME NEW o \in asked, state[o] = "prepared" PROVE o \in Held'
    <3>1. o \in Run /\ o \in Held
      BY <2>1 DEF AskedWell, TypeOK
    <3>2. CASE o = r
      <4>1. asks # <<>>
        <5>1. <<"rolled_back">> # <<>>
          OBVIOUS
        <5> HIDE DEF r
        <5> QED
          BY <1>5, <2>1, <3>2, <5>1
      <4> QED
        BY <1>6, <3>1, <3>2, <4>1, HeldIs
    <3>3. CASE o # r
      <4>1. \A item \in Waiting : item.run # r => item \in Waiting'
        BY <1>2, <1>4 DEF Waiting
      <4> QED
        BY <1>3, <3>1, <3>3, <4>1, HeldIs
    <3> QED
      BY <3>2, <3>3
  <2> QED
    BY <1>3, <2>1
<1>10. Stops'
  BY <1>3, <1>7, StopsFrame DEF Stopped
<1>11. state' \in [Run -> Reached]
  BY <1>3 DEF TypeOK, Followed
<1> QED
  BY <1>1, <1>3, <1>4, <1>6, <1>7, <1>8, <1>9, <1>10, <1>11, CallGoesOn

\* A cancellation is asked for: the Run r has an item, and all that happens is noted.
LEMMA AskingKeeps ==
    ASSUME Inv, Turn, NEW r \in Run, state[r] # Unknown,
           pending' \in Seq(Item), QueuedOnce', active' \in Item \cup {NoItem},
           active' = NoItem <=> active = NoItem, active'.run = active.run,
           active'.mode = active.mode, active'.child = active.child,
           active'.attempt = active.attempt,
           \A item \in Waiting' : WaitsWell(item),
           \A item \in Waiting' :
              \/ item.run # r /\ item \in Waiting
              \/ item.run = r /\ (item.mode = "reattach"
                                     \/ (item.mode = "redispatch" /\ item.cancel)),
           \A item \in Waiting : item.run # r => item \in Waiting',
           active.run = r => active'.cancel,
           active.run # r => active' = active,
           call' \in Calls \cup {NoCall}, CallWell',
           r \in Held', asked' = asked \cup {r},
           UNCHANGED <<up, state, routed, linked, started, exited, preparing, phase, spawned,
                       live, deaths, strays>>
    PROVE  Inv'
<1> USE DEF Inv
<1>1. up /\ preparing = 0 /\ call = NoCall /\ phase \in {"idle", "routing", "child", "reattach"}
  BY DEF Turn
<1>2. TypeOK'
  BY DEF TypeOK
<1>3. Followed' /\ Down'
  BY <1>1 DEF Followed, Down
<1>4. ActiveWell'
  BY <1>1 DEF ActiveWell
<1>5. \A item \in Waiting' : WaitsWell(item)'
  BY DEF WaitsWell, Named
<1>6. Stops'
  <2>1. ASSUME NEW o \in Run, Stopped(o)' PROVE StopsWell(o)'
    <3>1. CASE o = r
      BY <1>1, <3>1 DEF StopsWell
    <3>2. CASE o # r
      <4>1. StopsWell(o)
        BY <2>1, <3>2 DEF Stops, Stopped
      <4>2. active'.run = o => active' = active
        BY <3>2
      <4> QED
        BY <1>1, <3>2, <4>1, <4>2 DEF StopsWell
    <3> QED
      BY <3>1, <3>2
  <2> QED
    BY <2>1 DEF Stops
<1>7. AskedWell'
  <2>1. ASSUME NEW o \in asked, state[o] = "prepared", o # r PROVE o \in Held'
    <3>1. o \in Run /\ o \in Held /\ o # 0
      BY <2>1, Items DEF AskedWell, TypeOK
    <3>2. call.run = 0
      BY <1>1, CallIs
    <3> QED
      BY <2>1, <3>1, <3>2, HeldIs
  <2> QED
    BY <2>1 DEF AskedWell
<1> QED
  BY <1>2, <1>3, <1>4, <1>5, <1>6, <1>7

LEMMA CancelActiveKeeps == ASSUME Inv, CancelActive PROVE Inv'
<1> USE DEF Inv
<1> DEFINE r == active.run
           asks == Requested(state[r])
<1>1. /\ active # NoItem /\ active \in Item /\ r \in Run /\ state[r] # Unknown
      /\ state[r] \in Reached /\ Turn
  BY ActiveApart DEF CancelActive
<1>2. /\ UNCHANGED <<up, state, routed, linked, started, exited, preparing, pending, phase, spawned,
                     live, deaths, strays>>
      /\ asked' = asked \cup {r} /\ call' = Called(r, asks, FALSE)
  BY DEF CancelActive, kernelVars, childVars
<1>3. /\ active' \in Item /\ active'.run = r /\ active'.mode = active.mode
      /\ active'.child = active.child /\ active'.attempt = active.attempt
      /\ active'.cancel = TRUE
  BY <1>1, Noted DEF CancelActive
<1>4. asks \in Asks /\ (state[r] = "prepared" => asks = <<>>)
  BY <1>1, AsksOf
<1>5. /\ call' \in Calls \cup {NoCall}
      /\ asks = <<>> => call' = NoCall
      /\ asks # <<>> => /\ call' # NoCall /\ call'.run = r /\ call'.asks = asks
                        /\ ~call'.withdraws
  <2> DEFINE c == Called(r, asks, FALSE)
  <2> HIDE DEF asks
  <2>1. /\ c \in Calls \cup {NoCall}
        /\ asks = <<>> => c = NoCall
        /\ asks # <<>> => c # NoCall /\ c.run = r /\ c.asks = asks /\ ~c.withdraws
    BY <1>1, <1>4, CalledIs
  <2>2. call' = c
    BY <1>2
  <2> HIDE DEF c
  <2> QED
    BY <2>1, <2>2
<1> HIDE DEF asks
<1>6. CallWell'
  BY <1>1, <1>2, <1>4, <1>5 DEF CallWell, Turn
<1>7. QueuedOnce' /\ pending' \in Seq(Item)
  BY <1>2, <1>3 DEF QueuedOnce, Pending, TypeOK
<1>8. \A item \in Waiting : item.run # r
  BY <1>1, ActiveApart
<1>9. Waiting' = Waiting
  BY <1>2 DEF Waiting
<1>10. r \in Held'
  BY <1>1, <1>3, HeldIs
<1>11. active' # NoItem
  BY <1>3, Items
<1> QED
  BY <1>1, <1>2, <1>3, <1>5, <1>6, <1>7, <1>8, <1>9, <1>10, <1>11, AskingKeeps

LEMMA CancelPendingKeeps ==
    ASSUME Inv, NEW n \in DOMAIN pending, CancelPending(n) PROVE Inv'
<1> USE DEF Inv
<1> DEFINE item == pending[n]
           r == item.run
<1>1. /\ pending \in Seq(Item) /\ item \in Item /\ item \in Waiting /\ r \in Run /\ r # active.run
      /\ Distinct(pending, active.run)
  <2>1. /\ pending \in Seq(Item) /\ item \in Item /\ item \in Waiting
        /\ Distinct(pending, active.run)
    BY DistinctIsOnce DEF TypeOK, Waiting
  <2>2. item.run # active.run
    BY <2>1 DEF Distinct
  <2> QED
    BY <2>1, <2>2, Items
<1>2. /\ state[r] \in Reached /\ state[r] # Unknown /\ WaitsWell(item)
  BY <1>1 DEF Followed, WaitsWell
<1>3. /\ Turn /\ asked' = asked \cup {r}
      /\ UNCHANGED <<up, state, routed, linked, started, exited, preparing, active, phase, spawned,
                     live, deaths, strays>>
  BY DEF CancelPending, kernelVars, childVars
<1>4. CASE item.mode = "start"
  <2>1. pending' = RemoveAt(pending, n) /\ call' = Called(r, <<"rolled_back">>, FALSE)
    BY <1>4 DEF CancelPending
  <2>2. /\ pending' \in Seq(Item) /\ Distinct(pending', active.run)
        /\ \A i \in DOMAIN pending' : \E j \in DOMAIN pending : j # n /\ pending'[i] = pending[j]
        /\ \A j \in DOMAIN pending : j # n => \E i \in DOMAIN pending' : pending'[i] = pending[j]
    BY <1>1, <2>1, RemoveKeeps
  <2>3. /\ \A w \in Waiting' : w \in Waiting /\ w.run # r
        /\ \A w \in Waiting : w.run # r => w \in Waiting'
    <3>1. \A i \in DOMAIN pending : i # n => pending[i].run # r
      BY <1>1 DEF Distinct
    <3>2. pending[n].run = r
      OBVIOUS
    <3> HIDE DEF r, item
    <3> QED
      BY <2>2, <3>1, <3>2 DEF Waiting
  <2>4. QueuedOnce'
    BY <1>3, <2>2 DEF QueuedOnce, Distinct, Pending
  <2> DEFINE c == Called(r, <<"rolled_back">>, FALSE)
  <2>5. <<"rolled_back">> \in Asks /\ <<"rolled_back">> # <<>>
    BY DEF Asks
  <2>6. /\ c \in Calls \cup {NoCall} /\ c # NoCall /\ c.run = r /\ c.asks = <<"rolled_back">>
        /\ ~c.withdraws
    BY <1>1, <2>5, CalledIs
  <2>7. call' = c
    BY <2>1
  <2> HIDE DEF item, c
  <2>8. CallWell'
    BY <1>2, <1>3, <2>5, <2>6, <2>7 DEF CallWell, Turn
  <2>9. r \in Held'
    BY <1>1, <2>6, <2>7, HeldIs
  <2>10. \A w \in Waiting' : WaitsWell(w)
    BY <2>3
  <2>11. active' \in Item \cup {NoItem} /\ active' = active
    BY <1>3 DEF TypeOK
  <2> QED
    BY <1>1, <1>2, <1>3, <2>2, <2>3, <2>4, <2>6, <2>7, <2>8, <2>9, <2>10, <2>11, AskingKeeps
<1>5. CASE item.mode # "start"
  <2> DEFINE noted == [item EXCEPT !.cancel = TRUE]
             asks == Requested(state[r])
             withdraws == item.mode = "redispatch"
             c == Called(r, asks, withdraws)
  <2>1. pending' = [pending EXCEPT ![n] = noted] /\ call' = c
    BY <1>5 DEF CancelPending
  <2>2. /\ noted \in Item /\ noted.run = r /\ noted.mode = item.mode
        /\ noted.attempt = item.attempt /\ noted.cancel = TRUE
    BY <1>1, Noted
  <2>3. asks \in Asks /\ (state[r] = "prepared" => asks = <<>>)
    BY <1>2, AsksOf
  <2>4. noted.mode \in {"reattach", "redispatch"}
    BY <1>1, <1>5, <2>2 DEF Item
  <2> HIDE DEF asks, withdraws
  <2>5. /\ c \in Calls \cup {NoCall}
        /\ c # NoCall => c.run = r /\ c.asks = asks
    <3>1. withdraws \in BOOLEAN
      BY DEF withdraws
    <3> QED
      BY <1>1, <2>3, <3>1, CalledIs
  <2> HIDE DEF item, noted, c
  <2>6. /\ pending' \in Seq(Item) /\ DOMAIN pending' = DOMAIN pending /\ pending'[n] = noted
        /\ \A i \in DOMAIN pending : i # n => pending'[i] = pending[i]
    BY <1>1, <2>1, <2>2
  <2>7. /\ \A w \in Waiting' : w = noted \/ (w \in Waiting /\ w.run # r)
        /\ \A w \in Waiting : w.run # r => w \in Waiting'
        /\ noted \in Waiting'
    <3>1. \A i \in DOMAIN pending : i # n => pending[i].run # r
      BY <1>1 DEF Distinct, item
    <3>2. pending[n].run = r
      BY DEF item
    <3> QED
      BY <2>6, <3>1, <3>2 DEF Waiting
  <2>8. QueuedOnce'
    <3>1. \A i \in DOMAIN pending : pending'[i].run = pending[i].run
      BY <2>2, <2>6 DEF item
    <3> QED
      BY <1>1, <1>3, <2>6, <3>1 DEF QueuedOnce, Distinct, Pending
  <2>9. CallWell'
    BY <1>2, <1>3, <2>1, <2>3, <2>5 DEF CallWell, Turn
  <2>10. r \in Held'
    BY <1>1, <2>2, <2>7, HeldIs
  <2>11. WaitsWell(noted)
    BY <1>2, <2>2 DEF WaitsWell
  <2>12. \A w \in Waiting' : WaitsWell(w)
    BY <2>7, <2>11
  <2>13. active' \in Item \cup {NoItem} /\ active' = active
    BY <1>3 DEF TypeOK
  <2>14. \A w \in Waiting' :
            \/ w.run # r /\ w \in Waiting
            \/ w.run = r /\ (w.mode = "reattach" \/ (w.mode = "redispatch" /\ w.cancel))
    BY <2>2, <2>4, <2>7
  <2> QED
    BY <1>1, <1>2, <1>3, <2>1, <2>5, <2>6, <2>7, <2>8, <2>9, <2>10, <2>12, <2>13, <2>14,
       AskingKeeps
<1> QED
  BY <1>4, <1>5

LEMMA DiesKeeps == ASSUME Inv, Dies PROVE Inv'
<1> USE DEF Inv
<1>1. /\ UNCHANGED <<state, routed, linked, started, exited, spawned, live>>
      /\ up' = FALSE /\ preparing' = 0 /\ pending' = <<>> /\ active' = NoItem /\ phase' = "idle"
      /\ call' = NoCall /\ strays' = {} /\ asked' = {}
  BY DEF Dies, Leave, kernelVars, childVars
<1>2. TypeOK'
  <2>1. deaths' \in 0..MaxDeaths
    BY CanaryAssumption DEF Dies, TypeOK
  <2>2. pending' \in Seq(Item)
    BY <1>1
  <2> QED
    BY <1>1, <2>1, <2>2 DEF TypeOK
<1>3. Followed' /\ Stops'
  BY <1>1, Items DEF Followed, Stops, StopsWell, Waiting
<1> QED
  BY <1>1, <1>2, <1>3, Items
     DEF Down, QueuedOnce, Pending, Waiting, ActiveWell, CallWell, AskedWell

\* A child, or a server that starts, moves r.
LEMMA MovedKeeps ==
    ASSUME Inv, NEW r \in Run, NEW to \in Reached, to \notin {Unknown, "prepared", "cancelling"},
           state' = [state EXCEPT ![r] = to], state[r] # Unknown,
           UNCHANGED <<up, routed, linked, started, exited, preparing, pending, active, phase,
                       call, spawned, live, deaths, strays, asked>>
    PROVE  Inv'
<1> USE DEF Inv
<1>1. state'[r] = to /\ \A o \in Run \ {r} : state'[o] = state[o]
  BY DEF TypeOK
<1>2. TypeOK'
  BY States DEF TypeOK
<1>3. Followed' /\ QueuedOnce' /\ Down'
  BY <1>1 DEF Followed, QueuedOnce, Pending, Down, TypeOK
<1>4. ActiveWell' /\ CallWell'
  <2>1. active # NoItem => active.run \in Run
    BY ActiveApart
  <2>2. call # NoCall => call.run \in Run
    BY CallIs DEF TypeOK
  <2> QED
    BY <1>1, <2>1, <2>2 DEF ActiveWell, CallWell, Named
<1>5. \A item \in Waiting' : WaitsWell(item)'
  BY <1>1, WaitsFrame DEF Waiting
<1>6. Stops'
  BY <1>1, StopsFrame DEF Waiting, Stopped
<1>7. AskedWell'
  <2>1. Held' = Held
    BY DEF Held, Queued, Pending
  <2> QED
    BY <1>1, <2>1 DEF AskedWell, TypeOK
<1> QED
  BY <1>2, <1>3, <1>4, <1>5, <1>6, <1>7

LEMMA ChildMovesKeeps ==
    ASSUME Inv, NEW r \in Run, NEW to \in Moves, ChildMoves(r, to) PROVE Inv'
<1>1. /\ to \in Reached /\ to \notin {Unknown, "prepared", "cancelling"}
      /\ state[r] # Unknown
  <2>1. state[r] # Unknown
    BY DEF ChildMoves, Unknown, Lifecycle!CanTransition, Lifecycle!LiveStates, Lifecycle!Unknown
  <2> QED
    BY <2>1, Moving
<1> QED
  BY <1>1, MovedKeeps DEF ChildMoves, queueVars, childVars, history

LEMMA CloseDeadKeeps == ASSUME Inv, NEW r \in Run, CloseDead(r) PROVE Inv'
<1>1. /\ "cancelled" \in Reached /\ "cancelled" \notin {Unknown, "prepared", "cancelling"}
      /\ state[r] # Unknown
  BY DEF CloseDead, DeadCancelled, Reached, Unknown, Lifecycle!Unknown, Lifecycle!TerminalStates
<1> QED
  BY <1>1, MovedKeeps DEF CloseDead, queueVars, childVars, history

LEMMA ChildExitsKeeps ==
    ASSUME Inv, NEW c \in live, ChildExits(c) PROVE Inv'
<1> USE DEF Inv
<1>1. /\ live' \subseteq live
      /\ UNCHANGED <<up, state, routed, linked, started, exited, preparing, pending, active, phase,
                     call, spawned, deaths, strays, asked>>
  BY DEF ChildExits, kernelVars, queueVars, history
<1>2. TypeOK' /\ Followed' /\ QueuedOnce' /\ Down'
  BY <1>1 DEF TypeOK, Followed, QueuedOnce, Pending, Down
<1>3. \A item \in Waiting' : WaitsWell(item)'
  BY <1>1, WaitsFrame DEF Waiting
<1>4. ActiveWell' /\ CallWell'
  BY <1>1 DEF ActiveWell, CallWell, Named
<1>5. Stops'
  BY <1>1, StopsFrame DEF Waiting, Stopped
<1>6. AskedWell'
  <2>1. Held' = Held
    BY <1>1 DEF Held, Queued, Pending
  <2> QED
    BY <1>1, <2>1 DEF AskedWell
<1> QED
  BY <1>2, <1>3, <1>4, <1>5, <1>6

LEMMA BootsKeeps ==
    ASSUME Inv, NEW available \in BOOLEAN, Boots(available) PROVE Inv'
<1> USE DEF Inv
<1>1. /\ ~up /\ up' = TRUE /\ active = NoItem /\ phase = "idle" /\ preparing = 0
      /\ call = NoCall /\ asked = {}
      /\ UNCHANGED <<state, routed, linked, started, exited, preparing, active, phase, call,
                      spawned, live, deaths, asked>>
  BY DEF Boots, Down, TypeOK, kernelVars, childVars
<1>2. PICK order \in [1..Cardinality(Recoverable(available)) -> Recoverable(available)] :
          /\ \A i, j \in DOMAIN order : i < j => order[i] < order[j]
          /\ pending' = [i \in DOMAIN order |-> Recovered(order[i])]
  BY DEF Boots
<1>3. ASSUME NEW r \in Recoverable(available)
      PROVE  /\ r \in Run /\ Recovered(r) \in Item /\ Recovered(r).run = r
             /\ state[r] = "cancelling" => Recovered(r).mode = "reattach"
             /\ Recovered(r).mode # "start" => Recovered(r).attempt \in DOMAIN started[r]
             /\ Recovered(r).mode = "redispatch" => ~Named(r)
             /\ state[r] # Unknown
  <2>1. r \in Run /\ state[r] \in Reached
    BY DEF Recoverable, Followed
  <2>2. CASE state[r] = "prepared"
    BY <2>1, <2>2, States, Items DEF Recovered, Start
  <2>3. CASE state[r] # "prepared"
    <3> DEFINE mode == IF Redispatched(r) THEN "redispatch" ELSE "reattach"
    <3>1. /\ state[r] \in Executing \cup {"cancelling"} /\ lastAttempt(r) # 0
          /\ Redispatched(r) \/ pidAlive(r)
          /\ Recovered(r) = Adopted(r, mode)
      BY <2>3 DEF Recoverable, Recovered
    <3>2. /\ started[r] \in Seq(1..MaxSpawns) /\ Len(started[r]) <= spawned[r]
          /\ spawned[r] \in 0..MaxSpawns
      BY <2>1 DEF TypeOK, Followed
    <3>3. lastAttempt(r) = Len(started[r]) /\ Len(started[r]) \in 1..MaxSpawns
      BY <3>1, <3>2, CanaryAssumption DEF lastAttempt
    <3>4. /\ lastAttempt(r) \in DOMAIN started[r]
          /\ started[r][lastAttempt(r)] \in 1..MaxSpawns
          /\ started[r] # <<>> /\ Last(started[r]) = started[r][lastAttempt(r)]
      <4>1. DOMAIN started[r] = 1..Len(started[r]) /\ started[r] # <<>>
        BY <3>2, <3>3
      <4>2. \A i \in DOMAIN started[r] : started[r][i] \in 1..MaxSpawns
        BY <3>2, <4>1, ElementOfSeq
      <4> QED
        BY <3>3, <4>1, <4>2 DEF Last
    <3>5. /\ Adopted(r, mode) \in Item /\ Adopted(r, mode).run = r
          /\ Adopted(r, mode).mode = mode /\ Adopted(r, mode).attempt = lastAttempt(r)
      BY <2>1, <3>3, <3>4 DEF Adopted, Item
    <3>6. Redispatched(r) => state[r] # "cancelling" /\ ~Named(r)
      BY <3>1, <3>4 DEF Redispatched, pidAlive, Named, Executing
    <3>7. state[r] # Unknown
      BY <3>1, States DEF Executing
    <3> QED
      BY <2>1, <3>1, <3>4, <3>5, <3>6, <3>7
  <2> QED
    BY <2>2, <2>3
<1>4. Cardinality(Recoverable(available)) \in Nat /\ \A i \in DOMAIN order : order[i] \in Nat
  <2>1. Recoverable(available) \subseteq Run
    BY DEF Recoverable
  <2> QED
    BY <2>1, CanaryAssumption, FS_Subset, FS_CardinalityType
<1>5. /\ pending' \in Seq(Item) /\ DOMAIN pending' = DOMAIN order
      /\ \A i \in DOMAIN order :
            pending'[i] = Recovered(order[i]) /\ order[i] \in Recoverable(available)
  <2>1. \A i \in DOMAIN order : order[i] \in Recoverable(available)
    BY <1>2
  <2>2. \A i \in DOMAIN order : Recovered(order[i]) \in Item
    BY <1>3, <2>1
  <2>3. DOMAIN order = 1..Cardinality(Recoverable(available))
    BY <1>2
  <2>4. pending' = [i \in DOMAIN order |-> Recovered(order[i])]
    BY <1>2
  <2>5. pending' \in Seq(Item)
    BY <1>4, <2>2, <2>3, <2>4
  <2> QED
    BY <2>1, <2>4, <2>5
<1>6. \A i, j \in DOMAIN order : order[i] = order[j] => i = j
  BY <1>2, <1>4
<1>7. TypeOK'
  <2>1. strays' \subseteq Run
    BY DEF Boots, Strays, Recoverable
  <2> QED
    BY <1>1, <1>5, <2>1 DEF TypeOK
<1>8. Followed' /\ Down' /\ ActiveWell' /\ CallWell' /\ AskedWell'
  BY <1>1 DEF Followed, Down, ActiveWell, CallWell, AskedWell
<1>9. ASSUME NEW item \in Waiting'
      PROVE  /\ WaitsWell(item)' /\ (state[item.run] = "cancelling" => item.mode = "reattach")
  <2>1. PICK i \in DOMAIN order : item = Recovered(order[i])
    BY <1>5 DEF Waiting
  <2> DEFINE r == order[i]
  <2>2. r \in Run /\ r \in Recoverable(available) /\ item.run = r
    BY <1>3, <1>5, <2>1
  <2> QED
    BY <1>1, <1>3, <2>1, <2>2 DEF WaitsWell, Named
<1>10. QueuedOnce'
  <2>1. \A i \in DOMAIN order : pending'[i].run = order[i] /\ order[i] \in Run
    BY <1>3, <1>5
  <2> QED
    BY <1>1, <1>5, <1>6, <2>1, Items DEF QueuedOnce, Pending
<1>11. Stops'
  BY <1>1, <1>9, Items DEF Stops, StopsWell, Stopped
<1> QED
  BY <1>7, <1>8, <1>9, <1>10, <1>11

-----------------------------------------------------------------------------
(* The invariant, and what follows from it.                                   *)

LEMMA InvStep == ASSUME Inv, [Next]_vars PROVE Inv'
<1>1. ASSUME NEW r \in Run, Create(r) \/ CloseDead(r) PROVE Inv'
  BY <1>1, CreateKeeps, CloseDeadKeeps
<1>2. ASSUME NEW available \in BOOLEAN, Prepare(available) PROVE Inv'
  <2>1. /\ up /\ preparing \in Run /\ LinkAndQueue(preparing, available)
        /\ state[preparing] # Unknown /\ call = NoCall
        /\ phase \in {"idle", "routing", "child", "reattach"}
    BY <1>2 DEF Prepare, Inv, TypeOK, Down
  <2> QED
    BY <2>1, LinkKeeps
<1>3. ASSUME NEW available \in BOOLEAN, Boots(available) PROVE Inv'
  BY <1>3, BootsKeeps
<1>4. ASSUME NEW r \in Run, NEW available \in BOOLEAN, Resubmit(r, available) PROVE Inv'
  BY <1>4, LinkKeeps DEF Resubmit, Turn, Unknown
<1>5. CASE Server
  BY <1>5, DrainKeeps, ResolveKeeps, RoutingCancelledKeeps, SpawnKeeps,
     JournalStartKeeps, ExitSeenKeeps, SettleKeeps, TransitionKeeps, WithdrawKeeps DEF Server
<1>6. ASSUME NEW i \in DOMAIN pending, CancelPending(i) PROVE Inv'
  BY <1>6, CancelPendingKeeps
<1>7. CASE CancelActive
  BY <1>7, CancelActiveKeeps
<1>8. CASE Dies
  BY <1>8, DiesKeeps
<1>9. ASSUME NEW r \in Run, NEW to \in Moves, ChildMoves(r, to) PROVE Inv'
  BY <1>9, ChildMovesKeeps
<1>10. ASSUME NEW c \in live, ChildExits(c) PROVE Inv'
  BY <1>10, ChildExitsKeeps
<1>11. CASE UNCHANGED vars
  <2>1. UNCHANGED <<up, state, routed, linked, started, exited, preparing, pending, active, phase,
                    call, spawned, live, deaths, strays, asked>>
    BY <1>11 DEF vars, kernelVars, queueVars, childVars, history
  <2>2. TypeOK' /\ Down' /\ Followed' /\ QueuedOnce'
    BY <2>1 DEF Inv, TypeOK, Down, Followed, QueuedOnce, Pending
  <2>3. ActiveWell' /\ CallWell' /\ \A item \in Waiting' : WaitsWell(item)'
    BY <2>1 DEF Inv, Waiting, WaitsWell, ActiveWell, CallWell, Named
  <2>4. Stops'
    BY <2>1, StopsFrame DEF Inv, Waiting, Stopped
  <2>5. Held' = Held
    BY <2>1 DEF Held, Queued, Pending
  <2>6. AskedWell'
    BY <2>1, <2>5 DEF Inv, AskedWell
  <2> QED
    BY <2>2, <2>3, <2>4, <2>6 DEF Inv
<1> QED
  BY <1>1, <1>2, <1>3, <1>4, <1>5, <1>6, <1>7, <1>8, <1>9, <1>10, <1>11 DEF Next

LEMMA Invariant == Spec => []Inv
BY InvInit, InvStep, PTL DEF Spec

(* The queue is well formed.                                                  *)
THEOREM TypeCorrect == Spec => []TypeOK
<1>1. Inv => TypeOK
  BY DEF Inv
<1> QED
  BY <1>1, Invariant, PTL

(* A Run is never queued twice, nor queued while it is active: whatever order *)
(* submissions, cancellations, deaths and recoveries come in.                 *)
THEOREM OnceQueued == Spec => []QueuedOnce
<1>1. Inv => QueuedOnce
  BY DEF Inv
<1> QED
  BY <1>1, Invariant, PTL

\* A child is spawned by one step only.
LEMMA SpawnedBySpawn ==
    ASSUME [Next]_vars, spawned' # spawned
    PROVE  Spawn
<1>1. \A r \in Run : Create(r) \/ CloseDead(r) => spawned' = spawned
  BY DEF Create, CloseDead, childVars
<1>2. \A r, available : LinkAndQueue(r, available) => spawned' = spawned
  BY DEF LinkAndQueue, childVars
<1>3. \A available : Boots(available) => spawned' = spawned
  BY DEF Boots, childVars
<1>4. \A refused : Resolve(refused) => spawned' = spawned
  BY DEF Resolve, childVars
<1>5. Drain \/ RoutingCancelled \/ JournalStart \/ ExitSeen \/ Settle => spawned' = spawned
  BY DEF Drain, RoutingCancelled, JournalStart, ExitSeen, Settle, childVars
<1>6. Transition \/ Withdraw \/ CancelActive \/ Dies => spawned' = spawned
  BY DEF Transition, Withdraw, CancelActive, Dies, childVars
<1>7. \A i : CancelPending(i) => spawned' = spawned
  BY DEF CancelPending, childVars
<1>8. \A r, to : ChildMoves(r, to) => spawned' = spawned
  BY DEF ChildMoves, childVars
<1>9. \A c : ChildExits(c) => spawned' = spawned
  BY DEF ChildExits
<1>10. UNCHANGED vars => spawned' = spawned
  BY DEF vars, childVars
<1>11. Server => Spawn
  BY <1>4, <1>5, <1>6 DEF Server
<1> QED
  BY <1>1, <1>2, <1>3, <1>6, <1>7, <1>8, <1>9, <1>10, <1>11 DEF Next, Prepare, Resubmit

\* What holds where a child is spawned.
LEMMA SpawnedFor ==
    ASSUME Inv, [Next]_vars, NEW r \in Run, spawned'[r] > spawned[r]
    PROVE  /\ r \notin asked /\ state[r] # "cancelling"
           /\ Named(r) => active.mode = "start"
<1>1. Spawn
  <2>1. spawned' # spawned
    BY CanaryAssumption DEF Inv, TypeOK
  <2> QED
    BY <2>1, SpawnedBySpawn
<1>2. active # NoItem /\ active \in Item /\ phase = "begin"
  BY <1>1, ActiveApart DEF Spawn, Inv, TypeOK
<1>3. r = active.run
  BY <1>1, <1>2, CanaryAssumption DEF Spawn, Inv, TypeOK
<1>4. /\ active.mode # "reattach"
      /\ active.mode = "redispatch" => ~Named(active.run)
  BY <1>2 DEF Inv, ActiveWell
<1>5. ~Stopped(r)
  BY <1>2, <1>3 DEF Inv, Stops, StopsWell
<1> QED
  BY <1>2, <1>3, <1>4, <1>5 DEF Item, Stopped

(* A recovered Run is never given a second child beside the living one that   *)
(* the journal names.                                                         *)
THEOREM NoneRespawned == Spec => NotRespawned
<1>1. Inv /\ [Next]_vars =>
         \A r \in Run :
            /\ spawned'[r] > spawned[r]
            /\ started[r] # <<>> /\ <<r, Last(started[r])>> \in live
            => active.mode = "start"
  BY SpawnedFor DEF Named
<1> QED
  BY <1>1, Invariant, PTL DEF Spec, NotRespawned

(* A cancellation is kept: no child is started for a Run whose cancellation   *)
(* this server was asked for, refusals and resubmissions included, nor, over  *)
(* any number of restarts, for one that the kernel shows as cancelling.       *)
THEOREM CancelsKept == Spec => CancelKept
<1>1. Inv /\ [Next]_vars =>
         \A r \in Run : spawned'[r] > spawned[r] => r \notin asked /\ state[r] # "cancelling"
  BY SpawnedFor
<1> QED
  BY <1>1, Invariant, PTL DEF Spec, CancelKept

-----------------------------------------------------------------------------
(* A Run is let go of when it is settled: but for a stray's, only the child   *)
(* that the item follows moves its Run, so that nothing intervenes between    *)
(* the end of that child and the last transition that is asked for.           *)

\* The transitions asks take a Run from state s to a terminal state.
Ends(s, asks) ==
    \/ asks = <<"rolled_back">> /\ s = "prepared"
    \/ asks = <<"cancelling", "cancelled">> /\ s = "running"
    \/ asks = <<"cancelled">> /\ s = "cancelling"
    \/ asks = <<"failed">> /\ s \in {"running", "verifying", "cancelling"}

\* No child of r lives but k.
OnlyChild(r, k) == \A n \in 1..MaxSpawns : <<r, n>> \in live => n = k

AloneWaits(item) ==
    /\ item.mode = "start" => state[item.run] = "prepared"
    /\ item.mode # "reattach" => ~Attended(item.run)
    /\ item.mode = "reattach" => OnlyChild(item.run, item.child)

AloneActive ==
    /\ phase = "routing" => state[active.run] = "prepared"
    /\ phase \in {"routing", "begin"} => ~Attended(active.run)
    /\ phase \in {"spawned", "child", "reattach"} => OnlyChild(active.run, active.child)
    /\ phase = "settle" => ~Attended(active.run) \/ Terminal(active.run)

\* A call at whose end the server lets go of the Run.
LetsGo == call # NoCall /\ (phase = "settle" \/ call.run \notin Queued)

AloneCall ==
    /\ LetsGo =>
          ~call.withdraws /\ ~Attended(call.run) /\ Ends(state[call.run], call.asks)
    /\ ~LetsGo => call.asks \in {<<>>, <<"cancelling">>}
    /\ call.withdraws => \A item \in Waiting : item.run = call.run => item.mode # "reattach"

AloneFor(r) ==
    /\ \A item \in Waiting : item.run = r => AloneWaits(item)
    /\ active.run = r => AloneActive
    /\ call.run = r => AloneCall

Alone == \A r \in Run \ strays : AloneFor(r)

\* What a step keeps of a Run.
Kept(r) ==
    /\ r \notin strays' => AloneFor(r)'
    /\ r \in Held /\ r \notin Held' /\ up' /\ r \notin strays => Terminal(r)'

\* What a settled or a cancelled Run is asked for ends it.
LEMMA EndsOf ==
    ASSUME NEW s \in Reached, NEW cancel \in BOOLEAN, s # Unknown
    PROVE  /\ AfterExit(s, cancel) = <<>> => s \in Lifecycle!TerminalStates
           /\ AfterExit(s, cancel) # <<>> => Ends(s, AfterExit(s, cancel))
           /\ Cancelled(s) = <<>> => s \in Lifecycle!TerminalStates
           /\ Cancelled(s) # <<>> => Ends(s, Cancelled(s))
BY DEF Reached, Unknown, Lifecycle!Unknown, Lifecycle!TerminalStates, Cancelled, AfterExit, Ends

\* The kernel accepts the transitions that end a Run, one after the other.
LEMMA EndsOn ==
    ASSUME NEW s, NEW asks \in Asks, Ends(s, asks)
    PROVE  /\ asks # <<>> /\ Lifecycle!CanTransition(s, Head(asks))
           /\ Tail(asks) # <<>> => Ends(Head(asks), Tail(asks))
           /\ Tail(asks) = <<>> => Head(asks) \in Lifecycle!TerminalStates
<1>1. /\ Lifecycle!CanTransition("prepared", "rolled_back")
      /\ Lifecycle!CanTransition("running", "cancelling")
      /\ Lifecycle!CanTransition("cancelling", "cancelled")
      /\ Lifecycle!CanTransition("running", "failed")
      /\ Lifecycle!CanTransition("verifying", "failed")
      /\ Lifecycle!CanTransition("cancelling", "failed")
  BY DEF Lifecycle!CanTransition, Lifecycle!Successors, Lifecycle!LiveStates
<1>2. /\ "rolled_back" \in Lifecycle!TerminalStates /\ "cancelled" \in Lifecycle!TerminalStates
      /\ "failed" \in Lifecycle!TerminalStates
  BY DEF Lifecycle!TerminalStates
<1>3. \A a : <<a>> # <<>> /\ Head(<<a>>) = a /\ Tail(<<a>>) = <<>>
  OBVIOUS
<1>4. CASE asks = <<"rolled_back">> /\ s = "prepared"
  BY <1>1, <1>2, <1>3, <1>4
<1>5. CASE asks = <<"cancelling", "cancelled">> /\ s = "running"
  <2>1. /\ asks # <<>> /\ Head(asks) = "cancelling" /\ Tail(asks) = <<"cancelled">>
    BY <1>5
  <2>2. <<"cancelled">> # <<>>
    OBVIOUS
  <2> QED
    BY <1>1, <1>5, <2>1, <2>2 DEF Ends
<1>6. CASE asks = <<"cancelled">> /\ s = "cancelling"
  BY <1>1, <1>2, <1>3, <1>6
<1>7. CASE asks = <<"failed">> /\ s \in {"running", "verifying", "cancelling"}
  BY <1>1, <1>2, <1>3, <1>7
<1> QED
  BY <1>4, <1>5, <1>6, <1>7 DEF Ends

LEMMA EndedStays ==
    ASSUME NEW s, NEW to, Lifecycle!CanTransition(s, to)
    PROVE  s \notin Lifecycle!TerminalStates
BY DEF Lifecycle!CanTransition, Lifecycle!Successors, Lifecycle!LiveStates,
       Lifecycle!TerminalStates

\* A Run of which nothing changes that matters.
LEMMA AloneFrame ==
    ASSUME NEW r \in Run, AloneFor(r), state'[r] = state[r],
           \A k \in 1..MaxSpawns : <<r, k>> \in live' => <<r, k>> \in live,
           \A item \in Waiting' :
              item.run = r => \E w \in Waiting : /\ w.run = r /\ w.mode = item.mode
                                                 /\ w.child = item.child,
           active'.run = r => active'.run = active.run /\ active'.child = active.child
                              /\ phase' = phase,
           call'.run = r => call' = call /\ (LetsGo' <=> LetsGo)
    PROVE  AloneFor(r)'
<1>1. Attended(r)' => Attended(r)
  BY DEF Attended
<1>2. \A k : OnlyChild(r, k) => OnlyChild(r, k)'
  BY DEF OnlyChild
<1>3. \A item \in Waiting' : item.run = r => AloneWaits(item)'
  BY <1>1, <1>2 DEF AloneFor, AloneWaits
<1>4. active'.run = r => AloneActive'
  BY <1>1, <1>2 DEF AloneFor, AloneActive, Terminal
<1>5. call'.run = r => AloneCall'
  BY <1>1 DEF AloneFor, AloneCall
<1> QED
  BY <1>3, <1>4, <1>5 DEF AloneFor

\* The Runs that are queued.
LEMMA QueuedIs ==
    \A r \in Run :
        /\ r \in Queued <=> (\E item \in Waiting : item.run = r) \/ active.run = r
        /\ r \in Queued' <=> (\E item \in Waiting' : item.run = r) \/ active'.run = r
BY Items DEF Queued, Pending, Waiting

\* Another Run than the Run o that a step is about.
LEMMA OthersKept ==
    ASSUME Alone, NEW r \in Run, NEW o, o # r, strays \subseteq strays', state'[r] = state[r],
           \A k \in 1..MaxSpawns : <<r, k>> \in live' => <<r, k>> \in live,
           \A item \in Waiting' : item.run = r => item \in Waiting,
           \A item \in Waiting : item.run = r => item \in Waiting',
           active' = active \/ {active.run, active'.run} \subseteq {o, 0},
           active' = active /\ active.run = r => phase' = phase,
           call' = call \/ {call.run, call'.run} \subseteq {o, 0},
           call'.run = r => (phase = "settle" <=> phase' = "settle")
    PROVE  Kept(r)
<1>1. r # 0
  BY Items
<1>2. active'.run = r => active' = active
  BY <1>1
<1>3. call'.run = r => call' = call
  BY <1>1
<1>4. active'.run = r <=> active.run = r
  BY <1>1
<1>5. r \in Queued <=> r \in Queued'
  BY <1>4, QueuedIs
<1>6. call'.run = r => (LetsGo' <=> LetsGo)
  BY <1>3, <1>5 DEF LetsGo
<1>7. r \in Held => r \in Held'
  BY <1>1, <1>4, HeldIs
<1>8. r \notin strays' => AloneFor(r)'
  <2> SUFFICES ASSUME r \notin strays' PROVE AloneFor(r)'
    OBVIOUS
  <2>1. AloneFor(r)
    BY DEF Alone
  <2> QED
    BY <1>2, <1>3, <1>6, <2>1, AloneFrame
<1> QED
  BY <1>7, <1>8 DEF Kept

LEMMA CreateAlone ==
    ASSUME Inv, Alone, NEW o \in Run, Create(o), NEW r \in Run PROVE Kept(r)
<1>1. /\ call = NoCall /\ state[o] = Unknown /\ state' = [state EXCEPT ![o] = "prepared"]
      /\ UNCHANGED <<pending, active, phase, call, live, strays>>
  BY DEF Create, Turn, childVars, history, Unknown
<1>2. CASE r # o
  <2>1. state'[r] = state[r]
    BY <1>1, <1>2 DEF Inv, TypeOK
  <2> QED
    BY <1>1, <1>2, <2>1, OthersKept DEF Waiting
<1>3. CASE r = o
  <2>1. r # active.run
    BY <1>1, <1>3, ActiveApart, Items DEF Inv
  <2>2. \A item \in Waiting : item.run # r
    BY <1>1, <1>3 DEF Inv, WaitsWell
  <2>3. call'.run # r
    BY <1>1, CallIs, Items
  <2>4. r \notin Held
    BY <1>1, <2>1, <2>2, <2>3, HeldIs
  <2> QED
    BY <1>1, <2>1, <2>2, <2>3, <2>4 DEF Kept, AloneFor, Waiting
<1> QED
  BY <1>2, <1>3

LEMMA LinkAlone ==
    ASSUME Inv, Alone, NEW o \in Run, NEW available \in BOOLEAN, LinkAndQueue(o, available),
           call = NoCall, phase # "settle", NEW r \in Run
    PROVE  Kept(r)
<1>1. /\ UNCHANGED <<up, state, active, phase, live>> /\ strays \subseteq strays'
      /\ call.run = 0
  BY CallIs DEF LinkAndQueue, childVars
<1>2. /\ pending \in Seq(Item) /\ Start(o) \in Item /\ Start(o).run = o
      /\ Start(o).mode = "start"
  BY Items DEF Inv, TypeOK
<1>3. \/ pending' = pending
      \/ pending' = Append(pending, Start(o)) /\ Waits(o) /\ call' = call
  BY DEF LinkAndQueue
<1>4. /\ \A item \in Waiting' : item \in Waiting \/ (item = Start(o) /\ Waits(o) /\ call' = call)
      /\ Waiting \subseteq Waiting'
  <2>1. \A i \in DOMAIN Append(pending, Start(o)) :
           \/ i \in DOMAIN pending /\ Append(pending, Start(o))[i] = pending[i]
           \/ Append(pending, Start(o))[i] = Start(o)
    BY <1>2
  <2>2. \A i \in DOMAIN pending :
           i \in DOMAIN Append(pending, Start(o)) /\ Append(pending, Start(o))[i] = pending[i]
    BY <1>2
  <2>3. CASE pending' = pending
    BY <2>3 DEF Waiting
  <2>4. CASE pending' = Append(pending, Start(o)) /\ Waits(o) /\ call' = call
    BY <2>1, <2>2, <2>4 DEF Waiting
  <2> QED
    BY <1>3, <2>3, <2>4
<1>5. \/ call' = NoCall
      \/ /\ Waits(o) /\ pending' = pending /\ call'.run = o /\ call'.asks = <<"rolled_back">>
         /\ ~call'.withdraws
  <2>1. <<"rolled_back">> \in Asks /\ <<"rolled_back">> # <<>>
    BY DEF Asks
  <2> DEFINE c == Called(o, <<"rolled_back">>, FALSE)
  <2>2. c.run = o /\ c.asks = <<"rolled_back">> /\ ~c.withdraws
    BY <2>1, CalledIs
  <2>3. call' = NoCall \/ (call' = c /\ Waits(o) /\ pending' = pending)
    BY DEF LinkAndQueue
  <2> HIDE DEF c
  <2> QED
    BY <2>2, <2>3
<1>6. Waits(o) => /\ state[o] = "prepared" /\ o \notin Queued
                  /\ o \notin strays' => ~Attended(o)
  BY DEF Waits, LinkAndQueue
<1>7. CASE r # o
  <2>1. call'.run \in {0, o}
    BY <1>5, CallIs
  <2> QED
    BY <1>1, <1>2, <1>4, <1>7, <2>1, Items, OthersKept
<1>8. CASE r = o
  <2>1. r \in Held => r \in Held'
    BY <1>1, <1>4, HeldIs, Items
  <2>2. ASSUME r \notin strays' PROVE AloneFor(r)'
    <3>1. AloneFor(r) /\ Attended(r)' = Attended(r)
      BY <1>1, <2>2 DEF Alone, Attended
    <3>2. ASSUME NEW item \in Waiting', item.run = r PROVE AloneWaits(item)'
      <4>1. CASE item \in Waiting
        BY <1>1, <3>1, <3>2, <4>1 DEF AloneFor, AloneWaits, Attended, OnlyChild
      <4>2. CASE item = Start(o) /\ Waits(o)
        <5>1. item.mode = "start" /\ state'[item.run] = "prepared" /\ ~Attended(r)
          BY <1>1, <1>2, <1>6, <1>8, <2>2, <4>2
        <5> QED
          BY <3>1, <3>2, <5>1 DEF AloneWaits, Attended
      <4> QED
        BY <1>4, <4>1, <4>2
    <3>3. active'.run = r => AloneActive'
      BY <1>1, <3>1 DEF AloneFor, AloneActive, Attended, OnlyChild, Terminal
    <3>4. call'.run = r => AloneCall'
      <4> SUFFICES ASSUME call'.run = r PROVE AloneCall'
        OBVIOUS
      <4>1. /\ Waits(o) /\ call'.run = o /\ call'.asks = <<"rolled_back">> /\ ~call'.withdraws
            /\ pending' = pending /\ call' # NoCall
        BY <1>5, <1>8, CallIs, Items
      <4>2. LetsGo'
        BY <1>1, <1>6, <4>1 DEF LetsGo, Queued, Pending
      <4>3. ~Attended(o)' /\ Ends(state'[o], call'.asks)
        BY <1>1, <1>6, <1>8, <2>2, <3>1, <4>1 DEF Ends
      <4> QED
        BY <4>1, <4>2, <4>3 DEF AloneCall
    <3> QED
      BY <3>2, <3>3, <3>4 DEF AloneFor
  <2> QED
    BY <2>1, <2>2 DEF Kept
<1> QED
  BY <1>7, <1>8

LEMMA DrainAlone == ASSUME Inv, Alone, Drain, NEW r \in Run PROVE Kept(r)
<1> DEFINE item == Head(pending)
           o == item.run
<1>1. /\ pending # <<>> /\ pending' = Tail(pending) /\ pending \in Seq(Item)
      /\ UNCHANGED <<up, state, call, live, strays>>
      /\ active = NoItem /\ phase = "idle" /\ call = NoCall
  BY DEF Drain, Turn, Inv, TypeOK, kernelVars, childVars, history
<1>2. /\ item \in Item /\ item \in Waiting /\ Distinct(Tail(pending), o)
      /\ \A i \in DOMAIN Tail(pending) :
            i + 1 \in DOMAIN pending /\ Tail(pending)[i] = pending[i + 1]
      /\ o \in Run
  BY <1>1, TailKeeps, DistinctIsOnce, Items DEF Waiting, Inv
<1>3. \/ /\ active' = NoItem /\ phase' = "idle"
         /\ (item.mode = "start" /\ state[o] # "prepared") \/ Terminal(o)
      \/ /\ active' = item
         /\ \/ item.mode = "reattach" /\ phase' = "reattach"
            \/ item.mode = "start" /\ phase' = "routing" /\ state[o] = "prepared"
            \/ item.mode = "redispatch" /\ phase' = "settle"
            \/ item.mode # "reattach" /\ phase' = "begin"
  BY <1>1 DEF Drain, Withdrawn
<1>4. \A w \in Waiting : w = item \/ w \in Waiting'
  <2>1. ASSUME NEW i \in DOMAIN pending, i # 1
        PROVE  i - 1 \in DOMAIN Tail(pending) /\ Tail(pending)[i - 1] = pending[i]
    BY <1>1, <2>1
  <2>2. item = pending[1]
    BY <1>1
  <2> QED
    BY <1>1, <2>1, <2>2 DEF Waiting
<1> HIDE DEF item
<1>5. Waiting' \subseteq Waiting /\ \A w \in Waiting' : w.run # o
  BY <1>1, <1>2 DEF Waiting, Distinct
<1>6. call.run = 0 /\ NoItem.run = 0
  BY <1>1, CallIs, Items
<1>7. CASE r # o
  <2>1. {active.run, active'.run} \subseteq {o, 0}
    BY <1>1, <1>3, <1>6
  <2>2. r # 0
    BY Items
  <2> QED
    BY <1>1, <1>4, <1>5, <1>6, <1>7, <2>1, <2>2, OthersKept
<1>8. CASE r = o
  <2>1. ASSUME r \notin strays PROVE AloneFor(r)'
    <3>1. AloneWaits(item)
      BY <1>2, <1>8, <2>1 DEF Alone, AloneFor
    <3>2. /\ Attended(r)' = Attended(r)
          /\ \A k : OnlyChild(r, k)' = OnlyChild(r, k)
      BY <1>1 DEF Attended, OnlyChild
    <3>3. active'.run = r => AloneActive'
      <4>1. active'.run = r => active' = item
        BY <1>3, <1>6, Items
      <4>2. AloneWaits(item) /\ item.run = r
        BY <1>8, <3>1
      <4>3. /\ item.mode = "start" => state'[r] = "prepared"
            /\ item.mode # "reattach" => ~Attended(r)'
            /\ item.mode = "reattach" => OnlyChild(r, item.child)
        BY <1>1, <3>2, <4>2 DEF AloneWaits
      <4>4. \A k : OnlyChild(r, k) => OnlyChild(r, k)'
        BY <3>2
      <4> SUFFICES ASSUME active'.run = r PROVE AloneActive'
        OBVIOUS
      <4>5. /\ active' = item /\ active'.run = r
            /\ \/ item.mode = "reattach" /\ phase' = "reattach"
               \/ item.mode = "start" /\ phase' = "routing"
               \/ item.mode = "redispatch" /\ phase' = "settle"
               \/ item.mode # "reattach" /\ phase' = "begin"
        BY <1>3, <1>6, <1>8, <4>1, Items
      <4>6. phase' = "reattach" => OnlyChild(r, active.child)'
        BY <1>1, <4>3, <4>5 DEF OnlyChild
      <4> QED
        BY <4>3, <4>5, <4>6 DEF AloneActive, Attended, OnlyChild
    <3>4. call'.run # r
      BY <1>1, <1>6, Items
    <3> QED
      BY <1>5, <1>8, <3>3, <3>4 DEF AloneFor
  <2>2. ASSUME r \notin Held', r \notin strays PROVE Terminal(r)'
    <3>1. AloneWaits(item)
      BY <1>2, <1>8, <2>2 DEF Alone, AloneFor
    <3>2. active' # item
      BY <1>8, <2>2, HeldIs
    <3> QED
      BY <1>1, <1>3, <1>8, <3>1, <3>2 DEF AloneWaits, Terminal
  <2> QED
    BY <1>1, <2>1, <2>2 DEF Kept
<1> QED
  BY <1>7, <1>8

\* The active item goes on, or leaves when its Run is settled.
LEMMA ActiveAlone ==
    ASSUME Inv, Alone, active # NoItem, UNCHANGED <<up, pending, strays>>,
           NEW r \in Run,
           \A o \in Run \ {active.run} :
              /\ state'[o] = state[o]
              /\ \A k \in 1..MaxSpawns : <<o, k>> \in live' => <<o, k>> \in live,
           call' = call \/ {call.run, call'.run} \subseteq {active.run, 0},
           call # NoCall /\ call.run # active.run => UNCHANGED <<active, phase>>,
           active'.run \in {active.run, 0},
           active'.run = 0 => call' = NoCall,
           active.run \notin strays =>
              /\ active'.run # 0 => AloneActive'
              /\ active'.run = 0 => state'[active.run] \in Lifecycle!TerminalStates
              /\ call'.run = active.run => AloneCall'
    PROVE  Kept(r)
<1>1. /\ active.run \in Run /\ active.run # 0 /\ r # 0
      /\ \A item \in Waiting : item.run # active.run
      /\ Waiting' = Waiting
  BY ActiveApart, Items DEF Waiting
<1>2. CASE r # active.run
  <2>1. /\ active' = active \/ {active.run, active'.run} \subseteq {active.run, 0}
        /\ active.run # r /\ strays \subseteq strays'
    BY <1>2
  <2>2. call'.run = r => (phase = "settle" <=> phase' = "settle")
    BY <1>1, <1>2, CallIs
  <2> QED
    BY <1>1, <1>2, <2>1, <2>2, OthersKept
<1>3. CASE r = active.run
  <2>1. r \notin strays => AloneFor(r)'
    BY <1>1, <1>3 DEF AloneFor
  <2>2. r \notin Held' => active'.run = 0
    BY <1>1, <1>3, HeldIs
  <2> QED
    BY <1>3, <2>1, <2>2 DEF Kept, Terminal
<1> QED
  BY <1>2, <1>3

\* What Alone says of the active item and of the call.
LEMMA ActiveFor ==
    ASSUME Inv, Alone, active # NoItem, active.run \notin strays
    PROVE  AloneActive /\ (call.run = active.run => AloneCall)
BY ActiveApart DEF Alone, AloneFor

LEMMA ResolveAlone ==
    ASSUME Inv, Alone, NEW refused \in BOOLEAN, Resolve(refused), NEW r \in Run PROVE Kept(r)
<1>1. /\ call = NoCall /\ phase = "routing" /\ active # NoItem /\ active.run \in Run
      /\ UNCHANGED <<up, state, pending, active, live, strays>>
      /\ active.run # 0 /\ NoCall.run = 0
  BY ActiveApart, CallIs, Items DEF Resolve, Turn, childVars, history, Inv, TypeOK
<1>2. \/ phase' = "begin" /\ call' = NoCall
      \/ /\ phase' = "settle"
         /\ call'.run = active.run /\ call'.asks = <<"rolled_back">> /\ ~call'.withdraws
  <2>1. <<"rolled_back">> \in Asks /\ <<"rolled_back">> # <<>>
    BY DEF Asks
  <2> DEFINE c == Called(active.run, <<"rolled_back">>, FALSE)
  <2>2. c.run = active.run /\ c.asks = <<"rolled_back">> /\ ~c.withdraws
    BY <1>1, <2>1, CalledIs
  <2>3. (phase' = "begin" /\ call' = call) \/ (phase' = "settle" /\ call' = c)
    BY DEF Resolve
  <2> HIDE DEF c
  <2> QED
    BY <1>1, <2>2, <2>3
<1>3. ASSUME active.run \notin strays
      PROVE  AloneActive' /\ (call'.run = active.run => AloneCall')
  <2>1. state[active.run] = "prepared" /\ ~Attended(active.run)
    BY <1>1, <1>3, ActiveFor DEF AloneActive
  <2>2. ~Attended(active.run)'
    BY <1>1, <2>1 DEF Attended
  <2>3. AloneActive'
    BY <1>1, <1>2, <2>2 DEF AloneActive
  <2>4. ASSUME call'.run = active.run PROVE AloneCall'
    <3>1. /\ phase' = "settle" /\ call'.run = active.run /\ call'.asks = <<"rolled_back">>
          /\ ~call'.withdraws /\ call' # NoCall
      BY <1>1, <1>2, <2>4
    <3> QED
      BY <1>1, <2>1, <2>2, <3>1 DEF AloneCall, LetsGo, Ends, Attended
  <2> QED
    BY <2>3, <2>4
<1> QED
  BY <1>1, <1>2, <1>3, ActiveAlone

LEMMA RoutingCancelledAlone ==
    ASSUME Inv, Alone, RoutingCancelled, NEW r \in Run PROVE Kept(r)
<1>1. /\ call = NoCall /\ phase = "routing" /\ active # NoItem /\ active.run \in Run
      /\ phase' = "settle"
      /\ UNCHANGED <<up, state, pending, active, call, live, strays>>
      /\ active.run # 0 /\ NoCall.run = 0
  BY ActiveApart, CallIs, Items
     DEF RoutingCancelled, Turn, kernelVars, childVars, history, Inv, TypeOK
<1>2. ASSUME active.run \notin strays PROVE AloneActive'
  <2>1. ~Attended(active.run)
    BY <1>1, <1>2, ActiveFor DEF AloneActive
  <2> QED
    BY <1>1, <2>1 DEF AloneActive, Attended
<1> QED
  BY <1>1, <1>2, ActiveAlone

LEMMA SpawnAlone == ASSUME Inv, Alone, Spawn, NEW r \in Run PROVE Kept(r)
<1> DEFINE k == spawned[active.run] + 1
<1>1. /\ active \in Item /\ active # NoItem /\ active.run \in Run /\ phase = "begin"
      /\ phase' = "spawned" /\ live' = live \cup {<<active.run, k>>}
      /\ active' = [active EXCEPT !.child = k, !.attempt = Len(started[active.run]) + 1]
      /\ UNCHANGED <<up, state, pending, call, strays>> /\ call = NoCall
      /\ active.run # 0 /\ NoCall.run = 0
  BY ActiveApart, CallIs, Items DEF Spawn, kernelVars, history, Inv, TypeOK, CallWell
<1> HIDE DEF k
<1>2. active'.run = active.run /\ active'.child = k
  BY <1>1 DEF Item
<1>3. ASSUME active.run \notin strays PROVE AloneActive'
  <2>1. ~Attended(active.run)
    BY <1>1, <1>3, ActiveFor DEF AloneActive
  <2>2. \A n \in 1..MaxSpawns : <<active.run, n>> \in live' => n = k
    BY <1>1, <2>1 DEF Attended
  <2> QED
    BY <1>1, <1>2, <2>2 DEF AloneActive, OnlyChild
<1>4. \A o \in Run \ {active.run} :
         /\ state'[o] = state[o]
         /\ \A n \in 1..MaxSpawns : <<o, n>> \in live' => <<o, n>> \in live
  BY <1>1
<1> QED
  BY <1>1, <1>2, <1>3, <1>4, ActiveAlone

LEMMA JournalStartAlone == ASSUME Inv, Alone, JournalStart, NEW r \in Run PROVE Kept(r)
<1>1. /\ active # NoItem /\ active.run \in Run /\ phase = "spawned" /\ phase' = "child"
      /\ UNCHANGED <<up, state, pending, active, call, live, strays>> /\ call = NoCall
      /\ active.run # 0 /\ NoCall.run = 0
  BY ActiveApart, CallIs, Items DEF JournalStart, childVars, history, Inv, TypeOK, CallWell
<1>2. ASSUME active.run \notin strays PROVE AloneActive'
  <2>1. OnlyChild(active.run, active.child)
    BY <1>1, <1>2, ActiveFor DEF AloneActive
  <2> QED
    BY <1>1, <2>1 DEF AloneActive, OnlyChild
<1> QED
  BY <1>1, <1>2, ActiveAlone

LEMMA ExitSeenAlone == ASSUME Inv, Alone, ExitSeen, NEW r \in Run PROVE Kept(r)
<1>1. /\ active # NoItem /\ active.run \in Run /\ phase' = "settle"
      /\ phase \in {"child", "reattach"} /\ (~Alive(active) \/ Terminal(active.run))
      /\ UNCHANGED <<up, state, pending, active, call, live, strays>> /\ call = NoCall
      /\ active.run # 0 /\ NoCall.run = 0
  BY ActiveApart, CallIs, Items DEF ExitSeen, Turn, Over, childVars, history, Inv, TypeOK
<1>2. ASSUME active.run \notin strays PROVE AloneActive'
  <2>1. OnlyChild(active.run, active.child)
    BY <1>1, <1>2, ActiveFor DEF AloneActive
  <2>2. ~Attended(active.run) \/ Terminal(active.run)
    BY <1>1, <2>1 DEF Attended, OnlyChild, Alive
  <2> QED
    BY <1>1, <2>2 DEF AloneActive, Attended, Terminal
<1> QED
  BY <1>1, <1>2, ActiveAlone

LEMMA SettleAlone == ASSUME Inv, Alone, Settle, NEW r \in Run PROVE Kept(r)
<1> DEFINE a == active.run
           asks == AfterExit(state[a], active.cancel)
           c == Called(a, asks, FALSE)
<1>1. /\ phase = "settle" /\ call = NoCall /\ active # NoItem
      /\ a \in Run /\ a # 0 /\ state[a] \in Reached /\ state[a] # Unknown
      /\ active.cancel \in BOOLEAN /\ NoCall.run = 0
  <2>1. phase = "settle" /\ active # NoItem
    BY DEF Settle, Inv, TypeOK
  <2> QED
    BY <2>1, ActiveApart, CallIs, Items DEF Settle
<1>2. /\ UNCHANGED <<up, state, pending, live, strays>>
      /\ LeaveIfOver /\ call' = c
  BY DEF Settle, kernelVars, childVars, history
<1>3. /\ asks \in Asks
      /\ asks = <<>> => state[a] \in Lifecycle!TerminalStates
      /\ asks # <<>> => Ends(state[a], asks)
  BY <1>1, AsksOf, EndsOf
<1> HIDE DEF asks
<1>4. /\ asks = <<>> => c = NoCall
      /\ asks # <<>> => c # NoCall /\ c.run = a /\ c.asks = asks /\ ~c.withdraws
  <2>1. a \in Run /\ asks \in Asks /\ FALSE \in BOOLEAN
    BY <1>1, <1>3
  <2> HIDE DEF a
  <2> QED
    BY <2>1, CalledIs
<1> HIDE DEF c
<1>5. \/ asks # <<>> /\ active' = active /\ phase' = "settle"
      \/ asks = <<>> /\ active' = NoItem
  BY <1>1, <1>2, <1>4 DEF LeaveIfOver, Leave
<1>6. NoItem.run = 0
  BY Items
<1>7. ASSUME a \notin strays, asks # <<>> PROVE AloneActive' /\ AloneCall'
  <2>1. ~Attended(a) \/ Terminal(a)
    BY <1>1, <1>7, ActiveFor DEF AloneActive
  <2>2. AloneActive'
    BY <1>2, <1>5, <1>7, <2>1 DEF AloneActive, Attended, Terminal
  <2>3. ~Terminal(a)
    BY <1>3, <1>7, States DEF Ends, Terminal, Lifecycle!TerminalStates
  <2>4. LetsGo'
    BY <1>2, <1>4, <1>5, <1>7 DEF LetsGo
  <2>5. ~Attended(a)
    BY <2>1, <2>3
  <2>6. AloneCall'
    BY <1>2, <1>3, <1>4, <1>7, <2>4, <2>5 DEF AloneCall, Attended
  <2> QED
    BY <2>2, <2>6
<1>8. \A o \in Run \ {active.run} :
         /\ state'[o] = state[o]
         /\ \A n \in 1..MaxSpawns : <<o, n>> \in live' => <<o, n>> \in live
  BY <1>2
<1>9. {call.run, call'.run} \subseteq {active.run, 0} /\ (active'.run = 0 => call' = NoCall)
  BY <1>1, <1>2, <1>4, <1>5
<1>10. active'.run \in {active.run, 0}
  BY <1>5, <1>6
<1>11. a \notin strays =>
         /\ active'.run # 0 => AloneActive'
         /\ active'.run = 0 => state'[a] \in Lifecycle!TerminalStates
         /\ call'.run = a => AloneCall'
  BY <1>1, <1>2, <1>3, <1>4, <1>5, <1>6, <1>7
<1> QED
  BY <1>1, <1>2, <1>8, <1>9, <1>10, <1>11, ActiveAlone

LEMMA CancelActiveAlone == ASSUME Inv, Alone, CancelActive, NEW r \in Run PROVE Kept(r)
<1> DEFINE a == active.run
           asks == Requested(state[a])
           c == Called(a, asks, FALSE)
<1>1. /\ active \in Item /\ active # NoItem /\ a \in Run /\ a # 0 /\ state[a] \in Reached
      /\ call = NoCall /\ phase # "settle"
      /\ UNCHANGED <<up, state, pending, phase, live, strays>> /\ call' = c
      /\ active' = [active EXCEPT !.cancel = TRUE] /\ NoCall.run = 0
  BY ActiveApart, CallIs, Items DEF CancelActive, Turn, kernelVars, childVars
<1>2. active'.run = a /\ active'.child = active.child
  BY <1>1, Noted
<1>3. asks \in Asks /\ asks \in {<<>>, <<"cancelling">>}
  BY <1>1, AsksOf DEF Requested
<1> HIDE DEF asks
<1>4. c = NoCall \/ (c.run = a /\ c.asks = asks /\ ~c.withdraws)
  BY <1>1, <1>3, CalledIs
<1> HIDE DEF c
<1>5. ASSUME a \notin strays PROVE AloneActive' /\ (call'.run = a => AloneCall')
  <2>1. AloneActive
    BY <1>1, <1>5, ActiveFor
  <2>2. AloneActive'
    BY <1>1, <1>2, <2>1 DEF AloneActive, Attended, OnlyChild, Terminal
  <2>3. ASSUME call'.run = a PROVE AloneCall'
    <3>1. call'.asks = asks /\ ~call'.withdraws
      BY <1>1, <1>4, <2>3
    <3>2. a \in Queued'
      BY <1>1, <1>2, QueuedIs
    <3>3. ~LetsGo'
      BY <1>1, <2>3, <3>2 DEF LetsGo
    <3> QED
      BY <1>3, <3>1, <3>3 DEF AloneCall
  <2> QED
    BY <2>2, <2>3
<1> QED
  BY <1>1, <1>2, <1>4, <1>5, ActiveAlone

LEMMA WithdrawAlone == ASSUME Inv, Alone, Withdraw, NEW r \in Run PROVE Kept(r)
<1> DEFINE o == call.run
           asks == Cancelled(state[o])
           c == Called(o, asks, FALSE)
<1>1. /\ call.withdraws /\ call # NoCall /\ o \in Run /\ o # 0 /\ state[o] # Unknown
      /\ state[o] \in Reached /\ phase # "settle"
  <2>1. call.withdraws /\ call # NoCall /\ call \in Calls
    BY CallIs DEF Withdraw, Inv, TypeOK
  <2>2. o \in Run
    BY <2>1, CallIs
  <2> QED
    BY <2>1, <2>2, Items DEF Inv, CallWell, Followed
<1>2. PICK n \in DOMAIN pending : pending[n].run = o /\ pending' = RemoveAt(pending, n)
  BY DEF Withdraw
<1>3. UNCHANGED <<up, state, active, phase, live, strays>> /\ call' = c
  BY DEF Withdraw, kernelVars, childVars, history
<1>4. /\ pending \in Seq(Item) /\ Distinct(pending, active.run)
      /\ \A i \in DOMAIN pending' : \E j \in DOMAIN pending : j # n /\ pending'[i] = pending[j]
      /\ \A j \in DOMAIN pending : j # n => \E i \in DOMAIN pending' : pending'[i] = pending[j]
  <2>1. pending \in Seq(Item) /\ Distinct(pending, active.run)
    BY DistinctIsOnce DEF Inv, TypeOK
  <2> QED
    BY <1>2, <2>1, RemoveKeeps
<1>5. /\ asks \in Asks
      /\ asks = <<>> => state[o] \in Lifecycle!TerminalStates
      /\ asks # <<>> => Ends(state[o], asks)
  BY <1>1, AsksOf, EndsOf
<1> HIDE DEF asks
<1>6. /\ asks = <<>> => c = NoCall
      /\ asks # <<>> => c # NoCall /\ c.run = o /\ c.asks = asks /\ ~c.withdraws
  BY <1>1, <1>5, CalledIs
<1> HIDE DEF c
<1>7. /\ \A item \in Waiting' : item \in Waiting /\ item.run # o
      /\ \A item \in Waiting : item.run # o => item \in Waiting'
      /\ active.run # o
  <2>1. \A i \in DOMAIN pending : i # n => pending[i].run # o
    BY <1>2, <1>4 DEF Distinct
  <2>2. active.run # o
    BY <1>2, <1>4 DEF Distinct
  <2> HIDE DEF o
  <2> QED
    BY <1>2, <1>4, <2>1, <2>2 DEF Waiting
<1>8. call'.run \in {0, o}
  BY <1>3, <1>6, CallIs
<1>9. CASE r # o
  BY <1>1, <1>3, <1>7, <1>8, <1>9, OthersKept
<1>10. CASE r = o
  <2>1. ASSUME r \notin strays PROVE ~Attended(r)
    <3>1. AloneFor(r) /\ pending[n] \in Waiting
      BY <2>1 DEF Alone, Waiting
    <3>2. pending[n].mode # "reattach" /\ AloneWaits(pending[n])
      BY <1>1, <1>2, <1>10, <3>1 DEF AloneFor, AloneCall
    <3> QED
      BY <1>2, <1>10, <3>2 DEF AloneWaits
  <2>2. ASSUME r \notin strays, call'.run = r PROVE AloneCall'
    <3>1. asks # <<>> /\ call'.asks = asks /\ ~call'.withdraws /\ call' # NoCall
      BY <1>3, <1>6, <2>2, CallIs, Items
    <3>2. r \notin Queued'
      BY <1>3, <1>7, <1>10, QueuedIs
    <3>3. LetsGo'
      BY <2>2, <3>1, <3>2 DEF LetsGo
    <3>4. ~Attended(r)' /\ Ends(state'[r], asks)
      BY <1>3, <1>5, <1>10, <2>1, <2>2, <3>1 DEF Attended
    <3> QED
      BY <2>2, <3>1, <3>3, <3>4 DEF AloneCall
  <2>3. ASSUME r \notin Held' PROVE Terminal(r)'
    <3>1. call'.run # r
      BY <2>3, HeldIs
    <3>2. asks = <<>>
      BY <1>3, <1>6, <1>10, <3>1
    <3> QED
      BY <1>3, <1>5, <1>10, <3>2 DEF Terminal
  <2> QED
    BY <1>3, <1>7, <1>10, <2>2, <2>3 DEF Kept, AloneFor
<1> QED
  BY <1>9, <1>10

LEMMA TransitionAlone == ASSUME Inv, Alone, Transition, NEW r \in Run PROVE Kept(r)
<1> DEFINE o == call.run
           to == Head(call.asks)
           rest == Tail(call.asks)
           c == Called(o, rest, call.withdraws)
<1>1. /\ call.asks # <<>> /\ call # NoCall /\ o \in Run /\ o # 0
      /\ call.withdraws \in BOOLEAN /\ call.asks \in Asks
      /\ phase = "settle" => o = active.run /\ ~call.withdraws
      /\ state[o] = "prepared" => call.asks = <<"rolled_back">>
  <2>1. call.asks # <<>> /\ call # NoCall
    BY CallIs DEF Transition
  <2>2. o \in Run /\ call.withdraws \in BOOLEAN
    BY <2>1, CallIs DEF Inv, TypeOK
  <2> QED
    BY <2>1, <2>2, Items DEF Inv, CallWell
<1>2. /\ UNCHANGED <<up, pending, live, strays>> /\ LeaveIfOver
      /\ Waiting' = Waiting
  BY DEF Transition, childVars, history, Waiting
<1>3. \/ state' = [state EXCEPT ![o] = to] /\ call' = c
      \/ state' = state /\ ~Lifecycle!CanTransition(state[o], to) /\ call' = NoCall
  BY DEF Transition
<1>4. rest \in Asks
  BY <1>1, AskValues DEF Asks
<1>5. /\ c = NoCall \/ (c.run = o /\ c.asks = rest /\ c.withdraws = call.withdraws)
      /\ rest = <<>> /\ ~call.withdraws => c = NoCall
      /\ c = NoCall => rest = <<>>
  <2> HIDE DEF o, rest
  <2> QED
    BY <1>1, <1>4, CalledIs
<1>6. /\ \A q \in Run \ {o} : state'[q] = state[q]
      /\ state' = [state EXCEPT ![o] = to] => state'[o] = to
  BY <1>1, <1>3 DEF Inv, TypeOK
<1>7. call.asks = <<"cancelling">> => rest = <<>>
  OBVIOUS
<1>8. o \notin strays => AloneFor(o)
  BY <1>1 DEF Alone
<1>9. Ends(state[o], call.asks) =>
         /\ state' = [state EXCEPT ![o] = to] /\ call' = c
         /\ rest # <<>> => Ends(state'[o], rest)
         /\ rest = <<>> => state'[o] \in Lifecycle!TerminalStates
  BY <1>1, <1>3, <1>6, EndsOn
<1> HIDE DEF to, rest, c
<1>10. \/ active' = active /\ phase' = phase
       \/ active' = NoItem /\ phase' = "idle" /\ call' = NoCall /\ phase = "settle"
  BY <1>2 DEF LeaveIfOver, Leave
<1>11. NoItem.run = 0 /\ NoCall.run = 0 /\ NoCall.asks = <<>> /\ ~NoCall.withdraws
  BY Items, CallIs
<1>12. CASE r # o
  <2>1. {call.run, call'.run} \subseteq {o, 0}
    BY <1>3, <1>5, <1>11
  <2>2. active' = active \/ {active.run, active'.run} \subseteq {o, 0}
    BY <1>1, <1>10, <1>11
  <2>3. r # 0
    BY Items
  <2>4. active' = active /\ active.run = r => phase' = phase
    BY <1>10, <1>11, <2>3
  <2>5. call'.run # r /\ o # r /\ state'[r] = state[r]
    BY <1>6, <1>12, <2>1, <2>3
  <2>6. call' = call \/ {call.run, call'.run} \subseteq {o, 0}
    BY <2>1
  <2> HIDE DEF o
  <2> QED
    BY <1>2, <2>2, <2>4, <2>5, <2>6, OthersKept
<1>13. CASE r = o /\ LetsGo /\ r \notin strays
  <2>1. ~Attended(r) /\ Ends(state[r], call.asks) /\ ~call.withdraws
    BY <1>8, <1>13 DEF AloneFor, AloneCall
  <2>2. /\ state' = [state EXCEPT ![o] = to] /\ call' = c
        /\ rest # <<>> => Ends(state'[r], rest)
        /\ rest = <<>> => state'[r] \in Lifecycle!TerminalStates
    BY <1>9, <1>13, <2>1
  <2>3. phase = "settle" \/ r \notin Queued
    BY <1>13 DEF LetsGo
  <2>4. \A item \in Waiting : item.run # r
    <3>1. CASE phase = "settle"
      <4>1. active # NoItem /\ r = active.run
        BY <1>1, <1>11, <1>13, <3>1
      <4> QED
        BY <4>1, ActiveApart
    <3>2. CASE r \notin Queued
      BY <3>2, QueuedIs
    <3> QED
      BY <2>3, <3>1, <3>2
  <2>5. active'.run = r => AloneActive'
    <3>1. r \notin Queued => active.run # r
      BY QueuedIs
    <3>2. active'.run = r => active' = active /\ phase' = "settle"
      BY <1>1, <1>10, <1>11, <1>13, <2>3, <3>1
    <3> QED
      BY <1>2, <2>1, <3>2 DEF AloneActive, Attended
  <2>6. call'.run = r => AloneCall'
    <3> SUFFICES ASSUME call'.run = r PROVE AloneCall'
      OBVIOUS
    <3>1. call' # NoCall /\ call'.asks = rest /\ call'.withdraws = call.withdraws
      BY <1>1, <1>5, <1>11, <1>13, <2>2
    <3>2. active' = active /\ phase' = phase
      BY <1>10, <3>1
    <3>3. LetsGo'
      BY <1>2, <2>3, <3>1, <3>2, QueuedIs DEF LetsGo
    <3>4. rest # <<>>
      BY <1>5, <2>1, <2>2, <3>1
    <3>5. Ends(state'[r], rest) /\ ~Attended(r)' /\ ~call'.withdraws
      BY <1>2, <2>1, <2>2, <3>1, <3>4 DEF Attended
    <3> QED
      BY <3>1, <3>3, <3>5 DEF AloneCall
  <2>7. r \notin Held' => Terminal(r)'
    <3>1. r \notin Held' => call'.run # r
      BY HeldIs
    <3>2. call'.run # r => rest = <<>>
      BY <1>5, <1>13, <2>2
    <3> QED
      BY <2>2, <3>1, <3>2 DEF Terminal
  <2> QED
    BY <1>2, <2>4, <2>5, <2>6, <2>7 DEF Kept, AloneFor
<1>14. CASE r = o /\ ~LetsGo
  <2>1. r \in Queued /\ phase # "settle"
    BY <1>1, <1>14 DEF LetsGo
  <2>2. active' = active /\ phase' = phase
    BY <1>10, <2>1
  <2>3. r \in Queued' /\ r \in Held'
    <3>1. r \in Queued'
      BY <1>2, <2>1, <2>2, QueuedIs
    <3> QED
      BY <3>1 DEF Held
  <2>4. ASSUME r \notin strays PROVE AloneFor(r)'
    <3>1. AloneFor(r) /\ AloneCall
      BY <1>8, <1>14, <2>4 DEF AloneFor
    <3>2. call.asks = <<"cancelling">> /\ rest = <<>>
      BY <1>1, <1>7, <1>14, <3>1 DEF AloneCall
    <3>3. state[r] # "prepared"
      <4>1. <<"cancelling">> # <<"rolled_back">>
        OBVIOUS
      <4> QED
        BY <1>1, <1>14, <3>2, <4>1
    <3>4. Attended(r)' = Attended(r) /\ \A k : OnlyChild(r, k) => OnlyChild(r, k)'
      BY <1>2 DEF Attended, OnlyChild
    <3>5. \A item \in Waiting' : item.run = r => AloneWaits(item)'
      BY <1>2, <3>1, <3>3, <3>4 DEF AloneFor, AloneWaits
    <3>6. active'.run = r => AloneActive'
      BY <2>1, <2>2, <3>1, <3>3, <3>4 DEF AloneFor, AloneActive
    <3>7. call'.run = r => AloneCall'
      <4> SUFFICES ASSUME call'.run = r PROVE AloneCall'
        OBVIOUS
      <4>1. call'.asks = <<>> /\ call'.withdraws = call.withdraws
        BY <1>1, <1>3, <1>5, <1>11, <1>14, <3>2
      <4>2. ~LetsGo'
        BY <2>1, <2>2, <2>3 DEF LetsGo
      <4> QED
        BY <1>2, <1>14, <3>1, <4>1, <4>2 DEF AloneCall
    <3> QED
      BY <3>5, <3>6, <3>7 DEF AloneFor
  <2> QED
    BY <1>2, <2>3, <2>4 DEF Kept
<1>15. CASE r = o /\ r \in strays
  BY <1>2, <1>15 DEF Kept
<1> QED
  BY <1>12, <1>13, <1>14, <1>15

LEMMA CancelPendingAlone ==
    ASSUME Inv, Alone, NEW n \in DOMAIN pending, CancelPending(n), NEW r \in Run PROVE Kept(r)
<1> DEFINE item == pending[n]
           o == item.run
<1>1. /\ pending \in Seq(Item) /\ item \in Item /\ item \in Waiting /\ o \in Run
      /\ o # active.run /\ Distinct(pending, active.run) /\ o # 0
      /\ state[o] \in Reached /\ NoCall.run = 0
  <2>1. /\ pending \in Seq(Item) /\ item \in Item /\ item \in Waiting
        /\ Distinct(pending, active.run)
    BY DistinctIsOnce DEF Inv, TypeOK, Waiting
  <2>2. item.run # active.run
    BY <2>1 DEF Distinct
  <2> QED
    BY <2>1, <2>2, Items, CallIs DEF Inv, Followed
<1>2. /\ UNCHANGED <<up, state, active, phase, live, strays>> /\ call = NoCall
      /\ phase # "settle"
  BY DEF CancelPending, Turn, kernelVars, childVars
<1>3. o \notin strays => AloneWaits(item)
  BY <1>1 DEF Alone, AloneFor
<1>4. CASE item.mode = "start"
  <2>1. pending' = RemoveAt(pending, n) /\ call' = Called(o, <<"rolled_back">>, FALSE)
    BY <1>4 DEF CancelPending
  <2>2. /\ \A i \in DOMAIN pending' : \E j \in DOMAIN pending : j # n /\ pending'[i] = pending[j]
        /\ \A j \in DOMAIN pending : j # n => \E i \in DOMAIN pending' : pending'[i] = pending[j]
    BY <1>1, <2>1, RemoveKeeps
  <2>3. <<"rolled_back">> \in Asks /\ <<"rolled_back">> # <<>>
    BY DEF Asks
  <2> DEFINE c == Called(o, <<"rolled_back">>, FALSE)
  <2>4. c # NoCall /\ c.run = o /\ c.asks = <<"rolled_back">> /\ ~c.withdraws
    <3> HIDE DEF o
    <3> QED
      BY <1>1, <2>3, CalledIs
  <2>5. call' = c
    BY <2>1
  <2>6. /\ \A w \in Waiting' : w \in Waiting /\ w.run # o
        /\ \A w \in Waiting : w.run # o => w \in Waiting'
    <3>1. \A i \in DOMAIN pending : i # n => pending[i].run # o
      BY <1>1 DEF Distinct
    <3>2. pending[n].run = o
      OBVIOUS
    <3> HIDE DEF o, item
    <3> QED
      BY <2>2, <3>1, <3>2 DEF Waiting
  <2> HIDE DEF c
  <2>7. CASE r # o
    <3>1. {call.run, call'.run} \subseteq {o, 0} /\ call'.run # r
      BY <1>1, <1>2, <2>4, <2>5, <2>7
    <3> HIDE DEF o
    <3> QED
      BY <1>2, <2>6, <2>7, <3>1, OthersKept
  <2>8. CASE r = o
    <3>1. call' # NoCall /\ call'.run = r /\ call'.asks = <<"rolled_back">> /\ ~call'.withdraws
      BY <2>4, <2>5, <2>8
    <3>2. r \in Held' /\ r \notin Queued'
      BY <1>1, <1>2, <2>6, <2>8, <3>1, HeldIs, QueuedIs
    <3>3. ASSUME r \notin strays PROVE AloneCall'
      <4>1. state[r] = "prepared" /\ ~Attended(r)
        BY <1>3, <1>4, <2>8, <3>3 DEF AloneWaits
      <4>2. LetsGo'
        BY <3>1, <3>2 DEF LetsGo
      <4>3. ~Attended(r)' /\ Ends(state'[r], call'.asks)
        BY <1>2, <3>1, <4>1 DEF Attended, Ends
      <4> QED
        BY <3>1, <4>2, <4>3 DEF AloneCall
    <3> HIDE DEF o, item
    <3> QED
      BY <1>1, <1>2, <2>6, <2>8, <3>2, <3>3 DEF Kept, AloneFor
  <2> QED
    BY <2>7, <2>8
<1>5. CASE item.mode # "start"
  <2> DEFINE noted == [item EXCEPT !.cancel = TRUE]
             asks == Requested(state[o])
             withdraws == item.mode = "redispatch"
             c == Called(o, asks, withdraws)
  <2>1. pending' = [pending EXCEPT ![n] = noted] /\ call' = c
    BY <1>5 DEF CancelPending
  <2>2. noted \in Item /\ noted.run = o /\ noted.mode = item.mode /\ noted.child = item.child
    BY <1>1, Noted
  <2>3. asks \in Asks /\ asks \in {<<>>, <<"cancelling">>} /\ withdraws \in BOOLEAN
    BY <1>1, AsksOf DEF Requested
  <2>4. withdraws => noted.mode # "reattach"
    BY <2>2
  <2> HIDE DEF asks, withdraws
  <2>5. c = NoCall \/ (c.run = o /\ c.asks = asks /\ c.withdraws = withdraws)
    BY <1>1, <2>3, CalledIs
  <2> HIDE DEF c, noted
  <2>6. /\ DOMAIN pending' = DOMAIN pending /\ pending'[n] = noted
        /\ \A i \in DOMAIN pending : i # n => pending'[i] = pending[i]
    BY <1>1, <2>1
  <2>7. /\ \A w \in Waiting' : w = noted \/ (w \in Waiting /\ w.run # o)
        /\ \A w \in Waiting : w.run # o => w \in Waiting'
        /\ noted \in Waiting'
    <3>1. \A i \in DOMAIN pending : i # n => pending[i].run # o
      BY <1>1 DEF Distinct
    <3>2. pending[n].run = o
      OBVIOUS
    <3> HIDE DEF o, item
    <3> QED
      BY <2>6, <3>1, <3>2 DEF Waiting
  <2>8. CASE r # o
    <3>1. {call.run, call'.run} \subseteq {o, 0} /\ call'.run # r
      <4>1. r # 0
        BY Items
      <4> QED
        BY <1>1, <1>2, <2>1, <2>5, <2>8, <4>1
    <3> HIDE DEF o
    <3> QED
      BY <1>2, <2>2, <2>7, <2>8, <3>1, OthersKept
  <2>9. CASE r = o
    <3> HIDE DEF o, item
    <3>1. r \in Held' /\ r \in Queued'
      BY <2>2, <2>7, <2>9, HeldIs, QueuedIs
    <3>2. ASSUME r \notin strays PROVE AloneFor(r)'
      <4>1. AloneWaits(item)
        BY <1>3, <2>9, <3>2
      <4>2. \A w \in Waiting' : w.run = r => w = noted
        BY <2>7, <2>9
      <4>3. ASSUME NEW w \in Waiting', w.run = r PROVE AloneWaits(w)'
        <5>1. w.run = item.run /\ w.mode = item.mode /\ w.child = item.child
          BY <2>2, <2>9, <4>2, <4>3 DEF o
        <5>2. r = item.run
          BY <2>9 DEF o
        <5>3. Attended(r)' = Attended(r)
          BY <1>2 DEF Attended
        <5>4. \A k : OnlyChild(r, k) => OnlyChild(r, k)'
          BY <1>2 DEF OnlyChild
        <5>5. /\ w.mode = "start" => state'[w.run] = "prepared"
              /\ w.mode # "reattach" => ~Attended(w.run)'
              /\ w.mode = "reattach" => OnlyChild(w.run, w.child)'
          BY <1>2, <4>1, <4>3, <5>1, <5>2, <5>3, <5>4 DEF AloneWaits
        <5> QED
          BY <5>5 DEF AloneWaits
      <4>4. call'.run = r => AloneCall'
        <5> SUFFICES ASSUME call'.run = r PROVE AloneCall'
          OBVIOUS
        <5>1. call'.asks = asks /\ call'.withdraws = withdraws
          BY <1>1, <2>1, <2>5, <2>9
        <5>2. ~LetsGo'
          BY <1>2, <3>1 DEF LetsGo
        <5>3. call'.withdraws => \A w \in Waiting' : w.run = call'.run => w.mode # "reattach"
          BY <2>4, <4>2, <5>1
        <5> QED
          BY <2>3, <5>1, <5>2, <5>3 DEF AloneCall
      <4>5. active'.run # r
        BY <1>1, <1>2, <2>9
      <4> QED
        BY <4>3, <4>4, <4>5 DEF AloneFor
    <3> QED
      BY <1>2, <3>1, <3>2 DEF Kept
  <2> QED
    BY <2>8, <2>9
<1> QED
  BY <1>4, <1>5


\* Nothing changes but that a child may end.
LEMMA QuietAlone ==
    ASSUME Alone, UNCHANGED <<state, pending, active, phase, call, strays>>,
           live' \subseteq live, NEW r \in Run
    PROVE  Kept(r)
<1>1. Waiting' = Waiting /\ Held' = Held /\ (LetsGo' <=> LetsGo)
  BY DEF Waiting, Held, Queued, Pending, LetsGo
<1>2. AloneFor(r) => AloneFor(r)'
  <2> SUFFICES ASSUME AloneFor(r) PROVE AloneFor(r)'
    OBVIOUS
  <2> QED
    BY <1>1, AloneFrame
<1> QED
  BY <1>1, <1>2 DEF Kept, Alone

\* Nothing is in memory.
LEMMA EmptyAlone ==
    ASSUME pending' = <<>>, active' = NoItem, call' = NoCall, ~up' \/ Held = {}, NEW r \in Run
    PROVE  Kept(r)
BY Items, CallIs DEF Kept, AloneFor, Waiting

LEMMA DownHolds == ASSUME Inv, ~up PROVE Held = {}
<1>1. active = NoItem /\ pending = <<>> /\ call = NoCall
  BY DEF Inv, Down
<1> QED
  BY <1>1, Items, CallIs DEF Held, Queued, Pending

LEMMA DiesAlone == ASSUME Dies, NEW r \in Run PROVE Kept(r)
BY EmptyAlone DEF Dies, Leave

LEMMA CloseDeadAlone ==
    ASSUME Inv, NEW o \in Run, CloseDead(o), NEW r \in Run PROVE Kept(r)
<1>1. Held = {} /\ active = NoItem /\ pending = <<>> /\ call = NoCall
  BY DownHolds DEF CloseDead, Inv, Down
<1> QED
  BY <1>1, EmptyAlone DEF CloseDead, queueVars

LEMMA BootsAlone ==
    ASSUME Inv, NEW available \in BOOLEAN, Boots(available), NEW r \in Run PROVE Kept(r)
<1>1. /\ Held = {} /\ active' = NoItem /\ call' = NoCall /\ strays' = Strays(available)
      /\ UNCHANGED <<state, live>>
  BY DownHolds DEF Boots, kernelVars, childVars, Inv, Down
<1>2. ASSUME NEW item \in Waiting', item.run = r, r \notin strays'
      PROVE  AloneWaits(item)'
  <2>1. PICK q \in Recoverable(available) : item = Recovered(q)
    BY DEF Boots, Waiting
  <2>2. q \in Run /\ item.run = q
    BY <2>1, Items DEF Recoverable, Recovered, Adopted
  <2>3. r \in Recoverable(available) /\ item = Recovered(r)
    BY <1>2, <2>1, <2>2
  <2>4. \A k \in 1..MaxSpawns :
           <<r, k>> \in live => item.mode = "reattach" /\ k = item.child
    BY <1>1, <1>2, <2>3 DEF Strays
  <2>5. item.mode = "start" => state[r] = "prepared"
    BY <2>3 DEF Recovered, Adopted
  <2> QED
    BY <1>1, <1>2, <2>4, <2>5 DEF AloneWaits, Attended, OnlyChild
<1> QED
  BY <1>1, <1>2, Items, CallIs DEF Kept, AloneFor

\* Only the child that an item follows moves its Run.
LEMMA ChildMovesAlone ==
    ASSUME Inv, Alone, NEW o \in Run, NEW to \in Moves, ChildMoves(o, to), NEW r \in Run
    PROVE  Kept(r)
<1>1. /\ Attended(o) /\ Lifecycle!CanTransition(state[o], to)
      /\ state' = [state EXCEPT ![o] = to]
      /\ UNCHANGED <<pending, active, phase, call, live, strays>>
  BY DEF ChildMoves, queueVars, childVars, history
<1>2. Waiting' = Waiting /\ Held' = Held /\ (LetsGo' <=> LetsGo)
  BY <1>1 DEF Waiting, Held, Queued, Pending, LetsGo
<1>3. \A q \in Run : q # o => state'[q] = state[q]
  BY <1>1 DEF Inv, TypeOK
<1>4. CASE r # o
  <2>1. ASSUME AloneFor(r) PROVE AloneFor(r)'
    BY <1>1, <1>2, <1>3, <1>4, <2>1, AloneFrame
  <2> QED
    BY <1>1, <1>2, <2>1 DEF Kept, Alone
<1>5. CASE r = o
  <2>1. ASSUME r \notin strays PROVE AloneFor(r)'
    <3>1. AloneFor(r) /\ Attended(r)
      BY <1>1, <1>5, <2>1 DEF Alone
    <3>2. ~Terminal(r)
      BY <1>1, <1>5, EndedStays DEF Terminal
    <3>3. \A k : OnlyChild(r, k) => OnlyChild(r, k)'
      BY <1>1 DEF OnlyChild
    <3>4. ASSUME NEW item \in Waiting', item.run = r PROVE AloneWaits(item)'
      <4>1. AloneWaits(item)
        BY <1>2, <3>1, <3>4 DEF AloneFor
      <4>2. item.mode = "reattach" /\ OnlyChild(r, item.child)
        BY <3>1, <3>4, <4>1 DEF AloneWaits
      <4> QED
        BY <3>3, <3>4, <4>2 DEF AloneWaits
    <3>5. ASSUME active'.run = r PROVE AloneActive'
      <4>1. AloneActive /\ active.run = r
        BY <1>1, <3>1, <3>5 DEF AloneFor
      <4>2. phase \notin {"routing", "begin", "settle"}
        BY <3>1, <3>2, <4>1 DEF AloneActive
      <4>3. phase \in {"spawned", "child", "reattach"} => OnlyChild(r, active.child)'
        BY <1>1, <3>3, <4>1 DEF AloneActive, OnlyChild
      <4> QED
        BY <1>1, <4>1, <4>2, <4>3 DEF AloneActive
    <3>6. ASSUME call'.run = r PROVE AloneCall'
      <4>1. AloneCall /\ call.run = r
        BY <1>1, <3>1, <3>6 DEF AloneFor
      <4>2. ~LetsGo
        BY <3>1, <4>1 DEF AloneCall
      <4> QED
        BY <1>1, <1>2, <4>1, <4>2 DEF AloneCall
    <3> QED
      BY <3>4, <3>5, <3>6 DEF AloneFor
  <2> QED
    BY <1>1, <1>2, <2>1 DEF Kept
<1> QED
  BY <1>4, <1>5

LEMMA AloneInit == Init => Alone
<1> SUFFICES ASSUME Init, NEW r \in Run PROVE AloneFor(r)
  BY DEF Alone
<1>1. active.run # r /\ call.run # r
  BY Items, CallIs DEF Init
<1>2. Waiting = {}
  BY DEF Init, Waiting
<1> QED
  BY <1>1, <1>2 DEF AloneFor

LEMMA KeptStep == ASSUME Inv, Alone, [Next]_vars, NEW r \in Run PROVE Kept(r)
<1>1. ASSUME NEW o \in Run, Create(o) \/ CloseDead(o) PROVE Kept(r)
  BY <1>1, CreateAlone, CloseDeadAlone
<1>2. ASSUME NEW available \in BOOLEAN, Prepare(available) PROVE Kept(r)
  <2>1. /\ preparing \in Run /\ LinkAndQueue(preparing, available)
        /\ call = NoCall /\ phase # "settle"
    BY <1>2 DEF Prepare, Inv, TypeOK, Down
  <2> QED
    BY <2>1, LinkAlone
<1>3. ASSUME NEW available \in BOOLEAN, Boots(available) PROVE Kept(r)
  BY <1>3, BootsAlone
<1>4. ASSUME NEW o \in Run, NEW available \in BOOLEAN, Resubmit(o, available) PROVE Kept(r)
  BY <1>4, LinkAlone DEF Resubmit, Turn
<1>5. CASE Server
  BY <1>5, DrainAlone, ResolveAlone, RoutingCancelledAlone, SpawnAlone,
     JournalStartAlone, ExitSeenAlone, SettleAlone, TransitionAlone, WithdrawAlone DEF Server
<1>6. ASSUME NEW i \in DOMAIN pending, CancelPending(i) PROVE Kept(r)
  BY <1>6, CancelPendingAlone
<1>7. CASE CancelActive
  BY <1>7, CancelActiveAlone
<1>8. CASE Dies
  BY <1>8, DiesAlone
<1>9. ASSUME NEW o \in Run, NEW to \in Moves, ChildMoves(o, to) PROVE Kept(r)
  BY <1>9, ChildMovesAlone
<1>10. ASSUME NEW c \in live, ChildExits(c) PROVE Kept(r)
  BY <1>10, QuietAlone DEF ChildExits, kernelVars, queueVars, history
<1>11. CASE UNCHANGED vars
  BY <1>11, QuietAlone DEF vars, kernelVars, queueVars, childVars, history
<1> QED
  BY <1>1, <1>2, <1>3, <1>4, <1>5, <1>6, <1>7, <1>8, <1>9, <1>10, <1>11 DEF Next

(* The server lets go of a Run only when it is settled, stray children apart: *)
(* no child moves a Run between the read of its state and the transitions     *)
(* that follow from it, but one that the item does not follow.                *)
THEOREM SettledOnLeave == Spec => LeavesSettled
<1>1. Init => Inv /\ Alone
  BY InvInit, AloneInit
<1>2. Inv /\ Alone /\ [Next]_vars => (Inv /\ Alone)'
  BY InvStep, KeptStep DEF Kept, Alone
<1>3. Inv /\ Alone /\ [Next]_vars =>
         \A r \in Held : r \notin Held' /\ up' /\ r \notin strays => Terminal(r)'
  <2>1. Inv => Held \subseteq Run
    BY Items, CallIs, ElementOfSeq DEF Inv, TypeOK, Held, Queued, Pending
  <2> QED
    BY <2>1, KeptStep DEF Kept
<1> QED
  BY <1>1, <1>2, <1>3, PTL DEF Spec, LeavesSettled
=============================================================================
