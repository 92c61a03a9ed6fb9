------------------------------ MODULE CallsProofs ------------------------------
(***************************************************************************)
(* What each operator of Calls does to the table of requests, slot by slot;*)
(* and lists that grow.                                                    *)
(***************************************************************************)
EXTENDS Calls, Sequences, FiniteSetTheorems, WellFoundedInduction, TLAPS

IsCall(c) == c = [op |-> c.op, arg |-> c.arg, st |-> c.st, out |-> c.out]

IsNet(net) ==
    /\ net = [j \in Slot |-> net[j]]
    /\ \A j \in Slot : net[j] # Free => IsCall(net[j])

\* The table in which slot i holds c.
Put(net, i, c) == [j \in Slot |-> IF j = i THEN c ELSE net[j]]

\* An empty table is one.
LEMMA NoCallsIsNet == IsNet(NoCalls)
  BY DEF IsNet, NoCalls

\* A table stays one when a call or nothing is put into a slot.
LEMMA PutIsNet ==
    ASSUME NEW net, IsNet(net), NEW i, NEW c, c # Free => IsCall(c)
    PROVE  IsNet(Put(net, i, c))
  BY DEF IsNet, Put

\* A request that is sent takes some slot and leaves the others alone.
LEMMA Sending ==
    ASSUME NEW net, IsNet(net), NEW op, NEW arg
    PROVE  \E i : Send(net, op, arg) = Put(net, i, Call(op, arg))
<1> DEFINE i == CHOOSE j \in Slot \ Pending(net) : \A k \in Slot \ Pending(net) : j <= k
<1>1. Send(net, op, arg) = [net EXCEPT ![i] = Call(op, arg)]
  BY DEF Send
<1> HIDE DEF i
<1>2. [net EXCEPT ![i] = Call(op, arg)] = Put(net, i, Call(op, arg))
  BY DEF IsNet, Put
<1> QED
  BY <1>1, <1>2

\* With room for it, that slot is a free one.
LEMMA SendingIntoRoom ==
    ASSUME NEW net, IsNet(net), NEW op, NEW arg, Room(net, 1)
    PROVE  \E i \in Slot \ Pending(net) : Send(net, op, arg) = Put(net, i, Call(op, arg))
<1> DEFINE free == Slot \ Pending(net)
<1>1. free # {}
  BY FS_EmptySet DEF Room
<1>2. free \subseteq Nat
  BY DEF Slot
<1>3. PICK m \in free : \A k \in free : m <= k
  <2> DEFINE below(j) == {k \in free : k < j}
             T == {below(j) : j \in free}
  <2>1. T # {} /\ T \subseteq FiniteSubsetsOf(Slot)
    <3>1. \A j : below(j) \subseteq Slot /\ below(j) \in SUBSET Slot
      OBVIOUS
    <3>2. IsFiniteSet(Slot)
      BY FS_Interval, CallsAssumption DEF Slot
    <3>3. \A j : IsFiniteSet(below(j))
      BY <3>1, <3>2, FS_Subset
    <3> QED
      BY <1>1, <3>1, <3>3 DEF FiniteSubsetsOf
  <2>2. PICK t \in T : \A u \in T : <<u, t>> \notin StrictSubsetOrdering(Slot)
    <3> HIDE DEF T
    <3> QED
      BY <2>1, FS_StrictSubsetOrderingWellFounded, WFMin
  <2>3. PICK m \in free : t = below(m)
    OBVIOUS
  <2>4. \A k \in free : m <= k
    <3> SUFFICES ASSUME NEW k \in free, k < m PROVE FALSE
      BY <1>2
    <3>1. below(k) \subseteq below(m) /\ below(k) # below(m)
      BY <1>2
    <3>2. below(k) \in T /\ below(k) \in SUBSET Slot /\ below(m) \in SUBSET Slot
      OBVIOUS
    <3> QED
      BY <2>2, <2>3, <3>1, <3>2 DEF StrictSubsetOrdering
  <2> QED
    BY <2>4
<1> DEFINE i == CHOOSE j \in free : \A k \in free : j <= k
<1>4. i \in free
  BY <1>3
<1>5. Send(net, op, arg) = [net EXCEPT ![i] = Call(op, arg)]
  BY DEF Send
<1> HIDE DEF i, free
<1>6. [net EXCEPT ![i] = Call(op, arg)] = Put(net, i, Call(op, arg))
  BY DEF IsNet, Put
<1> QED
  BY <1>4, <1>5, <1>6 DEF free

\* Calls are calls.
LEMMA CallIsCall == \A op, arg : IsCall(Call(op, arg)) /\ Call(op, arg) # Free
  BY DEF IsCall, Call, Free

\* The reply, the refusal, the beginning of a transaction, the next request and
\* the end of a call in slot i.
LEMMA Answering ==
    ASSUME NEW net, IsNet(net), NEW i \in Slot, net[i] # Free
    PROVE  /\ \A out : Reply(net, i, out) =
                 Put(net, i, [op |-> net[i].op, arg |-> net[i].arg, st |-> "ok", out |-> out])
           /\ Fail(net, i) = Put(net, i, [op |-> net[i].op, arg |-> net[i].arg, st |-> "err", out |-> net[i].out])
           /\ \A tx : Begin(net, i, tx) =
                 Put(net, i, [op |-> net[i].op, arg |-> net[i].arg, st |-> "open", out |-> tx])
<1> DEFINE c == net[i]
<1>0. c = [op |-> c.op, arg |-> c.arg, st |-> c.st, out |-> c.out]
  BY DEF IsNet, IsCall
<1>1. ASSUME NEW st, NEW out
      PROVE  [net EXCEPT ![i].st = st, ![i].out = out] =
                 Put(net, i, [op |-> net[i].op, arg |-> net[i].arg, st |-> st, out |-> out])
  <2>1. [[c EXCEPT !.st = st] EXCEPT !.out = out] = [op |-> c.op, arg |-> c.arg, st |-> st, out |-> out]
    <3>1. [c EXCEPT !.st = st] = [op |-> c.op, arg |-> c.arg, st |-> st, out |-> c.out]
      BY <1>0
    <3>2. [[op |-> c.op, arg |-> c.arg, st |-> st, out |-> c.out] EXCEPT !.out = out] =
              [op |-> c.op, arg |-> c.arg, st |-> st, out |-> out]
      OBVIOUS
    <3> QED
      BY <3>1, <3>2
  <2> DEFINE n == [net EXCEPT ![i].st = st]
  <2> HIDE DEF c
  <2>2. n = [j \in Slot |-> IF j = i THEN [c EXCEPT !.st = st] ELSE net[j]]
    BY DEF IsNet, c
  <2> HIDE DEF n
  <2>3. [n EXCEPT ![i].out = out] = Put(net, i, [[c EXCEPT !.st = st] EXCEPT !.out = out])
    BY <2>2 DEF Put
  <2> QED
    BY <2>1, <2>3 DEF c, n
<1>2. [net EXCEPT ![i].st = "err"] = Put(net, i, [op |-> net[i].op, arg |-> net[i].arg, st |-> "err", out |-> net[i].out])
  <2>1. [c EXCEPT !.st = "err"] = [op |-> c.op, arg |-> c.arg, st |-> "err", out |-> c.out]
    BY <1>0
  <2> HIDE DEF c
  <2>2. [net EXCEPT ![i].st = "err"] = Put(net, i, [c EXCEPT !.st = "err"])
    BY DEF IsNet, Put, c
  <2> QED
    BY <2>1, <2>2 DEF c
<1> QED
  BY <1>1, <1>2 DEF Reply, Fail, Begin

LEMMA Ending ==
    ASSUME NEW net, IsNet(net), NEW i \in Slot
    PROVE  /\ Done(net, i) = Put(net, i, Free)
           /\ \A op, arg : Then(net, i, op, arg) = Put(net, i, Call(op, arg))
  BY DEF Done, Then, IsNet, Put

\* The table goes on from net to next: the calls in flight stay there, what was asked
\* is unchanged, but for those in gone.
Goes(net, next, gone) ==
    /\ IsNet(next)
    /\ \A j \in Pending(net) \ gone :
          j \in Pending(next) /\ next[j].op = net[j].op /\ next[j].arg = net[j].arg

\* A call of that kind is in flight.
Underway(net, op, arg) == \E j \in Pending(net) : net[j].op = op /\ net[j].arg = arg

LEMMA StayGoes == ASSUME NEW net, IsNet(net) PROVE Goes(net, net, {})
  BY DEF Goes

LEMMA PutGoes ==
    ASSUME NEW net, IsNet(net), NEW i \in Slot, NEW c, c # Free => IsCall(c)
    PROVE  /\ Goes(net, Put(net, i, c), {i})
           /\ c # Free => i \in Pending(Put(net, i, c)) /\ Underway(Put(net, i, c), c.op, c.arg)
           /\ net[i] = Free \/ (c # Free /\ c.op = net[i].op /\ c.arg = net[i].arg) => Goes(net, Put(net, i, c), {})
<1>1. IsNet(Put(net, i, c))
  BY PutIsNet
<1>2. Put(net, i, c)[i] = c /\ \A j \in Slot \ {i} : Put(net, i, c)[j] = net[j]
  BY DEF Put
<1> HIDE DEF Put
<1> QED
  BY <1>1, <1>2 DEF Goes, Underway, Pending

LEMMA SendGoes ==
    ASSUME NEW net, IsNet(net), NEW op, NEW arg, Room(net, 1)
    PROVE  Goes(net, Send(net, op, arg), {}) /\ Underway(Send(net, op, arg), op, arg)
<1>1. PICK i \in Slot \ Pending(net) : Send(net, op, arg) = Put(net, i, Call(op, arg))
  BY SendingIntoRoom
<1>2. Call(op, arg).op = op /\ Call(op, arg).arg = arg /\ IsCall(Call(op, arg)) /\ Call(op, arg) # Free
  BY CallIsCall DEF Call
<1>3. net[i] = Free
  BY DEF Pending
<1> QED
  BY <1>1, <1>2, <1>3, PutGoes

LEMMA AnswerGoes ==
    ASSUME NEW net, IsNet(net), NEW i \in Slot, net[i] # Free
    PROVE  /\ \A out : Goes(net, Reply(net, i, out), {})
           /\ Goes(net, Fail(net, i), {})
           /\ \A tx : Goes(net, Begin(net, i, tx), {})
<1>1. ASSUME NEW st \in {"ok", "err", "open"}, NEW out
      PROVE  Goes(net, Put(net, i, [op |-> net[i].op, arg |-> net[i].arg, st |-> st, out |-> out]), {})
  <2> DEFINE c == [op |-> net[i].op, arg |-> net[i].arg, st |-> st, out |-> out]
  <2>1. IsCall(c) /\ c.op = net[i].op /\ c.arg = net[i].arg /\ c # Free
    BY DEF IsCall, Free
  <2> HIDE DEF c
  <2>2. Goes(net, Put(net, i, c), {})
    BY <2>1, PutGoes
  <2> QED
    BY <2>2 DEF c
<1>2. ASSUME NEW out PROVE Goes(net, Reply(net, i, out), {})
  <2>1. Goes(net, Put(net, i, [op |-> net[i].op, arg |-> net[i].arg, st |-> "ok", out |-> out]), {})
    BY <1>1
  <2>2. Reply(net, i, out) = Put(net, i, [op |-> net[i].op, arg |-> net[i].arg, st |-> "ok", out |-> out])
    BY Answering
  <2> QED
    BY <2>1, <2>2
<1>3. Goes(net, Fail(net, i), {})
  BY <1>1, Answering
<1>4. ASSUME NEW tx PROVE Goes(net, Begin(net, i, tx), {})
  <2>1. Goes(net, Put(net, i, [op |-> net[i].op, arg |-> net[i].arg, st |-> "open", out |-> tx]), {})
    BY <1>1
  <2>2. Begin(net, i, tx) = Put(net, i, [op |-> net[i].op, arg |-> net[i].arg, st |-> "open", out |-> tx])
    BY Answering
  <2> QED
    BY <2>1, <2>2
<1> QED
  BY <1>2, <1>3, <1>4

LEMMA EndGoes ==
    ASSUME NEW net, IsNet(net), NEW i \in Slot
    PROVE  /\ Goes(net, Done(net, i), {i})
           /\ \A op, arg : Goes(net, Then(net, i, op, arg), {i}) /\ Underway(Then(net, i, op, arg), op, arg)
<1>1. Goes(net, Done(net, i), {i})
  BY Ending, PutGoes
<1>2. ASSUME NEW op, NEW arg
      PROVE  Goes(net, Then(net, i, op, arg), {i}) /\ Underway(Then(net, i, op, arg), op, arg)
  <2>1. Call(op, arg).op = op /\ Call(op, arg).arg = arg /\ IsCall(Call(op, arg)) /\ Call(op, arg) # Free
    BY CallIsCall DEF Call
  <2> QED
    BY <2>1, Ending, PutGoes
<1> QED
  BY <1>1, <1>2

LEMMA GoesOn ==
    ASSUME NEW a, NEW b, NEW c, NEW s, NEW t, Goes(a, b, s), Goes(b, c, t)
    PROVE  Goes(a, c, s \cup t)
  BY DEF Goes

\* The places there are.
LEMMA RoomLeft ==
    ASSUME NEW net, IsNet(net)
    PROVE  /\ \A n \in Nat : \A op, arg : Room(net, n + 1) /\ Room(net, 1) => Room(Send(net, op, arg), n)
           /\ \A n \in Nat, i \in Pending(net) : Room(net, n) => Room(Done(net, i), n + 1)
           /\ \A i \in Pending(net) : Room(Done(net, i), 1)
           /\ Room(net, 2) => Room(net, 1)
<1> DEFINE free == Slot \ Pending(net)
<1>1. IsFiniteSet(free) /\ Cardinality(free) \in Nat
  <2>1. IsFiniteSet(Slot) /\ free \in SUBSET Slot
    BY FS_Interval, CallsAssumption DEF Slot
  <2> QED
    BY <2>1, FS_Subset, FS_CardinalityType
<1>2. ASSUME NEW n \in Nat, NEW op, NEW arg, Room(net, n + 1), Room(net, 1) PROVE Room(Send(net, op, arg), n)
  <2>1. PICK i \in free : Send(net, op, arg) = Put(net, i, Call(op, arg))
    BY <1>2, SendingIntoRoom
  <2>2. Slot \ Pending(Send(net, op, arg)) = free \ {i}
    BY <2>1, CallIsCall DEF Put, Pending
  <2>3. Cardinality(free \ {i}) = Cardinality(free) - 1
    BY <1>1, <2>1, FS_RemoveElement
  <2> QED
    BY <1>1, <1>2, <2>2, <2>3 DEF Room
<1>3. ASSUME NEW i \in Pending(net)
      PROVE  Cardinality(Slot \ Pending(Done(net, i))) = Cardinality(free) + 1
  <2>1. Done(net, i) = Put(net, i, Free) /\ i \in Slot
    BY <1>3, Ending DEF Pending
  <2>2. Slot \ Pending(Done(net, i)) = free \cup {i} /\ i \notin free
    BY <1>3, <2>1 DEF Put, Pending
  <2> QED
    BY <1>1, <2>2, FS_AddElement
<1>4. \A n \in Nat, i \in Pending(net) : Room(net, n) => Room(Done(net, i), n + 1)
  BY <1>1, <1>3 DEF Room
<1>5. \A i \in Pending(net) : Room(Done(net, i), 1)
  BY <1>1, <1>3 DEF Room
<1>6. Room(net, 2) => Room(net, 1)
  BY <1>1 DEF Room
<1> QED
  BY <1>2, <1>4, <1>5, <1>6

LEMMA EmptyRoom == Room(NoCalls, 1)
<1>1. Slot \ Pending(NoCalls) = 1..MaxCalls
  BY DEF Pending, NoCalls, Slot
<1>2. Cardinality(1..MaxCalls) = MaxCalls
  BY FS_Interval, CallsAssumption
<1>3. Cardinality(Slot \ Pending(NoCalls)) = MaxCalls
  BY <1>1, <1>2, Zenon
<1> QED
  BY <1>3, CallsAssumption DEF Room

\* At most one request is in flight, when one thing is done at a time.
OneCall(net) == \A i, j \in Pending(net) : i = j

\* It stays so when a call is answered, and when one is sent with none in flight.
LEMMA OneCallKept ==
    ASSUME NEW net, IsNet(net), NEW i, NEW c, Quiet(net) \/ (OneCall(net) /\ i \in Pending(net))
    PROVE  OneCall(Put(net, i, c))
  BY DEF OneCall, Pending, Put, Quiet

\* What the start of a handler leaves in the state of a page.
LEMMA Pressing ==
    ASSUME NEW ui, {"clicks", "calm"} \subseteq DOMAIN ui, ui.clicks \in Nat, NEW calm
    PROVE  /\ DOMAIN Pressed(ui, calm) = DOMAIN ui /\ Pressed(ui, calm).clicks \in Nat
           /\ \A f \in DOMAIN ui \ {"clicks", "calm"} : Pressed(ui, calm)[f] = ui[f]
           /\ Pressed(ui, calm).calm => ui.calm /\ calm
<1> DEFINE one == [ui EXCEPT !.clicks = ui.clicks + 1]
           p == [one EXCEPT !.calm = ui.calm /\ calm]
<1>1. Pressed(ui, calm) = p
  BY DEF Pressed
<1>2. DOMAIN one = DOMAIN ui /\ one.clicks \in Nat /\ \A f \in DOMAIN ui \ {"clicks"} : one[f] = ui[f]
  OBVIOUS
<1> HIDE DEF one
<1>3. DOMAIN p = DOMAIN one /\ p.calm = (ui.calm /\ calm) /\ \A f \in DOMAIN one \ {"calm"} : p[f] = one[f]
  BY <1>2
<1> HIDE DEF p
<1> QED
  BY <1>1, <1>2, <1>3

\* A history that gains a snapshot, among contents that only get more.
LEMMA SeqGrows ==
    ASSUME NEW S, NEW T, S \subseteq T, NEW s \in Seq(S)
    PROVE  s \in Seq(T)
<1>1. Len(s) \in Nat /\ s \in [1..Len(s) -> S]
  OBVIOUS
<1>2. s \in [1..Len(s) -> T]
  BY <1>1
<1> QED
  BY <1>1, <1>2

LEMMA SeqAppended ==
    ASSUME NEW S, NEW s \in Seq(S), NEW x \in S
    PROVE  /\ Append(s, x) \in Seq(S)
           /\ \A v \in DOMAIN s : v \in DOMAIN Append(s, x) /\ Append(s, x)[v] = s[v]
           /\ \E v \in DOMAIN Append(s, x) : Append(s, x)[v] = x
<1>1. /\ Append(s, x) \in Seq(S) /\ Len(s) \in Nat /\ DOMAIN s = 1..Len(s)
      /\ DOMAIN Append(s, x) = 1..Len(s) + 1 /\ Append(s, x)[Len(s) + 1] = x
      /\ \A v \in 1..Len(s) : Append(s, x)[v] = s[v]
  OBVIOUS
<1>2. Len(s) + 1 \in 1..Len(s) + 1 /\ \A v \in 1..Len(s) : v \in 1..Len(s) + 1
  BY <1>1
<1> QED
  BY <1>1, <1>2

\* With nothing in flight every place is free.
LEMMA AllFree ==
    ASSUME NEW net, Pending(net) = {}, NEW n \in Nat, n <= MaxCalls
    PROVE  Room(net, n)
<1>1. Slot \ Pending(net) = 1..MaxCalls
  BY DEF Slot
<1>2. Cardinality(1..MaxCalls) = MaxCalls
  BY FS_Interval, CallsAssumption
<1>3. Cardinality(Slot \ Pending(net)) = MaxCalls
  BY <1>1, <1>2, Zenon
<1> QED
  BY <1>3, CallsAssumption DEF Room

\* Two requests sent one after the other take two free places.
LEMMA TwoSent ==
    ASSUME NEW net, IsNet(net), Room(net, 2), NEW op1, NEW arg1, NEW op2, NEW arg2
    PROVE  \E i, j \in Slot \ Pending(net) :
              /\ i # j
              /\ Send(Send(net, op1, arg1), op2, arg2) = Put(Put(net, i, Call(op1, arg1)), j, Call(op2, arg2))
<1> DEFINE c == Call(op1, arg1)
<1>1. IsFiniteSet(Slot \ Pending(net)) /\ Cardinality(Slot \ Pending(net)) \in Nat
  <2>1. IsFiniteSet(Slot) /\ Slot \ Pending(net) \in SUBSET Slot
    BY FS_Interval, CallsAssumption DEF Slot
  <2> QED
    BY <2>1, FS_Subset, FS_CardinalityType
<1>2. Room(net, 1)
  BY <1>1 DEF Room
<1>3. PICK i \in Slot \ Pending(net) : Send(net, op1, arg1) = Put(net, i, c)
  BY <1>2, SendingIntoRoom
<1>4. IsNet(Put(net, i, c)) /\ c # Free
  BY CallIsCall, PutIsNet
<1>5. Slot \ Pending(Put(net, i, c)) = (Slot \ Pending(net)) \ {i}
  BY <1>4 DEF Put, Pending
<1>6. Room(Put(net, i, c), 1)
  <2>1. Cardinality((Slot \ Pending(net)) \ {i}) = Cardinality(Slot \ Pending(net)) - 1
    BY <1>1, <1>3, FS_RemoveElement
  <2>2. Cardinality(Slot \ Pending(net)) >= 2
    BY DEF Room
  <2>3. Cardinality(Slot \ Pending(net)) - 1 >= 1
    BY <1>1, <2>2
  <2> QED
    BY <1>5, <2>1, <2>3 DEF Room
<1>7. PICK j \in Slot \ Pending(Put(net, i, c)) :
         Send(Put(net, i, c), op2, arg2) = Put(Put(net, i, c), j, Call(op2, arg2))
  BY <1>4, <1>6, SendingIntoRoom
<1> QED
  BY <1>3, <1>5, <1>7

\* Among finitely many places of a list there is a last one.
LEMMA NewestExists ==
    ASSUME NEW S, S # {}, NEW n \in Nat, S \subseteq 1..n
    PROVE  \E m \in S : \A k \in S : k <= m
<1> DEFINE above(j) == {k \in S : j < k}
           T == {above(j) : j \in S}
<1>1. T # {} /\ T \subseteq FiniteSubsetsOf(S)
  <2>1. \A j : above(j) \subseteq S /\ above(j) \in SUBSET S
    OBVIOUS
  <2>2. IsFiniteSet(S)
    <3>1. IsFiniteSet(1..n) /\ S \in SUBSET (1..n)
      BY FS_Interval
    <3> QED
      BY <3>1, FS_Subset
  <2>3. \A j : IsFiniteSet(above(j))
    BY <2>1, <2>2, FS_Subset
  <2> QED
    BY <2>1, <2>3 DEF FiniteSubsetsOf
<1>2. PICK t \in T : \A u \in T : <<u, t>> \notin StrictSubsetOrdering(S)
  <2> HIDE DEF T
  <2> QED
    BY <1>1, FS_StrictSubsetOrderingWellFounded, WFMin
<1>3. PICK m \in S : t = above(m)
  OBVIOUS
<1>4. ASSUME NEW k \in S, m < k PROVE FALSE
  <2>1. above(k) \subseteq above(m) /\ above(k) # above(m)
    <3>1. S \subseteq Nat
      OBVIOUS
    <3>2. k \in above(m) /\ k \notin above(k)
      BY <1>4, <3>1
    <3>3. \A j \in S : k < j => m < j
      BY <1>4, <3>1
    <3> QED
      BY <3>2, <3>3
  <2>2. above(k) \in T /\ above(k) \in SUBSET S /\ above(m) \in SUBSET S
    OBVIOUS
  <2> QED
    BY <1>2, <1>3, <2>1, <2>2 DEF StrictSubsetOrdering
<1> QED
  BY <1>4

===============================================================================
