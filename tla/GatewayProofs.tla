--------------------------- MODULE GatewayProofs ---------------------------
(***************************************************************************)
(* Proofs about the two gateways that serve TCP subscribers, TcpGateway    *)
(* (Python) and CppGateway (C++), for any number of subscribers, keys,     *)
(* tokens and frames, any queue size, drop limit and socket.               *)
(***************************************************************************)
EXTENDS TcpGateway, CppGateway, SequenceTheorems, FiniteSetTheorems, WellFoundedInduction, TLAPS


-----------------------------------------------------------------------------
(* The inductive invariant, subscriber by subscriber.                      *)

Places(s) == 1..Len(queue[s])

\* A connection begins with a new Subscriber and a new tracker.
Fresh(s) ==
    state[s] = "off" =>
      /\ mode[s] = "stream" /\ queue[s] = <<>> /\ pending[s] = NoPending
      /\ outSeq[s] = 0 /\ dropped[s] = 0 /\ expected[s] = Unset /\ lost[s] = 0
      /\ cleared[s] = 0 /\ conflated[s] = FALSE /\ denied[s] = FALSE

\* Who is in subs has not exceeded the drop limit.
WithinLimit(s) == state[s] = "on" => dropped[s] <= DropLimit

\* Bare keys are for conflate mode and have a value; encoded frames have a
\* number that was given out and, in conflate mode, no key.
Shaped(s) ==
    /\ mode[s] = "stream" => pending[s] = NoPending
    /\ \A i \in Places(s) :
         /\ IsKey(queue[s][i]) => /\ mode[s] = "conflate" /\ queue[s][i].key \in Keys
                                  /\ queue[s][i].ver = 0 /\ pending[s][queue[s][i].key] # 0
         /\ ~IsKey(queue[s][i]) => /\ queue[s][i].seq < outSeq[s]
                                   /\ queue[s][i].key = NoKey \/ mode[s] = "stream"
         /\ queue[s][i].key \in Keys => queue[s][i].ver <= last[queue[s][i].key]

\* Two items of one instrument are frames, the later one behind the earlier.
Ordered(s) ==
    \A i, j \in Places(s) :
      i < j /\ queue[s][i].key \in Keys /\ queue[s][i].key = queue[s][j].key
        => ~IsKey(queue[s][i]) /\ ~IsKey(queue[s][j]) /\ queue[s][i].ver < queue[s][j].ver

\* The number of the next frame to be sent to a streaming subscriber.
FrontSeq(s) == outSeq[s] - Len(queue[s])

\* A streaming queue holds the last numbers without a hole, so what is missing
\* between the client's expectation and its front was dropped.
Streaming(s) ==
    state[s] = "on" /\ ~conflated[s] =>
      /\ mode[s] = "stream"
      /\ \A i \in Places(s) : queue[s][i].seq = FrontSeq(s) + i - 1
      /\ expected[s] = Unset => lost[s] = 0 /\ FrontSeq(s) <= dropped[s]
      /\ expected[s] # Unset => /\ expected[s] >= 1 /\ lost[s] <= dropped[s]
                                /\ lost[s] + FrontSeq(s) - expected[s] <= dropped[s]

\* The client is up to date, or something in the queue will bring it there.
Tracked(s) ==
    state[s] = "on" /\ ~denied[s] /\ cleared[s] = 0 =>
      /\ expected[s] <= outSeq[s]
      /\ \/ expected[s] = outSeq[s]
         \/ expected[s] = Unset /\ queue[s] = <<>>
         \/ \E i \in Places(s) : IsKey(queue[s][i]) \/ queue[s][i].seq = outSeq[s] - 1

\* As long as nothing was dropped, a value that waits has its key in the queue.
Placed(s) ==
    state[s] = "on" /\ dropped[s] = 0 =>
      \A k \in Keys : pending[s][k] # 0 => \E i \in Places(s) : IsKey(queue[s][i]) /\ queue[s][i].key = k

\* NoHole, and what the client has is not overtaken by something older that
\* waits.
Current(s) ==
    state[s] = "on" /\ dropped[s] = 0 /\ cleared[s] = 0 =>
      \A k \in symbols[s] :
        \/ last[k] = since[s][k] \/ last[k] = pending[s][k]
        \/ \E i \in Places(s) : /\ ~IsKey(queue[s][i]) /\ queue[s][i].key = k
                                /\ queue[s][i].ver = last[k]
        \/ /\ last[k] = seen[s][k] /\ pending[s][k] = 0
           /\ \A i \in Places(s) : queue[s][i].key # k

SubInv(s) ==
    /\ Fresh(s) /\ WithinLimit(s) /\ Shaped(s) /\ Ordered(s)
    /\ Streaming(s) /\ Tracked(s) /\ Placed(s) /\ Current(s)

Inv ==
    /\ TypeOK
    /\ \A k \in Keys : last[k] <= frames
    /\ \A s \in Subs : SubInv(s)
-----------------------------------------------------------------------------
(* Facts about queues.                                                     *)

\* What Append does to a queue.
LEMMA AppendFacts ==
    ASSUME NEW S, NEW q \in Seq(S), NEW e \in S
    PROVE  /\ Append(q, e) \in Seq(S) /\ Len(Append(q, e)) = Len(q) + 1
           /\ Append(q, e)[Len(q) + 1] = e
           /\ \A i \in 1..Len(q) : Append(q, e)[i] = q[i]
  OBVIOUS

\* What taking the first item does to a queue.
LEMMA TailFacts ==
    ASSUME NEW S, NEW q \in Seq(S), q # <<>>
    PROVE  /\ Tail(q) \in Seq(S) /\ Len(Tail(q)) = Len(q) - 1 /\ Len(q) \in Nat \ {0}
           /\ Head(q) = q[1] /\ Head(q) \in S
           /\ \A i \in 1..(Len(q) - 1) : Tail(q)[i] = q[i + 1]
  OBVIOUS

\* The constants as the provers need them.
LEMMA Bounds ==
    /\ QueueSize \in Nat /\ QueueSize >= 1 /\ DropLimit \in Nat /\ MaxFrames \in Nat
    /\ NoKey \notin Keys
  BY GatewayAssumption

\* The fields of one subscriber.
Typed(s) ==
    /\ state[s] \in {"off", "on", "closed"} /\ symbols[s] \in SUBSET Keys
    /\ mode[s] \in {"stream", "conflate"}
    /\ queue[s] \in Seq(Items) /\ Len(queue[s]) \in Nat /\ Len(queue[s]) <= QueueSize
    /\ pending[s] \in [Keys -> Vers] /\ outSeq[s] \in Nat /\ dropped[s] \in 0..(DropLimit + 1)
    /\ expected[s] \in Nat \cup {Unset} /\ lost[s] \in Nat
    /\ seen[s] \in [Keys -> Vers] /\ cleared[s] \in Nat /\ conflated[s] \in BOOLEAN
    /\ denied[s] \in BOOLEAN /\ since[s] \in [Keys -> Vers]

\* What the type invariant says of one subscriber.
LEMMA TypedSub == ASSUME TypeOK, NEW s \in Subs PROVE Typed(s)
  BY DEF TypeOK, Typed

\* An item of a queue.
LEMMA ItemFacts ==
    ASSUME NEW s, Typed(s), NEW i \in Places(s)
    PROVE  /\ queue[s][i] \in Items /\ queue[s][i].key \in Keys \cup {NoKey}
           /\ queue[s][i].seq \in Nat \cup {Unset} /\ queue[s][i].ver \in Vers
  <1>1. queue[s][i] \in Items
    BY DEF Typed, Places
  <1> QED BY <1>1 DEF Items

\* What new items look like.
LEMMA NewItems ==
    ASSUME NEW q \in Nat, NEW k \in Keys \cup {NoKey}, NEW v \in Vers
    PROVE  /\ RawItem(q, k, v) \in Items /\ ~IsKey(RawItem(q, k, v))
           /\ KeyItem(k) \in Items /\ IsKey(KeyItem(k))
           /\ RawItem(q, k, v).seq = q /\ RawItem(q, k, v).key = k /\ RawItem(q, k, v).ver = v
           /\ KeyItem(k).key = k /\ KeyItem(k).ver = 0
  <1>1. 0 \in Vers
    BY Bounds DEF Vers
  <1>2. RawItem(q, k, v) \in Items /\ KeyItem(k) \in Items
    BY <1>1 DEF RawItem, KeyItem, Items
  <1> QED BY <1>2 DEF RawItem, KeyItem, IsKey, Unset

-----------------------------------------------------------------------------
(* A step that leaves a subscriber alone.                                  *)

Same(s) ==
    /\ state'[s] = state[s] /\ symbols'[s] = symbols[s] /\ mode'[s] = mode[s]
    /\ queue'[s] = queue[s] /\ pending'[s] = pending[s] /\ outSeq'[s] = outSeq[s]
    /\ dropped'[s] = dropped[s] /\ expected'[s] = expected[s] /\ lost'[s] = lost[s]
    /\ seen'[s] = seen[s] /\ cleared'[s] = cleared[s] /\ conflated'[s] = conflated[s]
    /\ denied'[s] = denied[s] /\ since'[s] = since[s]

\* A subscriber whose record and latest values stay keeps its invariant.
LEMMA SameInv ==
    ASSUME NEW s, SubInv(s), Same(s), last' = last
    PROVE  SubInv(s)'
  BY DEF SubInv, Same, Fresh, WithinLimit, Shaped, Ordered, Streaming, FrontSeq, Tracked,
         Placed, Current, Places, IsKey
-----------------------------------------------------------------------------
(* Beginning, end and filter of a connection.                              *)

\* The initial state: nobody is connected.
LEMMA InitInv == Init => Inv
  <1> SUFFICES ASSUME Init PROVE Inv
    OBVIOUS
  <1>1. 0 \in Vers /\ NoPending \in [Keys -> Vers] /\ <<>> \in Seq(Items) /\ Len(<<>>) = 0
    BY Bounds DEF Vers, NoPending
  <1>2. TypeOK
    BY <1>1, Bounds DEF Init, TypeOK, Vers
  <1>3. ASSUME NEW s \in Subs PROVE SubInv(s)
    BY <1>1, Bounds DEF Init, SubInv, Fresh, WithinLimit, Shaped, Ordered, Streaming, Tracked,
           Placed, Current, Places
  <1> QED BY <1>1, <1>2, <1>3 DEF Inv, Init

\* A new connection starts with nothing queued and nothing missed.
LEMMA ConnectInv ==
    ASSUME Inv, NEW s \in Subs, Connect(s)
    PROVE  Inv'
  <1> USE DEF Inv
  <1>t. Typed(s)
    BY TypedSub
  <1>1. state' \in [Subs -> {"off", "on", "closed"}] /\ symbols' \in [Subs -> SUBSET Keys]
    BY DEF Connect, Snapshot, TypeOK
  <1>2. seen' \in [Subs -> [Keys -> Vers]]
    <2>1. [k \in Keys |-> IF enabled THEN 0 ELSE last[k]] \in [Keys -> Vers]
      BY Bounds DEF TypeOK, Vers
    <2> QED BY <2>1 DEF Connect, Snapshot, TypeOK
  <1>3. TypeOK'
    BY <1>1, <1>2 DEF TypeOK, Connect, Snapshot, hist
  <1>4. ASSUME NEW p \in Subs PROVE SubInv(p)'
    <2>1. CASE p # s
      <3>1. Same(p) /\ last' = last
        BY <2>1 DEF Same, Connect, Snapshot, TypeOK, hist
      <3> QED BY <3>1, SameInv
    <2>2. CASE p = s
      <3>1. Fresh(s) /\ state[s] = "off"
        BY DEF SubInv, Connect, Snapshot
      <3>2. /\ mode'[s] = "stream" /\ queue'[s] = <<>> /\ pending'[s] = NoPending
            /\ outSeq'[s] = 0 /\ dropped'[s] = 0 /\ expected'[s] = Unset /\ lost'[s] = 0
            /\ last' = last /\ state'[s] = "on"
        BY <3>1 DEF Fresh, Connect, Snapshot, TypeOK
      <3>3. symbols'[s] = {} \/ \A k \in Keys : seen'[s][k] = last[k]
        BY DEF Connect, Snapshot, TypeOK
      <3>4. \A k \in Keys : NoPending[k] = 0
        BY DEF NoPending
      <3>5. symbols'[s] \subseteq Keys
        BY <1>3 DEF TypeOK
      <3>6. Places(s)' = {}
        BY <3>2 DEF Places
      <3>7. Current(s)'
        BY <3>2, <3>3, <3>4, <3>5, <3>6 DEF Current
      <3>8. Fresh(s)' /\ WithinLimit(s)' /\ Shaped(s)' /\ Ordered(s)' /\ Placed(s)'
        BY <3>2, <3>4, <3>6, Bounds DEF Fresh, WithinLimit, Shaped, Ordered, Placed
      <3>9. Streaming(s)' /\ Tracked(s)'
        BY <3>2, <3>6 DEF Streaming, Tracked, FrontSeq, Unset
      <3> QED BY <2>2, <3>7, <3>8, <3>9 DEF SubInv
    <2> QED BY <2>1, <2>2
  <1>5. \A k \in Keys : last'[k] <= frames'
    BY DEF Connect, Snapshot
  <1> QED BY <1>3, <1>4, <1>5

\* A connection that ends gives its queue back.
LEMMA DisconnectInv ==
    ASSUME Inv, NEW s \in Subs, Disconnect(s)
    PROVE  Inv'
  <1> USE DEF Inv
  <1>1. 0 \in Vers /\ NoPending \in [Keys -> Vers] /\ <<>> \in Seq(Items) /\ Len(<<>>) = 0
        /\ 0 \in 0..(DropLimit + 1) /\ 0 <= QueueSize
    BY Bounds DEF Vers, NoPending
  <1>2. TypeOK'
    <2>1. queue' \in [Subs -> Seq(Items)] /\ \A p \in Subs : Len(queue'[p]) <= QueueSize
      BY <1>1 DEF TypeOK, Disconnect
    <2>2. state' \in [Subs -> {"off", "on", "closed"}] /\ symbols' \in [Subs -> SUBSET Keys]
          /\ mode' \in [Subs -> {"stream", "conflate"}] /\ pending' \in [Subs -> [Keys -> Vers]]
      BY <1>1 DEF TypeOK, Disconnect
    <2>3. outSeq' \in [Subs -> Nat] /\ dropped' \in [Subs -> 0..(DropLimit + 1)]
          /\ expected' \in [Subs -> Nat \cup {Unset}] /\ lost' \in [Subs -> Nat]
      BY <1>1 DEF TypeOK, Disconnect
    <2>4. seen' \in [Subs -> [Keys -> Vers]] /\ cleared' \in [Subs -> Nat]
          /\ conflated' \in [Subs -> BOOLEAN] /\ denied' \in [Subs -> BOOLEAN]
          /\ since' \in [Subs -> [Keys -> Vers]]
      BY <1>1 DEF TypeOK, Disconnect
    <2> QED BY <2>1, <2>2, <2>3, <2>4 DEF TypeOK, Disconnect
  <1>3. ASSUME NEW p \in Subs PROVE SubInv(p)'
    <2>1. CASE p # s
      <3>1. Same(p) /\ last' = last
        BY <2>1 DEF Same, Disconnect, TypeOK
      <3> QED BY <3>1, SameInv
    <2>2. CASE p = s
      <3>1. /\ state'[s] = "off" /\ mode'[s] = "stream" /\ queue'[s] = <<>>
            /\ pending'[s] = NoPending /\ outSeq'[s] = 0 /\ dropped'[s] = 0
            /\ expected'[s] = Unset /\ lost'[s] = 0 /\ cleared'[s] = 0
            /\ conflated'[s] = FALSE /\ denied'[s] = FALSE
        BY DEF Disconnect, TypeOK
      <3>2. Places(s)' = {}
        BY <3>1, <1>1 DEF Places
      <3> QED BY <2>2, <3>1, <3>2 DEF SubInv, Fresh, WithinLimit, Shaped, Ordered, Streaming,
                  Tracked, Placed, Current
    <2> QED BY <2>1, <2>2
  <1>4. \A k \in Keys : last'[k] <= frames'
    BY DEF Disconnect
  <1> QED BY <1>2, <1>3, <1>4

\* Stopping the gateway ends every connection.
LEMMA StopInv == ASSUME Inv, Stop PROVE Inv'
  <1> USE DEF Inv
  <1>1. TypeOK'
    BY DEF TypeOK, Stop, client, hist
  <1>2. ASSUME NEW s \in Subs PROVE SubInv(s)'
    <2>1. state[s] = "on" => state'[s] = "closed"
      BY DEF Stop, TypeOK
    <2>2. state[s] # "on" => state'[s] = state[s]
      BY DEF Stop, TypeOK
    <2> QED BY <2>1, <2>2
          DEF SubInv, Stop, client, hist, Fresh, WithinLimit, Shaped, Ordered, Streaming, FrontSeq,
              Tracked, Placed, Current, Places, IsKey
  <1>3. \A k \in Keys : last'[k] <= frames'
    BY DEF Stop
  <1> QED BY <1>1, <1>2, <1>3

\* A change of the filter: what a subscriber follows anew it has from now on,
\* and a change of mode empties the queue.
LEMMA ApplySubscribeInv ==
    ASSUME Inv, NEW s \in Subs, ApplySubscribe(s)
    PROVE  Inv'
  <1> USE DEF Inv
  <1>1. PICK t \in Tokens \cup {NoKey}, req \in SUBSET Keys, m \in Modes :
          /\ symbols' = [symbols EXCEPT ![s] = Granted(t, req)]
          /\ since' = [since EXCEPT ![s] = [k \in Keys |->
                IF k \in Granted(t, req) \ symbols[s] THEN last[k] ELSE @[k]]]
          /\ denied' = [denied EXCEPT ![s] = @ \/ Refused(t, req)]
          /\ IF Refused(t, req) THEN Observe(s, 0) ELSE UNCHANGED <<expected, lost>>
          /\ ChangeMode(s, m)
    BY DEF ApplySubscribe
  <1>2. state[s] = "on" /\ UNCHANGED <<enabled, up, frames, last, state, outSeq, dropped, seen>>
    BY DEF ApplySubscribe
  <1>t. Typed(s) /\ SubInv(s)
    BY TypedSub
  <1>3. Granted(t, req) \in SUBSET Keys
    BY GatewayAssumption DEF Granted
  <1>4. m \in {"stream", "conflate"}
    BY GatewayAssumption
  <1>5. 0 \in Vers /\ NoPending \in [Keys -> Vers] /\ <<>> \in Seq(Items) /\ Len(<<>>) = 0
        /\ 0 <= QueueSize
    BY Bounds DEF Vers, NoPending
  <1>6. /\ lost' = lost
        /\ expected' = [expected EXCEPT ![s] = expected'[s]]
        /\ expected'[s] \in {expected[s], 1}
        /\ expected'[s] # expected[s] => Refused(t, req) /\ expected[s] \in {Unset, 0}
    <2>1. CASE ~Refused(t, req)
      BY <1>1, <2>1 DEF TypeOK
    <2>2. CASE Refused(t, req)
      <3>1. Observe(s, 0) /\ expected[s] \in Nat \cup {Unset}
        BY <1>1, <1>t, <2>2 DEF Typed
      <3>2. ~(expected[s] # Unset /\ 0 > expected[s])
        BY <3>1 DEF Unset
      <3>3. lost' = lost
        BY <3>1, <3>2 DEF Observe, TypeOK
      <3>4. (expected[s] = Unset \/ 0 >= expected[s]) <=> expected[s] \in {Unset, 0}
        BY <3>1 DEF Unset
      <3>5. expected' = [expected EXCEPT ![s] =
                           IF expected[s] = Unset \/ 0 >= expected[s] THEN 0 + 1 ELSE expected[s]]
        BY <3>1 DEF Observe
      <3>6. CASE expected[s] \in {Unset, 0}
        <4>0. (IF expected[s] = Unset \/ 0 >= expected[s] THEN 0 + 1 ELSE expected[s]) = 1
          BY <3>4, <3>6
        <4>1. expected' = [expected EXCEPT ![s] = 1]
          BY <3>5, <4>0
        <4> QED BY <2>2, <3>3, <3>6, <4>1 DEF TypeOK
      <3>7. CASE expected[s] \notin {Unset, 0}
        <4>1. expected' = [expected EXCEPT ![s] = expected[s]]
          BY <3>4, <3>5, <3>7
        <4> QED BY <2>2, <3>3, <4>1 DEF TypeOK
      <3> QED BY <3>6, <3>7
    <2> QED BY <2>1, <2>2
  <1>7. /\ mode' = [mode EXCEPT ![s] = mode'[s]] /\ queue' = [queue EXCEPT ![s] = queue'[s]]
        /\ pending' = [pending EXCEPT ![s] = pending'[s]]
        /\ cleared' = [cleared EXCEPT ![s] = cleared'[s]]
        /\ conflated' = [conflated EXCEPT ![s] = conflated'[s]]
        /\ \/ /\ mode'[s] = mode[s] /\ queue'[s] = queue[s] /\ pending'[s] = pending[s]
              /\ cleared'[s] = cleared[s] /\ conflated'[s] = conflated[s]
           \/ /\ mode'[s] = m /\ queue'[s] = <<>> /\ pending'[s] = NoPending
              /\ cleared'[s] = cleared[s] + Len(queue[s]) /\ conflated'[s] = TRUE
    BY <1>1 DEF ChangeMode, TypeOK
  <1>8. TypeOK'
    <2>0. cleared[s] \in Nat /\ Len(queue[s]) \in Nat /\ cleared[s] + Len(queue[s]) \in Nat
      BY <1>t DEF Typed
    <2>1. queue'[s] \in Seq(Items) /\ Len(queue'[s]) <= QueueSize /\ cleared'[s] \in Nat
          /\ pending'[s] \in [Keys -> Vers] /\ mode'[s] \in {"stream", "conflate"}
          /\ conflated'[s] \in BOOLEAN
      <3>1. CASE queue'[s] = queue[s] /\ mode'[s] = mode[s]
        BY <1>5, <1>7, <1>t, <2>0, <3>1 DEF Typed
      <3>2. CASE queue'[s] = <<>> /\ mode'[s] = m
        BY <1>4, <1>5, <1>7, <1>t, <2>0, <3>2 DEF Typed
      <3> QED BY <1>7, <3>1, <3>2
    <2>2. queue' \in [Subs -> Seq(Items)] /\ \A p \in Subs : Len(queue'[p]) <= QueueSize
      BY <2>1, <1>7 DEF TypeOK
    <2>3. mode' \in [Subs -> {"stream", "conflate"}] /\ pending' \in [Subs -> [Keys -> Vers]]
          /\ cleared' \in [Subs -> Nat] /\ conflated' \in [Subs -> BOOLEAN]
      BY <2>1, <1>7 DEF TypeOK
    <2>4. expected' \in [Subs -> Nat \cup {Unset}] /\ lost' \in [Subs -> Nat]
      <3>1. expected'[s] \in Nat \cup {Unset}
        BY <1>6, <1>t DEF Typed
      <3> QED BY <1>6, <3>1 DEF TypeOK
    <2>5. since' \in [Subs -> [Keys -> Vers]]
      <3>1. [k \in Keys |-> IF k \in Granted(t, req) \ symbols[s] THEN last[k] ELSE since[s][k]]
              \in [Keys -> Vers]
        BY DEF TypeOK
      <3> QED BY <3>1, <1>1 DEF TypeOK
    <2>6. symbols' \in [Subs -> SUBSET Keys] /\ denied' \in [Subs -> BOOLEAN]
      BY <1>1, <1>3 DEF TypeOK, Refused
    <2> QED BY <1>2, <2>2, <2>3, <2>4, <2>5, <2>6 DEF TypeOK
  <1>9. SubInv(s)'
    <2> DEFINE Kept == /\ mode'[s] = mode[s] /\ queue'[s] = queue[s] /\ pending'[s] = pending[s]
                       /\ cleared'[s] = cleared[s] /\ conflated'[s] = conflated[s]
               Reset == /\ mode'[s] = m /\ queue'[s] = <<>> /\ pending'[s] = NoPending
                        /\ cleared'[s] = cleared[s] + Len(queue[s]) /\ conflated'[s] = TRUE
    <2>0. Kept \/ Reset
      BY <1>7
    <2>1. /\ state'[s] = "on" /\ last' = last /\ outSeq'[s] = outSeq[s] /\ dropped'[s] = dropped[s]
          /\ seen'[s] = seen[s] /\ lost'[s] = lost[s]
      BY <1>2, <1>6
    <2>2. /\ Refused(t, req) => denied'[s] = TRUE
          /\ denied'[s] = FALSE => ~Refused(t, req) /\ denied[s] = FALSE
      BY <1>1 DEF TypeOK, Refused
    <2>3. \A k \in symbols'[s] : /\ k \in Keys
                                 /\ \/ k \in symbols[s] /\ since'[s][k] = since[s][k]
                                    \/ since'[s][k] = last[k]
      BY <1>1, <1>3 DEF TypeOK
    <2>4. \A k \in Keys : NoPending[k] = 0
      BY DEF NoPending
    <2>5. Fresh(s)' /\ WithinLimit(s)'
      BY <2>1, <1>2, <1>t DEF Fresh, WithinLimit, SubInv
    <2>6. CASE Kept
      <3>1. Shaped(s)' /\ Ordered(s)' /\ Placed(s)'
        BY <1>t, <1>2, <2>1, <2>6 DEF SubInv, Shaped, Ordered, Placed, Places, IsKey
      <3>2. Streaming(s)'
        <4>1. FrontSeq(s)' = FrontSeq(s) /\ FrontSeq(s) \in Int /\ dropped[s] \in Nat /\ lost[s] \in Nat
          BY <1>t, <2>1, <2>6, Bounds DEF FrontSeq, Typed
        <4>2. CASE expected'[s] = expected[s]
          BY <1>t, <2>1, <2>6, <1>2, <4>1, <4>2 DEF SubInv, Streaming, Places
        <4>3. CASE expected'[s] = 1 /\ expected[s] \in {Unset, 0}
          <5>1. state[s] = "on" /\ ~conflated[s] => /\ expected[s] = Unset /\ lost[s] = 0
                                                     /\ FrontSeq(s) <= dropped[s]
            BY <1>t, <4>3 DEF SubInv, Streaming, Unset
          <5>2. state[s] = "on" /\ ~conflated[s] =>
                  lost[s] <= dropped[s] /\ lost[s] + FrontSeq(s) - 1 <= dropped[s]
            BY <5>1, <4>1
          <5> QED BY <1>t, <1>2, <2>1, <2>6, <4>1, <4>3, <5>2 DEF SubInv, Streaming, Places, Unset
        <4> QED BY <1>6, <4>2, <4>3
      <3>3. Tracked(s)'
        BY <1>t, <1>2, <1>6, <2>1, <2>2, <2>6 DEF SubInv, Tracked, Places, IsKey, Typed
      <3>4. Current(s)'
        BY <1>t, <1>2, <2>1, <2>3, <2>6 DEF SubInv, Current, Places, IsKey
      <3> QED BY <2>5, <3>1, <3>2, <3>3, <3>4 DEF SubInv
    <2>7. CASE Reset
      <3>1. Places(s)' = {} /\ Len(queue'[s]) = 0
        BY <2>7, <1>5 DEF Places
      <3>2. Shaped(s)' /\ Ordered(s)' /\ Placed(s)' /\ Streaming(s)'
        BY <2>4, <2>7, <3>1 DEF Shaped, Ordered, Placed, Streaming
      <3>3. cleared'[s] = 0 => cleared[s] = 0 /\ Len(queue[s]) = 0 /\ Places(s) = {}
        BY <1>t, <2>7 DEF Typed, Places
      <3>4. Tracked(s)'
        <4> SUFFICES ASSUME ~denied'[s], cleared'[s] = 0
                     PROVE  /\ expected'[s] <= outSeq[s]
                            /\ \/ expected'[s] = outSeq[s]
                               \/ expected'[s] = Unset /\ queue'[s] = <<>>
          BY <2>1 DEF Tracked
        <4>1. denied[s] = FALSE /\ expected'[s] = expected[s]
          BY <1>6, <2>2, <1>8 DEF TypeOK
        <4>2. cleared[s] = 0 /\ Places(s) = {}
          BY <3>3
        <4> QED BY <1>t, <1>2, <2>7, <4>1, <4>2 DEF SubInv, Tracked
      <3>5. Current(s)'
        <4> SUFFICES ASSUME dropped[s] = 0, cleared'[s] = 0, NEW k \in symbols'[s]
                     PROVE  \/ last[k] = since'[s][k] \/ last[k] = pending'[s][k]
                            \/ /\ last[k] = seen'[s][k] /\ pending'[s][k] = 0
                               /\ \A i \in Places(s)' : queue'[s][i].key # k
          BY <2>1 DEF Current
        <4>1. k \in Keys /\ pending'[s][k] = 0 /\ cleared[s] = 0 /\ Places(s) = {}
          BY <2>3, <2>4, <2>7, <3>3
        <4>2. pending[s][k] = 0
          BY <1>2, <1>t, <4>1 DEF SubInv, Placed
        <4> QED BY <1>2, <1>t, <2>1, <2>3, <3>1, <4>1, <4>2 DEF SubInv, Current
      <3> QED BY <2>5, <3>2, <3>4, <3>5 DEF SubInv
    <2> QED BY <2>0, <2>6, <2>7
  <1>10. ASSUME NEW p \in Subs, p # s PROVE SubInv(p)'
    <2>1. Same(p)
      BY <1>1, <1>2, <1>6, <1>7, <1>10 DEF Same, TypeOK
    <2> QED BY <1>2, <2>1, SameInv
  <1>11. \A k \in Keys : last'[k] <= frames'
    BY <1>2
  <1> QED BY <1>8, <1>9, <1>10, <1>11

-----------------------------------------------------------------------------
(* The sender task.                                                        *)

\* What Observe does to the two counters of a client.
LEMMA ObserveFacts ==
    ASSUME TypeOK, NEW s \in Subs, NEW q \in Nat, Observe(s, q)
    PROVE  /\ expected' \in [Subs -> Nat \cup {Unset}] /\ lost' \in [Subs -> Nat]
           /\ \A p \in Subs \ {s} : expected'[p] = expected[p] /\ lost'[p] = lost[p]
           /\ expected[s] = Unset => expected'[s] = q + 1 /\ lost'[s] = lost[s]
           /\ expected[s] # Unset /\ q >= expected[s] =>
                expected'[s] = q + 1 /\ lost'[s] = lost[s] + q - expected[s]
           /\ expected[s] # Unset /\ q < expected[s] =>
                expected'[s] = expected[s] /\ lost'[s] = lost[s]
  <1>1. expected[s] \in Nat \cup {Unset} /\ lost[s] \in Nat
    BY DEF TypeOK
  <1> DEFINE E == IF expected[s] = Unset \/ q >= expected[s] THEN q + 1 ELSE expected[s]
             L == IF expected[s] # Unset /\ q > expected[s] THEN lost[s] + q - expected[s] ELSE lost[s]
  <1>2. expected' = [expected EXCEPT ![s] = E] /\ lost' = [lost EXCEPT ![s] = L]
    BY DEF Observe
  <1>3. E \in Nat \cup {Unset} /\ L \in Nat
    BY <1>1 DEF Unset
  <1>4. /\ expected[s] = Unset => E = q + 1 /\ L = lost[s]
        /\ expected[s] # Unset /\ q >= expected[s] => E = q + 1 /\ L = lost[s] + q - expected[s]
        /\ expected[s] # Unset /\ q < expected[s] => E = expected[s] /\ L = lost[s]
    BY <1>1 DEF Unset
  <1>5. expected'[s] = E /\ lost'[s] = L
    BY <1>2 DEF TypeOK
  <1> HIDE DEF E, L
  <1>6. expected' \in [Subs -> Nat \cup {Unset}] /\ lost' \in [Subs -> Nat]
    BY <1>2, <1>3 DEF TypeOK
  <1>7. \A p \in Subs \ {s} : expected'[p] = expected[p] /\ lost'[p] = lost[p]
    BY <1>2 DEF TypeOK
  <1> QED BY <1>4, <1>5, <1>6, <1>7

\* The head of the queue is written and numbered if it is a key.  A key at the
\* head always has a value.
LEMMA SendInv ==
    ASSUME Inv, NEW s \in Subs, Send(s)
    PROVE  Inv'
  <1> USE DEF Inv
  <1> DEFINE it == queue[s][1]
             q == IF IsKey(it) THEN outSeq[s] ELSE it.seq
  <1>t. Typed(s) /\ SubInv(s) /\ queue[s] # <<>> /\ state[s] # "off"
    BY TypedSub DEF Send
  <1>1. /\ Head(queue[s]) = it /\ Tail(queue[s]) \in Seq(Items) /\ Len(queue[s]) \in Nat \ {0}
        /\ Len(Tail(queue[s])) = Len(queue[s]) - 1
        /\ \A i \in 1..(Len(queue[s]) - 1) : Tail(queue[s])[i] = queue[s][i + 1]
    BY <1>t, TailFacts DEF Typed
  <1>2. 1 \in Places(s)
    BY <1>1 DEF Places
  <1>3. it \in Items /\ it.key \in Keys \cup {NoKey} /\ it.seq \in Nat \cup {Unset} /\ it.ver \in Vers
    BY <1>t, <1>2, ItemFacts
  <1>4. IsKey(it) => it.key \in Keys /\ mode[s] = "conflate" /\ pending[s][it.key] # 0
    BY <1>t, <1>2 DEF SubInv, Shaped
  <1>5. queue' = [queue EXCEPT ![s] = Tail(queue[s])]
        /\ UNCHANGED <<enabled, up, frames, last, state, symbols, mode, dropped, hist>>
    BY DEF Send
  <1>6. /\ IsKey(it) => /\ pending' = [pending EXCEPT ![s][it.key] = 0]
                        /\ outSeq' = [outSeq EXCEPT ![s] = @ + 1]
        /\ ~IsKey(it) => UNCHANGED <<pending, outSeq>>
        /\ Written(s, it) \/ (state[s] = "closed" /\ UNCHANGED client)
    BY <1>1, <1>4 DEF Send
  <1>7. q \in Nat /\ (~IsKey(it) => q < outSeq[s] /\ (it.key = NoKey \/ mode[s] = "stream"))
    BY <1>t, <1>2, <1>3 DEF Typed, SubInv, Shaped, IsKey
  <1>8. Written(s, it) =>
          /\ Observe(s, q)
          /\ it.key = NoKey => seen' = seen
          /\ it.key # NoKey =>
               seen' = [seen EXCEPT ![s][it.key] = IF IsKey(it) THEN pending[s][it.key] ELSE it.ver]
    BY DEF Written
  <1> HIDE DEF q, it
  <1>9. TypeOK'
    <2>1. queue' \in [Subs -> Seq(Items)] /\ \A p \in Subs : Len(queue'[p]) <= QueueSize
      <3>1. Len(Tail(queue[s])) <= QueueSize
        BY <1>1, <1>t, Bounds DEF Typed
      <3>2. \A p \in Subs : queue'[p] = IF p = s THEN Tail(queue[s]) ELSE queue[p]
        BY <1>5 DEF TypeOK
      <3>3. queue' \in [Subs -> Seq(Items)]
        BY <1>1, <1>5 DEF TypeOK
      <3> QED BY <3>1, <3>2, <3>3 DEF TypeOK
    <2>2. pending' \in [Subs -> [Keys -> Vers]] /\ outSeq' \in [Subs -> Nat]
      <3>1. CASE IsKey(it)
        <4>1. [pending[s] EXCEPT ![it.key] = 0] \in [Keys -> Vers]
          <5>1. 0 \in Vers /\ pending[s] \in [Keys -> Vers]
            BY <1>t, Bounds DEF Typed, Vers
          <5> QED BY <5>1
        <4>2. pending' = [pending EXCEPT ![s] = [pending[s] EXCEPT ![it.key] = 0]]
          <5>1. pending' = [pending EXCEPT ![s][it.key] = 0]
            BY <1>6, <3>1
          <5> QED BY <5>1
        <4>3. pending' \in [Subs -> [Keys -> Vers]]
          <5> DEFINE P == [pending[s] EXCEPT ![it.key] = 0]
          <5>1. P \in [Keys -> Vers] /\ pending' = [pending EXCEPT ![s] = P]
            BY <4>1, <4>2
          <5> HIDE DEF P
          <5> QED BY <5>1 DEF TypeOK
        <4>4. outSeq' \in [Subs -> Nat]
          <5>1. outSeq' = [outSeq EXCEPT ![s] = outSeq[s] + 1] /\ outSeq[s] + 1 \in Nat
            BY <1>6, <3>1, <1>t DEF Typed
          <5> QED BY <5>1 DEF TypeOK
        <4> QED BY <4>3, <4>4
      <3>2. CASE ~IsKey(it)
        BY <1>6, <3>2 DEF TypeOK
      <3> QED BY <3>1, <3>2
    <2>3. /\ expected' \in [Subs -> Nat \cup {Unset}] /\ lost' \in [Subs -> Nat]
          /\ seen' \in [Subs -> [Keys -> Vers]]
      <3>1. CASE Written(s, it)
        <4>1. expected' \in [Subs -> Nat \cup {Unset}] /\ lost' \in [Subs -> Nat]
          BY <1>7, <1>8, <3>1, ObserveFacts
        <4>2. CASE it.key = NoKey
          BY <1>8, <3>1, <4>1, <4>2 DEF TypeOK
        <4>3. CASE it.key # NoKey
          <5> DEFINE v == IF IsKey(it) THEN pending[s][it.key] ELSE it.ver
          <5>1. v \in Vers
            BY <1>3, <1>t, <4>3 DEF Typed
          <5>2. [seen[s] EXCEPT ![it.key] = v] \in [Keys -> Vers]
            BY <1>t, <5>1 DEF Typed
          <5>3. seen' = [seen EXCEPT ![s] = [seen[s] EXCEPT ![it.key] = v]]
            BY <1>8, <3>1, <4>3
          <5> HIDE DEF v
          <5> QED BY <4>1, <5>2, <5>3 DEF TypeOK
        <4> QED BY <4>2, <4>3
      <3>2. CASE UNCHANGED client
        BY <3>2 DEF client, TypeOK
      <3> QED BY <1>6, <3>1, <3>2
    <2> QED BY <1>5, <2>1, <2>2, <2>3 DEF TypeOK, hist
  <1>10. ASSUME NEW p \in Subs, p # s PROVE SubInv(p)'
    <2>1. queue'[p] = queue[p] /\ pending'[p] = pending[p] /\ outSeq'[p] = outSeq[p]
      BY <1>5, <1>6, <1>10 DEF TypeOK
    <2>2. expected'[p] = expected[p] /\ lost'[p] = lost[p] /\ seen'[p] = seen[p]
      <3>1. CASE Written(s, it)
        <4>1. expected'[p] = expected[p] /\ lost'[p] = lost[p]
          BY <1>7, <1>8, <1>10, <3>1, ObserveFacts
        <4>2. seen'[p] = seen[p]
          BY <1>8, <1>10, <3>1 DEF TypeOK
        <4> QED BY <4>1, <4>2
      <3>2. CASE UNCHANGED client
        BY <3>2 DEF client
      <3> QED BY <1>6, <3>1, <3>2
    <2>3. Same(p)
      BY <1>5, <2>1, <2>2 DEF Same, hist
    <2> QED BY <1>5, <2>3, SameInv
  <1>11. SubInv(s)'
    <2>1. /\ state'[s] = state[s] /\ symbols'[s] = symbols[s] /\ mode'[s] = mode[s]
          /\ dropped'[s] = dropped[s] /\ cleared'[s] = cleared[s] /\ conflated'[s] = conflated[s]
          /\ denied'[s] = denied[s] /\ since'[s] = since[s] /\ last' = last
      BY <1>5 DEF hist
    <2>2. /\ queue'[s] = Tail(queue[s]) /\ Len(queue'[s]) = Len(queue[s]) - 1
          /\ Places(s)' = 1..(Len(queue[s]) - 1)
          /\ \A i \in Places(s)' : i + 1 \in Places(s) /\ i + 1 > 1 /\ queue'[s][i] = queue[s][i + 1]
          /\ \A i \in Places(s) : i > 1 => i - 1 \in Places(s)' /\ queue'[s][i - 1] = queue[s][i]
          /\ \A i \in Places(s) : i = 1 \/ i > 1
      <3>1. queue'[s] = Tail(queue[s])
        BY <1>5 DEF TypeOK
      <3>2. Places(s)' = 1..(Len(queue[s]) - 1)
        BY <3>1, <1>1 DEF Places
      <3> QED BY <3>1, <3>2, <1>1 DEF Places
    <2>3. /\ IsKey(it) => outSeq'[s] = outSeq[s] + 1 /\ pending'[s][it.key] = 0
          /\ ~IsKey(it) => outSeq'[s] = outSeq[s]
          /\ \A k \in Keys : pending'[s][k] = pending[s][k] \/ (IsKey(it) /\ k = it.key)
      BY <1>4, <1>6 DEF TypeOK
    <2>4. outSeq[s] \in Nat /\ outSeq'[s] >= outSeq[s] /\ outSeq'[s] \in Nat
      BY <1>t, <2>3 DEF Typed
    <2>5. IsKey(it) => \A i \in Places(s) : i > 1 => queue[s][i].key # it.key
      <3> SUFFICES ASSUME IsKey(it), NEW i \in Places(s), i > 1, queue[s][i].key = it.key
                   PROVE FALSE
        OBVIOUS
      <3>1. it.key \in Keys
        BY <1>4
      <3> QED BY <1>2, <1>t, <3>1 DEF SubInv, Ordered, it
    <2>6. \A k \in Keys : NoPending[k] = 0
      BY DEF NoPending
    <2>7. Fresh(s)' /\ WithinLimit(s)'
      BY <1>t, <2>1 DEF SubInv, Fresh, WithinLimit
    <2>8. Shaped(s)'
      <3>1. mode[s] = "stream" => pending'[s] = NoPending
        BY <1>4, <1>6, <1>t DEF SubInv, Shaped
      <3>2. ASSUME NEW i \in Places(s)'
            PROVE /\ IsKey(queue'[s][i]) =>
                       /\ mode[s] = "conflate" /\ queue'[s][i].key \in Keys
                       /\ queue'[s][i].ver = 0 /\ pending'[s][queue'[s][i].key] # 0
                  /\ ~IsKey(queue'[s][i]) =>
                       /\ queue'[s][i].seq < outSeq'[s]
                       /\ queue'[s][i].key = NoKey \/ mode[s] = "stream"
                  /\ queue'[s][i].key \in Keys => queue'[s][i].ver <= last[queue'[s][i].key]
        <4> DEFINE j == i + 1
        <4>1. j \in Places(s) /\ j > 1 /\ queue'[s][i] = queue[s][j]
          BY <2>2, <3>2
        <4> HIDE DEF j
        <4>2. queue[s][j].seq \in Nat \cup {Unset}
          BY <1>t, <4>1, ItemFacts
        <4>3. ~IsKey(queue[s][j]) => queue[s][j].seq < outSeq'[s]
                                     /\ (queue[s][j].key = NoKey \/ mode[s] = "stream")
          <5>1. ~IsKey(queue[s][j]) => queue[s][j].seq < outSeq[s] /\ queue[s][j].seq \in Nat
                                       /\ (queue[s][j].key = NoKey \/ mode[s] = "stream")
            BY <1>t, <4>1, <4>2 DEF SubInv, Shaped, IsKey
          <5> QED BY <5>1, <2>4
        <4>4. queue[s][j].key \in Keys => queue[s][j].ver <= last[queue[s][j].key]
          BY <1>t, <4>1 DEF SubInv, Shaped
        <4>5. IsKey(queue[s][j]) => /\ mode[s] = "conflate" /\ queue[s][j].key \in Keys
                                    /\ queue[s][j].ver = 0 /\ pending'[s][queue[s][j].key] # 0
          <5>1. IsKey(queue[s][j]) => /\ mode[s] = "conflate" /\ queue[s][j].key \in Keys
                                      /\ queue[s][j].ver = 0 /\ pending[s][queue[s][j].key] # 0
            BY <1>t, <4>1 DEF SubInv, Shaped
          <5> QED BY <5>1, <2>3, <2>5, <4>1
        <4> QED BY <4>1, <4>3, <4>4, <4>5
      <3> QED BY <2>1, <3>1, <3>2 DEF Shaped, IsKey
    <2>9. Ordered(s)'
      <3> SUFFICES ASSUME NEW i \in Places(s)', NEW j \in Places(s)', i < j,
                          queue'[s][i].key \in Keys, queue'[s][i].key = queue'[s][j].key
                   PROVE  /\ ~IsKey(queue'[s][i]) /\ ~IsKey(queue'[s][j])
                          /\ queue'[s][i].ver < queue'[s][j].ver
        BY DEF Ordered, IsKey
      <3>1. i + 1 \in Places(s) /\ j + 1 \in Places(s) /\ i + 1 < j + 1
            /\ queue'[s][i] = queue[s][i + 1] /\ queue'[s][j] = queue[s][j + 1]
        BY <2>2
      <3> QED BY <1>t, <3>1 DEF SubInv, Ordered
    <2>10. CASE state[s] = "closed"
      BY <2>1, <2>7, <2>8, <2>9, <2>10 DEF SubInv, Streaming, Tracked, Placed, Current
    <2>11. CASE state[s] = "on"
      <3>1. Written(s, it)
        BY <1>6, <2>11
      <3>2. /\ expected[s] = Unset => expected'[s] = q + 1 /\ lost'[s] = lost[s]
            /\ expected[s] # Unset /\ q >= expected[s] =>
                 expected'[s] = q + 1 /\ lost'[s] = lost[s] + q - expected[s]
            /\ expected[s] # Unset /\ q < expected[s] =>
                 expected'[s] = expected[s] /\ lost'[s] = lost[s]
        BY <1>7, <1>8, <3>1, ObserveFacts
      <3>3. /\ expected[s] \in Nat \cup {Unset} /\ lost[s] \in Nat /\ dropped[s] \in Nat
            /\ Len(queue[s]) \in Nat
        BY <1>t, Bounds DEF Typed
      <3>4. Streaming(s)'
        <4> SUFFICES ASSUME ~conflated[s] PROVE
              /\ mode[s] = "stream"
              /\ \A i \in Places(s)' : queue'[s][i].seq = FrontSeq(s)' + i - 1
              /\ expected'[s] = Unset => lost'[s] = 0 /\ FrontSeq(s)' <= dropped[s]
              /\ expected'[s] # Unset => /\ expected'[s] >= 1 /\ lost'[s] <= dropped[s]
                                         /\ lost'[s] + FrontSeq(s)' - expected'[s] <= dropped[s]
          BY <2>1 DEF Streaming
        <4>1. mode[s] = "stream" /\ ~IsKey(it)
          BY <1>4, <1>t, <2>11 DEF SubInv, Streaming
        <4>2. FrontSeq(s) \in Int /\ FrontSeq(s)' = FrontSeq(s) + 1
          <5>1. Len(queue'[s]) = Len(queue[s]) - 1 /\ outSeq'[s] = outSeq[s]
            BY <2>2, <2>3, <4>1
          <5>2. FrontSeq(s)' = outSeq[s] - (Len(queue[s]) - 1)
            BY <5>1 DEF FrontSeq
          <5> QED BY <2>4, <3>3, <5>2 DEF FrontSeq
        <4>3. q = FrontSeq(s) /\ FrontSeq(s) \in Nat
          <5>1. it.seq = FrontSeq(s) + 1 - 1
            BY <1>2, <1>t, <2>11 DEF SubInv, Streaming, it
          <5>2. it.seq = FrontSeq(s)
            BY <5>1, <4>2
          <5> QED BY <1>7, <4>1, <5>2 DEF q
        <4>4. \A i \in Places(s)' : queue'[s][i].seq = FrontSeq(s)' + i - 1
          <5> SUFFICES ASSUME NEW i \in Places(s)' PROVE queue'[s][i].seq = FrontSeq(s)' + i - 1
            OBVIOUS
          <5>1. i + 1 \in Places(s) /\ queue'[s][i] = queue[s][i + 1] /\ i \in Int
            BY <2>2
          <5>2. queue[s][i + 1].seq = FrontSeq(s) + (i + 1) - 1
            BY <5>1, <1>t, <2>11 DEF SubInv, Streaming
          <5> QED BY <4>2, <5>1, <5>2
        <4>5. /\ expected[s] = Unset => lost[s] = 0 /\ FrontSeq(s) <= dropped[s]
              /\ expected[s] # Unset => /\ expected[s] >= 1 /\ lost[s] <= dropped[s]
                                        /\ lost[s] + FrontSeq(s) - expected[s] <= dropped[s]
          BY <1>t, <2>11 DEF SubInv, Streaming
        <4> DEFINE Done == /\ expected'[s] = Unset => lost'[s] = 0 /\ FrontSeq(s)' <= dropped[s]
                           /\ expected'[s] # Unset =>
                                /\ expected'[s] >= 1 /\ lost'[s] <= dropped[s]
                                /\ lost'[s] + FrontSeq(s)' - expected'[s] <= dropped[s]
        <4> HIDE DEF Done
        <4>6. CASE expected[s] = Unset
          <5>1. Done
            <6>1. expected'[s] = FrontSeq(s) + 1 /\ lost'[s] = 0 /\ FrontSeq(s)' = FrontSeq(s) + 1
              BY <3>2, <4>2, <4>3, <4>5, <4>6
            <6>2. FrontSeq(s) \in Nat /\ dropped[s] \in Nat
              BY <3>3, <4>3
            <6>3. expected'[s] # Unset /\ expected'[s] >= 1 /\ lost'[s] <= dropped[s]
              BY <6>1, <6>2 DEF Unset
            <6>4. lost'[s] + FrontSeq(s)' - expected'[s] <= dropped[s]
              BY <6>1, <6>2
            <6> QED BY <6>3, <6>4 DEF Done
          <5> QED BY <4>1, <4>4, <5>1 DEF Done
        <4>7. CASE expected[s] # Unset /\ q >= expected[s]
          <5>1. Done
            BY <3>2, <3>3, <4>2, <4>3, <4>5, <4>7 DEF Unset, Done
          <5> QED BY <4>1, <4>4, <5>1 DEF Done
        <4>8. CASE expected[s] # Unset /\ q < expected[s]
          <5>1. Done
            BY <3>2, <3>3, <4>2, <4>3, <4>5, <4>8 DEF Unset, Done
          <5> QED BY <4>1, <4>4, <5>1 DEF Done
        <4> QED BY <3>3, <4>3, <4>6, <4>7, <4>8
      <3>5. Tracked(s)'
        <4> SUFFICES ASSUME ~denied[s], cleared[s] = 0 PROVE
              /\ expected'[s] <= outSeq'[s]
              /\ \/ expected'[s] = outSeq'[s]
                 \/ \E i \in Places(s)' : IsKey(queue'[s][i]) \/ queue'[s][i].seq = outSeq'[s] - 1
          BY <2>1 DEF Tracked, IsKey
        <4>1. /\ expected[s] <= outSeq[s]
              /\ \/ expected[s] = outSeq[s]
                 \/ \E i \in Places(s) : IsKey(queue[s][i]) \/ queue[s][i].seq = outSeq[s] - 1
          BY <1>t, <2>11 DEF SubInv, Tracked
        <4>2. CASE IsKey(it)
          <5>1. q = outSeq[s] /\ outSeq'[s] = outSeq[s] + 1
            BY <4>2, <2>3 DEF q
          <5>2. expected'[s] = outSeq'[s]
            BY <5>1, <3>2, <3>3, <4>1, <2>4
          <5> QED BY <5>2, <2>4
        <4>3. CASE ~IsKey(it)
          <5>1. q < outSeq[s] /\ outSeq'[s] = outSeq[s] /\ q \in Nat
            BY <4>3, <1>7, <2>3
          <5>2. expected'[s] <= outSeq'[s]
            BY <5>1, <3>2, <3>3, <4>1, <2>4
          <5>3. CASE expected[s] = outSeq[s]
            <6>1. expected[s] # Unset /\ q < expected[s]
              BY <5>1, <5>3, <2>4 DEF Unset
            <6> QED BY <3>2, <5>1, <5>2, <5>3, <6>1
          <5>4. ASSUME NEW i \in Places(s), IsKey(queue[s][i]) \/ queue[s][i].seq = outSeq[s] - 1
                PROVE  \/ expected'[s] = outSeq'[s]
                       \/ \E j \in Places(s)' : IsKey(queue'[s][j]) \/ queue'[s][j].seq = outSeq'[s] - 1
            <6>1. CASE i = 1
              <7>1. q = outSeq[s] - 1
                BY <4>3, <5>4, <6>1 DEF it, q
              <7> QED BY <7>1, <5>1, <3>2, <3>3, <4>1, <2>4
            <6>2. CASE i > 1
              BY <2>2, <5>1, <5>4, <6>2
            <6> QED BY <2>2, <6>1, <6>2
          <5> QED BY <4>1, <5>2, <5>3, <5>4
        <4> QED BY <4>2, <4>3
      <3>6. Placed(s)'
        <4> SUFFICES ASSUME dropped[s] = 0, NEW k \in Keys, pending'[s][k] # 0
                     PROVE  \E i \in Places(s)' : IsKey(queue'[s][i]) /\ queue'[s][i].key = k
          BY <2>1 DEF Placed, IsKey
        <4>1. pending[s][k] # 0 /\ ~(IsKey(it) /\ it.key = k)
          BY <2>3
        <4>2. PICK i \in Places(s) : IsKey(queue[s][i]) /\ queue[s][i].key = k
          BY <1>t, <2>11, <4>1 DEF SubInv, Placed
        <4>3. i # 1
          BY <4>1, <4>2 DEF it
        <4>4. i - 1 \in Places(s)' /\ queue'[s][i - 1] = queue[s][i]
          BY <2>2, <4>3
        <4> QED BY <4>2, <4>4
      <3>7. Current(s)'
        <4> SUFFICES ASSUME dropped[s] = 0, cleared[s] = 0, NEW k \in symbols[s]
                     PROVE  \/ last[k] = since[s][k] \/ last[k] = pending'[s][k]
                            \/ \E i \in Places(s)' : /\ ~IsKey(queue'[s][i]) /\ queue'[s][i].key = k
                                                     /\ queue'[s][i].ver = last[k]
                            \/ /\ last[k] = seen'[s][k] /\ pending'[s][k] = 0
                               /\ \A i \in Places(s)' : queue'[s][i].key # k
          BY <2>1 DEF Current, IsKey
        <4>0. k \in Keys /\ k # NoKey
          BY <1>t, Bounds DEF Typed
        <4>1. /\ it.key = k => seen'[s][k] = IF IsKey(it) THEN pending[s][k] ELSE it.ver
              /\ it.key # k => seen'[s][k] = seen[s][k]
          BY <1>8, <3>1, <4>0 DEF TypeOK
        <4>2. CASE last[k] = since[s][k]
          BY <4>2
        <4>3. CASE last[k] = pending[s][k]
          <5>1. CASE IsKey(it) /\ it.key = k
            BY <2>2, <2>3, <2>5, <4>1, <4>3, <5>1
          <5>2. CASE ~(IsKey(it) /\ it.key = k)
            BY <2>3, <4>0, <4>3, <5>2
          <5> QED BY <5>1, <5>2
        <4>4. ASSUME NEW i \in Places(s), ~IsKey(queue[s][i]), queue[s][i].key = k,
                     queue[s][i].ver = last[k]
              PROVE  \/ \E j \in Places(s)' : /\ ~IsKey(queue'[s][j]) /\ queue'[s][j].key = k
                                              /\ queue'[s][j].ver = last[k]
                     \/ /\ last[k] = seen'[s][k] /\ pending'[s][k] = 0
                        /\ \A j \in Places(s)' : queue'[s][j].key # k
          <5>1. CASE i > 1
            BY <2>2, <4>4, <5>1
          <5>2. CASE i = 1
            <6>1. it.key = k /\ it.ver = last[k] /\ ~IsKey(it)
              BY <4>4, <5>2 DEF it
            <6>2. pending'[s][k] = 0
              BY <1>t, <1>7, <2>3, <2>6, <4>0, <6>1 DEF SubInv, Shaped
            <6>3. ASSUME NEW j \in Places(s)', queue'[s][j].key = k PROVE FALSE
              <7>1. j + 1 \in Places(s) /\ j + 1 > 1 /\ queue[s][j + 1].key = k
                BY <2>2, <6>3
              <7>2. queue[s][1].ver < queue[s][j + 1].ver
                BY <1>2, <1>t, <4>0, <4>4, <5>2, <7>1 DEF SubInv, Ordered
              <7>3. queue[s][j + 1].ver <= last[k]
                BY <1>t, <4>0, <7>1 DEF SubInv, Shaped
              <7>4. queue[s][j + 1].ver \in Int /\ last[k] \in Int
                <8>1. queue[s][j + 1].ver \in Vers /\ last[k] \in Vers
                  BY <1>t, <4>0, <7>1, ItemFacts DEF TypeOK
                <8> QED BY <8>1 DEF Vers
              <7> QED BY <4>4, <5>2, <7>2, <7>3, <7>4
            <6> QED BY <4>1, <6>1, <6>2, <6>3
          <5> QED BY <2>2, <5>1, <5>2
        <4>5. CASE /\ last[k] = seen[s][k] /\ pending[s][k] = 0
                   /\ \A i \in Places(s) : queue[s][i].key # k
          <5>1. it.key # k
            BY <1>2, <4>5 DEF it
          <5>2. pending'[s][k] = 0 /\ last[k] = seen'[s][k]
            BY <2>3, <4>0, <4>1, <4>5, <5>1
          <5> QED BY <2>2, <4>5, <5>2
        <4> QED BY <1>t, <2>11, <4>2, <4>3, <4>4, <4>5 DEF SubInv, Current
      <3> QED BY <2>7, <2>8, <2>9, <3>4, <3>5, <3>6, <3>7 DEF SubInv
    <2> QED BY <1>t, <2>10, <2>11 DEF Typed
  <1>12. \A k \in Keys : last'[k] <= frames'
    BY <1>5
  <1> QED BY <1>9, <1>10, <1>11, <1>12

-----------------------------------------------------------------------------
(* The fan-out of a frame, as each subscriber sees it.                     *)

\* What no fan-out changes.
Rest(s) ==
    /\ symbols'[s] = symbols[s] /\ mode'[s] = mode[s]
    /\ expected'[s] = expected[s] /\ lost'[s] = lost[s] /\ seen'[s] = seen[s]
    /\ cleared'[s] = cleared[s] /\ conflated'[s] = conflated[s]
    /\ denied'[s] = denied[s] /\ since'[s] = since[s]

\* The frame is not for the subscriber.
Skip(s, k) ==
    /\ ~Receives(s, k) /\ state'[s] = state[s] /\ queue'[s] = queue[s]
    /\ pending'[s] = pending[s] /\ outSeq'[s] = outSeq[s] /\ dropped'[s] = dropped[s]

\* The frame replaces the value that waits.
Merge(s, k) ==
    /\ Receives(s, k) /\ mode[s] = "conflate" /\ k \in Keys /\ pending[s][k] # 0
    /\ state'[s] = state[s] /\ queue'[s] = queue[s] /\ outSeq'[s] = outSeq[s]
    /\ dropped'[s] = dropped[s]
    /\ pending'[s] = [pending[s] EXCEPT ![k] = frames + 1]

\* The queue q is what d drops leave.
Room(s, d, q) ==
    /\ d \in {0, 1} /\ q \in Seq(Items) /\ Len(q) = Len(queue[s]) - d /\ Len(q) \in Nat
    /\ Len(q) < QueueSize
    /\ \A i \in 1..Len(q) : i + d \in Places(s) /\ q[i] = queue[s][i + d]

\* The subscriber is cut off.
Kick(s) ==
    /\ state[s] = "on" /\ state'[s] = "closed" /\ Room(s, 1, queue'[s])
    /\ pending'[s] = pending[s] /\ outSeq'[s] >= outSeq[s] /\ outSeq'[s] \in Nat
    /\ dropped'[s] = dropped[s] + 1

\* The frame is queued behind what d drops leave, numbered or as a key.
Add(s, k, d, q) ==
    /\ Receives(s, k) /\ state'[s] = "on" /\ Room(s, d, q)
    /\ dropped'[s] = dropped[s] + d /\ dropped'[s] <= DropLimit
    /\ \/ /\ k = NoKey \/ mode[s] = "stream"
          /\ outSeq'[s] = outSeq[s] + 1 /\ pending'[s] = pending[s]
          /\ queue'[s] = Append(q, RawItem(outSeq[s], k, frames + 1))
       \/ /\ k \in Keys /\ mode[s] = "conflate" /\ pending[s][k] = 0
          /\ outSeq'[s] = outSeq[s] /\ pending'[s] = [pending[s] EXCEPT ![k] = frames + 1]
          /\ queue'[s] = Append(q, KeyItem(k))

\* Fan-out does one of four things to a subscriber: skip, merge, kick or add.
LEMMA FanoutForms ==
    ASSUME Inv, NEW k \in Keys \cup {NoKey}, Fanout(k), NEW s \in Subs
    PROVE  /\ Rest(s)
           /\ Skip(s, k) \/ Merge(s, k) \/ Kick(s) \/ \E d \in {0, 1}, q \in Seq(Items) : Add(s, k, d, q)
  <1> USE DEF Inv
  <1>t. Typed(s) /\ SubInv(s)
    BY TypedSub
  <1>1. Rest(s)
    BY DEF Rest, Fanout, client, hist
  <1>2. /\ queue'[s] = Queued(s, k, frames + 1) /\ pending'[s] = Pended(s, k, frames + 1)
        /\ outSeq'[s] = NumberedTo(s, k)
        /\ dropped'[s] = IF Overflows(s, k) THEN dropped[s] + 1 ELSE dropped[s]
        /\ state'[s] = IF Kicked(s, k) THEN "closed" ELSE state[s]
    BY DEF Fanout
  <1>3. /\ Len(queue[s]) \in Nat /\ Len(queue[s]) <= QueueSize /\ queue[s] \in Seq(Items)
        /\ outSeq[s] \in Nat /\ dropped[s] \in Nat /\ mode[s] \in {"stream", "conflate"}
    BY <1>t, Bounds DEF Typed
  <1>4. CASE ~Receives(s, k)
    <2>1. ~Overflows(s, k) /\ ~Kicked(s, k)
      BY <1>4 DEF Overflows, Kicked
    <2> QED BY <1>1, <1>2, <1>4, <2>1 DEF Skip, Queued, Pended, NumberedTo
  <1>5. CASE Receives(s, k) /\ Merges(s, k)
    <2>1. ~Overflows(s, k) /\ ~Kicked(s, k) /\ ~Numbered(s, k) /\ pending[s][k] # 0
      BY <1>5 DEF Overflows, Kicked, Merges
    <2>2. mode[s] = "conflate" /\ k \in Keys
      BY <1>3, <2>1 DEF Numbered
    <2> QED BY <1>1, <1>2, <1>5, <2>1, <2>2 DEF Merge, Queued, Pended, NumberedTo
  <1>6. CASE Receives(s, k) /\ ~Merges(s, k)
    <2> DEFINE d == IF Overflows(s, k) THEN 1 ELSE 0
               q == IF Overflows(s, k) THEN Tail(queue[s]) ELSE queue[s]
    <2>1. Room(s, d, q) /\ dropped'[s] = dropped[s] + d
      <3>1. CASE Overflows(s, k)
        <4>1. Len(queue[s]) = QueueSize /\ queue[s] # <<>>
          BY <3>1, Bounds DEF Overflows
        <4>2. /\ Tail(queue[s]) \in Seq(Items) /\ Len(Tail(queue[s])) = Len(queue[s]) - 1
              /\ Len(queue[s]) \in Nat \ {0}
              /\ \A i \in 1..(Len(queue[s]) - 1) : Tail(queue[s])[i] = queue[s][i + 1]
          BY <1>3, <4>1, TailFacts
        <4>3. Room(s, 1, Tail(queue[s]))
          BY <4>1, <4>2 DEF Room, Places
        <4> QED BY <1>2, <3>1, <4>3
      <3>2. CASE ~Overflows(s, k)
        <4>1. Len(queue[s]) < QueueSize
          BY <1>3, <1>6, <3>2, Bounds DEF Overflows
        <4>2. Room(s, 0, queue[s])
          BY <1>3, <4>1 DEF Room, Places
        <4> QED BY <1>2, <1>3, <3>2, <4>2
      <3> QED BY <3>1, <3>2
    <2>2. state[s] = "on"
      BY <1>6 DEF Receives
    <2>3. CASE Kicked(s, k)
      <3>1. Overflows(s, k)
        BY <2>3 DEF Kicked
      <3>2. queue'[s] = Tail(queue[s]) /\ pending'[s] = pending[s] /\ dropped'[s] = dropped[s] + 1
            /\ state'[s] = "closed"
        BY <1>2, <1>6, <2>3, <3>1 DEF Queued, Pended
      <3>3. outSeq'[s] >= outSeq[s] /\ outSeq'[s] \in Nat
        BY <1>2, <1>3 DEF NumberedTo
      <3>4. Room(s, 1, queue'[s])
        BY <2>1, <3>1, <3>2
      <3> QED BY <1>1, <2>2, <3>2, <3>3, <3>4 DEF Kick
    <2>4. CASE ~Kicked(s, k)
      <3>1. dropped'[s] <= DropLimit
        <4>1. CASE Overflows(s, k)
          BY <1>2, <1>3, <2>4, <4>1, Bounds DEF Kicked
        <4>2. CASE ~Overflows(s, k)
          BY <1>2, <1>t, <2>2, <4>2 DEF SubInv, WithinLimit
        <4> QED BY <4>1, <4>2
      <3>2. queue'[s] = Append(q, IF Numbered(s, k) THEN RawItem(outSeq[s], k, frames + 1) ELSE KeyItem(k))
        BY <1>2, <1>6, <2>4 DEF Queued
      <3>3. state'[s] = "on"
        BY <1>2, <2>2, <2>4
      <3> HIDE DEF q, d
      <3>4. d \in {0, 1} /\ q \in Seq(Items)
        BY <2>1 DEF Room
      <3>5. CASE Numbered(s, k)
        <4>1. k = NoKey \/ mode[s] = "stream"
          BY <3>5 DEF Numbered
        <4>2. outSeq'[s] = outSeq[s] + 1 /\ pending'[s] = pending[s]
          BY <1>2, <1>6, <3>5 DEF NumberedTo, Pended
        <4>3. Add(s, k, d, q)
          BY <1>6, <2>1, <3>1, <3>2, <3>3, <3>5, <4>1, <4>2 DEF Add
        <4> QED BY <1>1, <3>4, <4>3
      <3>6. CASE ~Numbered(s, k)
        <4>1. k \in Keys /\ mode[s] = "conflate" /\ pending[s][k] = 0
          BY <1>3, <1>6, <3>6 DEF Numbered, Merges
        <4>2. outSeq'[s] = outSeq[s] /\ pending'[s] = [pending[s] EXCEPT ![k] = frames + 1]
          BY <1>2, <1>6, <2>4, <3>6 DEF NumberedTo, Pended
        <4>3. Add(s, k, d, q)
          BY <1>6, <2>1, <3>1, <3>2, <3>3, <3>6, <4>1, <4>2 DEF Add
        <4> QED BY <1>1, <3>4, <4>3
      <3> QED BY <3>5, <3>6
    <2> QED BY <2>3, <2>4
  <1> QED BY <1>4, <1>5, <1>6

\* The latest frames after a fan-out.
LEMMA LastFacts ==
    ASSUME Inv, NEW k \in Keys \cup {NoKey}, Fanout(k)
    PROVE  /\ frames' = frames + 1 /\ frames + 1 \in Vers /\ frames + 1 # 0
           /\ last' \in [Keys -> Vers]
           /\ \A j \in Keys : /\ last[j] \in Int /\ last[j] < frames + 1
                              /\ last'[j] = IF j = k THEN frames + 1 ELSE last[j]
                              /\ last[j] <= last'[j] /\ last'[j] <= frames + 1
  <1>1. frames \in Nat /\ frames < MaxFrames /\ frames' = frames + 1
    BY Bounds DEF Inv, TypeOK, Fanout, Vers
  <1>2. frames + 1 \in Vers /\ frames + 1 # 0
    BY <1>1, Bounds DEF Vers
  <1>3. \A j \in Keys : last[j] \in Vers /\ last[j] <= frames
    BY DEF Inv, TypeOK
  <1>4. \A j \in Keys : last[j] \in Int /\ last[j] < frames + 1
    BY <1>1, <1>3 DEF Vers
  <1>5. last' = IF k = NoKey THEN last ELSE [last EXCEPT ![k] = frames + 1]
    BY DEF Fanout
  <1>6. last' \in [Keys -> Vers] /\ \A j \in Keys : last'[j] = IF j = k THEN frames + 1 ELSE last[j]
    <2>1. CASE k = NoKey
      BY <1>5, <2>1, Bounds DEF Inv, TypeOK
    <2>2. CASE k # NoKey
      BY <1>2, <1>5, <2>2 DEF Inv, TypeOK
    <2> QED BY <2>1, <2>2
  <1> QED BY <1>1, <1>2, <1>4, <1>6

\* The fields a fan-out changes keep their types.
Shape(s) ==
    /\ state'[s] \in {"off", "on", "closed"} /\ queue'[s] \in Seq(Items)
    /\ Len(queue'[s]) <= QueueSize /\ pending'[s] \in [Keys -> Vers]
    /\ outSeq'[s] \in Nat /\ dropped'[s] \in 0..(DropLimit + 1)

\* A frame the subscriber does not follow leaves it as it was.
LEMMA SkipInv ==
    ASSUME Inv, NEW k \in Keys \cup {NoKey}, Fanout(k), NEW s \in Subs, Rest(s), Skip(s, k)
    PROVE  SubInv(s)' /\ Shape(s)
  <1>t. Typed(s) /\ SubInv(s)
    BY TypedSub DEF Inv
  <1>1. /\ state'[s] = state[s] /\ queue'[s] = queue[s] /\ pending'[s] = pending[s]
        /\ outSeq'[s] = outSeq[s] /\ dropped'[s] = dropped[s]
    BY DEF Skip
  <1>2. Shape(s)
    BY <1>1, <1>t DEF Shape, Typed
  <1>3. Fresh(s)' /\ WithinLimit(s)' /\ Ordered(s)' /\ Streaming(s)' /\ Tracked(s)' /\ Placed(s)'
    BY <1>1, <1>t DEF Rest, SubInv, Fresh, WithinLimit, Ordered, Streaming, FrontSeq, Tracked, Placed,
                     Places, IsKey
  <1>4. Shaped(s)'
    <2>1. \A i \in Places(s) : queue[s][i].key \in Keys =>
            queue[s][i].ver <= last'[queue[s][i].key]
      <3> SUFFICES ASSUME NEW i \in Places(s), queue[s][i].key \in Keys
                   PROVE  queue[s][i].ver <= last'[queue[s][i].key]
        OBVIOUS
      <3>1. queue[s][i].ver <= last[queue[s][i].key] /\ queue[s][i].ver \in Int
        BY <1>t, ItemFacts DEF SubInv, Shaped, Vers
      <3>2. /\ last[queue[s][i].key] <= last'[queue[s][i].key]
            /\ last[queue[s][i].key] \in Int /\ last'[queue[s][i].key] \in Int
        BY LastFacts DEF Vers
      <3> QED BY <3>1, <3>2
    <2> QED BY <1>1, <1>t, <2>1 DEF Rest, SubInv, Shaped, Places, IsKey
  <1>5. Current(s)'
    <2> SUFFICES ASSUME state[s] = "on", dropped[s] = 0, cleared[s] = 0, NEW j \in symbols[s]
                 PROVE  \/ last'[j] = since[s][j] \/ last'[j] = pending[s][j]
                        \/ \E i \in Places(s) : /\ ~IsKey(queue[s][i]) /\ queue[s][i].key = j
                                                /\ queue[s][i].ver = last'[j]
                        \/ /\ last'[j] = seen[s][j] /\ pending[s][j] = 0
                           /\ \A i \in Places(s) : queue[s][i].key # j
      BY <1>1 DEF Rest, Current, Places, IsKey
    <2>1. j \in Keys /\ j # k
      BY <1>t DEF Skip, Receives, Typed
    <2>2. last'[j] = last[j]
      BY <2>1, LastFacts
    <2> QED BY <1>t, <2>2 DEF SubInv, Current
  <1> QED BY <1>2, <1>3, <1>4, <1>5 DEF SubInv

\* A conflated frame replaces the one of its instrument at its place.
LEMMA MergeInv ==
    ASSUME Inv, NEW k \in Keys \cup {NoKey}, Fanout(k), NEW s \in Subs, Rest(s), Merge(s, k)
    PROVE  SubInv(s)' /\ Shape(s)
  <1>t. Typed(s) /\ SubInv(s)
    BY TypedSub DEF Inv
  <1>1. /\ state'[s] = state[s] /\ queue'[s] = queue[s] /\ outSeq'[s] = outSeq[s]
        /\ dropped'[s] = dropped[s] /\ state[s] = "on" /\ mode[s] = "conflate" /\ k \in Keys
    BY DEF Merge, Receives
  <1>2. frames + 1 \in Vers /\ frames + 1 # 0 /\ last'[k] = frames + 1
        /\ \A j \in Keys : last'[j] = IF j = k THEN frames + 1 ELSE last[j]
    BY <1>1, LastFacts
  <1>3. pending'[s] \in [Keys -> Vers]
        /\ \A j \in Keys : pending'[s][j] = IF j = k THEN frames + 1 ELSE pending[s][j]
    BY <1>2, <1>t DEF Merge, Typed
  <1>4. Shape(s)
    BY <1>1, <1>3, <1>t DEF Shape, Typed
  <1>5. \A j \in Keys : (pending'[s][j] = 0) <=> (pending[s][j] = 0)
    <2>1. pending[s][k] # 0
      BY DEF Merge
    <2>2. ASSUME NEW j \in Keys PROVE (pending'[s][j] = 0) <=> (pending[s][j] = 0)
      <3>1. CASE j = k
        BY <1>2, <1>3, <2>1, <3>1
      <3>2. CASE j # k
        BY <1>3, <3>2
      <3> QED BY <3>1, <3>2
    <2> QED BY <2>2
  <1>6. Fresh(s)' /\ WithinLimit(s)' /\ Ordered(s)' /\ Streaming(s)' /\ Tracked(s)' /\ Placed(s)'
    <2>1. Fresh(s)' /\ WithinLimit(s)' /\ Ordered(s)' /\ Streaming(s)' /\ Tracked(s)'
      BY <1>1, <1>t DEF Rest, SubInv, Fresh, WithinLimit, Ordered, Streaming, FrontSeq, Tracked,
                        Places, IsKey
    <2>2. Placed(s)'
      BY <1>1, <1>5, <1>t DEF SubInv, Placed, Places, IsKey
    <2> QED BY <2>1, <2>2
  <1>7. Shaped(s)'
    <2>1. \A i \in Places(s) : queue[s][i].key \in Keys =>
            queue[s][i].ver <= last'[queue[s][i].key]
      <3> SUFFICES ASSUME NEW i \in Places(s), queue[s][i].key \in Keys
                   PROVE  queue[s][i].ver <= last'[queue[s][i].key]
        OBVIOUS
      <3>1. queue[s][i].ver <= last[queue[s][i].key] /\ queue[s][i].ver \in Int
        BY <1>t, ItemFacts DEF SubInv, Shaped, Vers
      <3>2. /\ last[queue[s][i].key] <= last'[queue[s][i].key]
            /\ last[queue[s][i].key] \in Int /\ last'[queue[s][i].key] \in Int
        BY LastFacts DEF Vers
      <3> QED BY <3>1, <3>2
    <2>2. mode'[s] # "stream"
      BY <1>1 DEF Rest
    <2> QED BY <1>1, <1>5, <1>t, <2>1, <2>2 DEF Rest, SubInv, Shaped, Places, IsKey
  <1>8. Current(s)'
    <2> SUFFICES ASSUME dropped[s] = 0, cleared[s] = 0, NEW j \in symbols[s]
                 PROVE  \/ last'[j] = since[s][j] \/ last'[j] = pending'[s][j]
                        \/ \E i \in Places(s) : /\ ~IsKey(queue[s][i]) /\ queue[s][i].key = j
                                                /\ queue[s][i].ver = last'[j]
                        \/ /\ last'[j] = seen[s][j] /\ pending'[s][j] = 0
                           /\ \A i \in Places(s) : queue[s][i].key # j
      BY <1>1 DEF Rest, Current, Places, IsKey
    <2>1. j \in Keys
      BY <1>t DEF Typed
    <2>2. CASE j = k
      BY <1>2, <1>3, <2>1, <2>2
    <2>3. CASE j # k
      <3>1. last'[j] = last[j] /\ pending'[s][j] = pending[s][j]
        BY <1>2, <1>3, <2>1, <2>3
      <3> QED BY <1>1, <1>t, <3>1 DEF SubInv, Current
    <2> QED BY <2>2, <2>3
  <1> QED BY <1>4, <1>6, <1>7, <1>8 DEF SubInv

\* What is left of a queue of one form keeps the form.
LEMMA RoomFacts ==
    ASSUME Inv, NEW k \in Keys \cup {NoKey}, Fanout(k), NEW s \in Subs,
           NEW d \in {0, 1}, NEW q \in Seq(Items), Room(s, d, q),
           NEW i \in 1..Len(q)
    PROVE  /\ q[i] \in Items /\ q[i].ver \in Int /\ q[i].seq \in Nat \cup {Unset}
           /\ IsKey(q[i]) => /\ mode[s] = "conflate" /\ q[i].key \in Keys
                             /\ q[i].ver = 0 /\ pending[s][q[i].key] # 0
           /\ ~IsKey(q[i]) => /\ q[i].seq < outSeq[s] /\ q[i].seq \in Nat
                              /\ q[i].key = NoKey \/ mode[s] = "stream"
           /\ q[i].key \in Keys => q[i].ver <= last'[q[i].key] /\ q[i].ver < frames + 1
           /\ \A j \in 1..Len(q) :
                i < j /\ q[i].key \in Keys /\ q[i].key = q[j].key
                  => ~IsKey(q[i]) /\ ~IsKey(q[j]) /\ q[i].ver < q[j].ver
  <1>t. Typed(s) /\ SubInv(s)
    BY TypedSub DEF Inv
  <1>1. i + d \in Places(s) /\ q[i] = queue[s][i + d]
    BY DEF Room
  <1>2. q[i] \in Items /\ q[i].ver \in Vers /\ q[i].seq \in Nat \cup {Unset}
    BY <1>1, <1>t, ItemFacts
  <1>3. /\ IsKey(q[i]) => /\ mode[s] = "conflate" /\ q[i].key \in Keys
                          /\ q[i].ver = 0 /\ pending[s][q[i].key] # 0
        /\ ~IsKey(q[i]) => /\ q[i].seq < outSeq[s]
                           /\ q[i].key = NoKey \/ mode[s] = "stream"
        /\ q[i].key \in Keys => q[i].ver <= last[q[i].key]
    BY <1>1, <1>t DEF SubInv, Shaped
  <1>4. q[i].key \in Keys => q[i].ver <= last'[q[i].key] /\ q[i].ver < frames + 1
    <2> SUFFICES ASSUME q[i].key \in Keys
                 PROVE  q[i].ver <= last'[q[i].key] /\ q[i].ver < frames + 1
      OBVIOUS
    <2>1. /\ last[q[i].key] <= last'[q[i].key] /\ last[q[i].key] < frames + 1
          /\ last[q[i].key] \in Int /\ last'[q[i].key] \in Int /\ frames + 1 \in Int
      BY LastFacts DEF Vers
    <2>2. q[i].ver \in Int
      BY <1>2 DEF Vers
    <2> QED BY <1>3, <2>1, <2>2
  <1>5. ASSUME NEW j \in 1..Len(q), i < j, q[i].key \in Keys, q[i].key = q[j].key
        PROVE  ~IsKey(q[i]) /\ ~IsKey(q[j]) /\ q[i].ver < q[j].ver
    <2>1. j + d \in Places(s) /\ q[j] = queue[s][j + d]
      BY DEF Room
    <2>2. i + d < j + d
      BY <1>5 DEF Room
    <2> QED BY <1>1, <1>5, <1>t, <2>1, <2>2 DEF SubInv, Ordered
  <1> QED BY <1>2, <1>3, <1>4, <1>5 DEF IsKey, Vers

\* A lossless subscriber whose queue is full is disconnected.
LEMMA KickInv ==
    ASSUME Inv, NEW k \in Keys \cup {NoKey}, Fanout(k), NEW s \in Subs, Rest(s), Kick(s)
    PROVE  SubInv(s)' /\ Shape(s)
  <1>t. Typed(s) /\ SubInv(s)
    BY TypedSub DEF Inv
  <1>1. /\ state[s] = "on" /\ state'[s] = "closed" /\ pending'[s] = pending[s]
        /\ outSeq'[s] >= outSeq[s] /\ outSeq'[s] \in Nat /\ dropped'[s] = dropped[s] + 1
        /\ Room(s, 1, queue'[s]) /\ queue'[s] \in Seq(Items) /\ mode'[s] = mode[s]
    BY DEF Kick, Rest, Room
  <1>2. Shape(s)
    <2>1. Len(queue'[s]) <= QueueSize
      BY <1>1, Bounds DEF Room
    <2>2. dropped'[s] \in 0..(DropLimit + 1)
      BY <1>1, <1>t, Bounds DEF SubInv, WithinLimit, Typed
    <2> QED BY <1>1, <1>t, <2>1, <2>2 DEF Shape, Typed
  <1>3. Places(s)' = 1..Len(queue'[s])
    BY DEF Places
  <1>4. Shaped(s)'
    <2>1. mode[s] = "stream" => pending'[s] = NoPending
      BY <1>1, <1>t DEF SubInv, Shaped
    <2>2. ASSUME NEW i \in 1..Len(queue'[s])
          PROVE /\ IsKey(queue'[s][i]) => /\ mode[s] = "conflate" /\ queue'[s][i].key \in Keys
                                          /\ queue'[s][i].ver = 0
                                          /\ pending'[s][queue'[s][i].key] # 0
                /\ ~IsKey(queue'[s][i]) => /\ queue'[s][i].seq < outSeq'[s]
                                           /\ queue'[s][i].key = NoKey \/ mode[s] = "stream"
                /\ queue'[s][i].key \in Keys => queue'[s][i].ver <= last'[queue'[s][i].key]
      <3>1. /\ IsKey(queue'[s][i]) => /\ mode[s] = "conflate" /\ queue'[s][i].key \in Keys
                                      /\ queue'[s][i].ver = 0
                                      /\ pending[s][queue'[s][i].key] # 0
            /\ ~IsKey(queue'[s][i]) => /\ queue'[s][i].seq < outSeq[s] /\ queue'[s][i].seq \in Nat
                                       /\ queue'[s][i].key = NoKey \/ mode[s] = "stream"
            /\ queue'[s][i].key \in Keys => queue'[s][i].ver <= last'[queue'[s][i].key]
        BY <1>1, <2>2, RoomFacts
      <3>2. ~IsKey(queue'[s][i]) => queue'[s][i].seq < outSeq'[s]
        BY <1>1, <1>t, <3>1 DEF Typed
      <3> QED BY <1>1, <3>1, <3>2
    <2> QED BY <1>1, <1>3, <2>1, <2>2 DEF Shaped, IsKey
  <1>5. Ordered(s)'
    <2> SUFFICES ASSUME NEW i \in 1..Len(queue'[s]), NEW j \in 1..Len(queue'[s]), i < j,
                        queue'[s][i].key \in Keys, queue'[s][i].key = queue'[s][j].key
                 PROVE  /\ ~IsKey(queue'[s][i]) /\ ~IsKey(queue'[s][j])
                        /\ queue'[s][i].ver < queue'[s][j].ver
      BY <1>3 DEF Ordered, IsKey
    <2> QED BY <1>1, RoomFacts
  <1> QED BY <1>1, <1>2, <1>4, <1>5 DEF SubInv, Fresh, WithinLimit, Streaming, Tracked, Placed, Current

\* A frame is added at the end, after the oldest was dropped if the queue is full.
LEMMA AddInv ==
    ASSUME Inv, NEW k \in Keys \cup {NoKey}, Fanout(k), NEW s \in Subs, Rest(s),
           NEW d \in {0, 1}, NEW q \in Seq(Items), Add(s, k, d, q)
    PROVE  SubInv(s)' /\ Shape(s)
  <1>t. Typed(s) /\ SubInv(s)
    BY TypedSub DEF Inv
  <1> DEFINE raw == /\ k = NoKey \/ mode[s] = "stream"
                    /\ outSeq'[s] = outSeq[s] + 1 /\ pending'[s] = pending[s]
             bare == /\ k \in Keys /\ mode[s] = "conflate" /\ pending[s][k] = 0
                     /\ outSeq'[s] = outSeq[s]
                     /\ pending'[s] = [pending[s] EXCEPT ![k] = frames + 1]
             e == IF raw THEN RawItem(outSeq[s], k, frames + 1) ELSE KeyItem(k)
  <1>1. /\ state[s] = "on" /\ state'[s] = "on" /\ Room(s, d, q)
        /\ dropped'[s] = dropped[s] + d /\ dropped'[s] <= DropLimit
        /\ mode'[s] = mode[s]
    BY DEF Add, Receives, Rest
  <1>2. frames + 1 \in Vers /\ frames + 1 # 0 /\ outSeq[s] \in Nat
    BY LastFacts, <1>t DEF Typed
  <1>3. ~(raw /\ bare)
    BY <1>2, Bounds
  <1>4. (raw \/ bare) /\ queue'[s] = Append(q, e)
    <2>1. \/ raw /\ queue'[s] = Append(q, RawItem(outSeq[s], k, frames + 1))
          \/ bare /\ queue'[s] = Append(q, KeyItem(k))
      BY DEF Add
    <2> QED BY <1>3, <2>1
  <1>5. /\ raw => e = RawItem(outSeq[s], k, frames + 1)
        /\ bare => e = KeyItem(k)
    BY <1>3
  <1>6. /\ e \in Items /\ e.key = k
        /\ raw => ~IsKey(e) /\ e.seq = outSeq[s] /\ e.ver = frames + 1
        /\ bare => IsKey(e) /\ e.ver = 0
    BY <1>2, <1>4, <1>5, NewItems
  <1>7. /\ raw => k = NoKey \/ mode[s] = "stream"
        /\ raw => outSeq'[s] = outSeq[s] + 1 /\ pending'[s] = pending[s]
        /\ bare => k \in Keys /\ mode[s] = "conflate" /\ pending[s][k] = 0
        /\ bare => outSeq'[s] = outSeq[s]
        /\ bare => pending'[s] = [pending[s] EXCEPT ![k] = frames + 1]
    OBVIOUS
  <1> HIDE DEF raw, bare, e
  <1> DEFINE n == Len(q)
  <1>8. /\ queue'[s] \in Seq(Items) /\ Len(queue'[s]) = n + 1 /\ queue'[s][n + 1] = e
        /\ \A i \in 1..n : queue'[s][i] = q[i]
        /\ n \in Nat /\ n < QueueSize /\ n = Len(queue[s]) - d /\ d \in {0, 1}
    BY <1>1, <1>4, <1>6, AppendFacts DEF Room
  <1>9. \A i \in Places(s)' : i \in 1..n \/ i = n + 1
    BY <1>8 DEF Places
  <1>10. n + 1 \in Places(s)' /\ 1..n \subseteq Places(s)'
    BY <1>8 DEF Places
  <1> HIDE DEF n
  <1>11. /\ pending'[s] \in [Keys -> Vers]
         /\ \A j \in Keys : j # k => pending'[s][j] = pending[s][j]
         /\ bare => pending'[s][k] = frames + 1
         /\ \A j \in Keys : pending[s][j] # 0 => pending'[s][j] # 0
    <2>1. CASE raw
      BY <1>3, <1>7, <1>t, <2>1 DEF Typed
    <2>2. CASE bare
      <3>1. pending'[s] = [pending[s] EXCEPT ![k] = frames + 1] /\ k \in Keys
        BY <1>7, <2>2
      <3>2. pending[s] \in [Keys -> Vers]
        BY <1>t DEF Typed
      <3> QED BY <1>2, <3>1, <3>2
    <2> QED BY <1>4, <2>1, <2>2
  <1>12. outSeq'[s] \in Nat /\ outSeq'[s] >= outSeq[s] /\ dropped[s] \in Nat
    BY <1>2, <1>4, <1>7, <1>t, Bounds DEF Typed
  <1>13. Shape(s)
    <2>1. Len(queue'[s]) <= QueueSize
      BY <1>8, Bounds
    <2>2. dropped'[s] \in 0..(DropLimit + 1)
      BY <1>1, <1>8, <1>12, Bounds
    <2> QED BY <1>1, <1>8, <1>11, <1>12, <2>1, <2>2 DEF Shape
  <1>14. \A j \in Keys : last'[j] = IF j = k THEN frames + 1 ELSE last[j]
    BY LastFacts
  <1>15. Fresh(s)' /\ WithinLimit(s)'
    BY <1>1 DEF Fresh, WithinLimit
  <1>16. Shaped(s)'
    <2>1. mode[s] = "stream" => pending'[s] = NoPending
      BY <1>4, <1>7, <1>t DEF SubInv, Shaped
    <2>2. ASSUME NEW i \in Places(s)'
          PROVE /\ IsKey(queue'[s][i]) => /\ mode[s] = "conflate" /\ queue'[s][i].key \in Keys
                                          /\ queue'[s][i].ver = 0
                                          /\ pending'[s][queue'[s][i].key] # 0
                /\ ~IsKey(queue'[s][i]) => /\ queue'[s][i].seq < outSeq'[s]
                                           /\ queue'[s][i].key = NoKey \/ mode[s] = "stream"
                /\ queue'[s][i].key \in Keys => queue'[s][i].ver <= last'[queue'[s][i].key]
      <3>1. CASE i \in 1..n
        <4>1. queue'[s][i] = q[i]
          BY <1>8, <3>1
        <4>2. /\ IsKey(q[i]) => /\ mode[s] = "conflate" /\ q[i].key \in Keys
                                /\ q[i].ver = 0 /\ pending[s][q[i].key] # 0
              /\ ~IsKey(q[i]) => /\ q[i].seq < outSeq[s] /\ q[i].seq \in Nat
                                 /\ q[i].key = NoKey \/ mode[s] = "stream"
              /\ q[i].key \in Keys => q[i].ver <= last'[q[i].key]
          BY <1>1, <3>1, RoomFacts DEF n
        <4>3. ~IsKey(q[i]) => q[i].seq < outSeq'[s]
          BY <1>2, <1>12, <4>2
        <4> QED BY <1>11, <4>1, <4>2, <4>3
      <3>2. CASE i = n + 1
        <4>1. queue'[s][i] = e
          BY <1>8, <3>2
        <4>2. CASE raw
          <5>1. e.seq < outSeq'[s]
            BY <1>2, <1>6, <1>7, <4>2
          <5>2. e.key \in Keys => e.ver <= last'[e.key]
            BY <1>2, <1>6, <1>14, <4>2 DEF Vers
          <5> QED BY <1>6, <1>7, <4>1, <4>2, <5>1, <5>2
        <4>3. CASE bare
          <5>1. 0 <= last'[k] /\ k \in Keys
            BY <1>2, <1>7, <1>14, <4>3 DEF Vers
          <5> QED BY <1>2, <1>6, <1>7, <1>11, <4>1, <4>3, <5>1
        <4> QED BY <1>4, <4>2, <4>3
      <3> QED BY <1>9, <3>1, <3>2
    <2> QED BY <1>1, <2>1, <2>2 DEF Shaped, IsKey
  <1>17. Ordered(s)'
    <2> SUFFICES ASSUME NEW i \in Places(s)', NEW j \in Places(s)', i < j,
                        queue'[s][i].key \in Keys, queue'[s][i].key = queue'[s][j].key
                 PROVE  /\ ~IsKey(queue'[s][i]) /\ ~IsKey(queue'[s][j])
                        /\ queue'[s][i].ver < queue'[s][j].ver
      BY DEF Ordered, IsKey
    <2>1. i \in 1..n /\ queue'[s][i] = q[i]
      <3>1. i # n + 1
        BY <1>8, <1>9
      <3> QED BY <1>8, <1>9, <3>1
    <2>2. CASE j \in 1..n
      <3>1. queue'[s][j] = q[j]
        BY <1>8, <2>2
      <3> QED BY <1>1, <2>1, <2>2, <3>1, RoomFacts DEF n
    <2>3. CASE j = n + 1
      <3>1. queue'[s][j] = e /\ q[i].key = k /\ k \in Keys
        BY <1>6, <1>8, <2>1, <2>3
      <3>2. /\ IsKey(q[i]) => mode[s] = "conflate" /\ pending[s][k] # 0
            /\ ~IsKey(q[i]) => mode[s] = "stream"
            /\ q[i].ver < frames + 1
        BY <1>1, <2>1, <3>1, Bounds, RoomFacts DEF n
      <3>3. CASE raw
        BY <1>6, <1>7, <2>1, <3>1, <3>2, <3>3, Bounds
      <3>4. CASE bare
        BY <1>7, <3>2, <3>4
      <3> QED BY <1>4, <3>3, <3>4
    <2> QED BY <1>9, <2>2, <2>3
  <1>18. Streaming(s)'
    <2> SUFFICES ASSUME ~conflated[s] PROVE
          /\ mode[s] = "stream"
          /\ \A i \in Places(s)' : queue'[s][i].seq = FrontSeq(s)' + i - 1
          /\ expected[s] = Unset => lost[s] = 0 /\ FrontSeq(s)' <= dropped'[s]
          /\ expected[s] # Unset => /\ expected[s] >= 1 /\ lost[s] <= dropped'[s]
                                    /\ lost[s] + FrontSeq(s)' - expected[s] <= dropped'[s]
      BY <1>1 DEF Rest, Streaming
    <2>1. mode[s] = "stream" /\ raw
      BY <1>1, <1>4, <1>7, <1>t DEF SubInv, Streaming
    <2>2. /\ FrontSeq(s)' = FrontSeq(s) + d /\ FrontSeq(s) \in Int /\ FrontSeq(s)' = outSeq[s] - n
          /\ d \in {0, 1}
      <3>1. FrontSeq(s)' = outSeq'[s] - (n + 1)
        BY <1>8 DEF FrontSeq
      <3>2. FrontSeq(s) = outSeq[s] - (n + d)
        BY <1>8, <1>t DEF FrontSeq, Typed
      <3>3. outSeq'[s] = outSeq[s] + 1 /\ outSeq[s] \in Int /\ n \in Int /\ d \in Int /\ d \in {0, 1}
        BY <1>2, <1>7, <1>8, <2>1
      <3> QED BY <3>1, <3>2, <3>3
    <2>3. ASSUME NEW i \in Places(s)' PROVE queue'[s][i].seq = FrontSeq(s)' + i - 1
      <3>1. CASE i \in 1..n
        <4>1. i + d \in Places(s) /\ queue'[s][i] = queue[s][i + d]
          BY <1>1, <1>8, <3>1 DEF Room, n
        <4>2. queue[s][i + d].seq = FrontSeq(s) + (i + d) - 1
          BY <1>1, <1>t, <4>1 DEF SubInv, Streaming
        <4>3. i \in Int
          BY <1>8, <3>1
        <4> QED BY <2>2, <4>1, <4>2, <4>3
      <3>2. CASE i = n + 1
        <4>1. queue'[s][i].seq = outSeq[s]
          BY <1>6, <1>8, <2>1, <3>2
        <4>2. FrontSeq(s)' = outSeq[s] - n /\ outSeq[s] \in Int /\ n \in Int
          BY <1>2, <1>8, <2>2
        <4> QED BY <3>2, <4>1, <4>2
      <3> QED BY <1>9, <3>1, <3>2
    <2>4. /\ expected[s] = Unset => lost[s] = 0 /\ FrontSeq(s) <= dropped[s]
          /\ expected[s] # Unset => /\ expected[s] >= 1 /\ lost[s] <= dropped[s]
                                    /\ lost[s] + FrontSeq(s) - expected[s] <= dropped[s]
      BY <1>1, <1>t DEF SubInv, Streaming
    <2>5. expected[s] \in Nat \cup {Unset} /\ lost[s] \in Nat
      BY <1>t DEF Typed
    <2>6. expected[s] = Unset => lost[s] = 0 /\ FrontSeq(s)' <= dropped'[s]
      BY <1>1, <1>12, <2>2, <2>4
    <2>7. expected[s] # Unset => /\ expected[s] >= 1 /\ lost[s] <= dropped'[s]
                                 /\ lost[s] + FrontSeq(s)' - expected[s] <= dropped'[s]
      <3> SUFFICES ASSUME expected[s] # Unset
                   PROVE  /\ expected[s] >= 1 /\ lost[s] <= dropped'[s]
                          /\ lost[s] + FrontSeq(s)' - expected[s] <= dropped'[s]
        OBVIOUS
      <3>1. expected[s] \in Int /\ lost[s] \in Int /\ dropped[s] \in Int /\ d \in {0, 1}
            /\ dropped'[s] = dropped[s] + d /\ FrontSeq(s)' = FrontSeq(s) + d /\ FrontSeq(s) \in Int
        BY <1>1, <1>12, <2>2, <2>5
      <3>2. /\ expected[s] >= 1 /\ lost[s] <= dropped[s]
            /\ lost[s] + FrontSeq(s) - expected[s] <= dropped[s]
        BY <2>4
      <3> QED BY <3>1, <3>2
    <2> QED BY <2>1, <2>3, <2>6, <2>7
  <1>19. Tracked(s)'
    <2> SUFFICES ASSUME ~denied[s], cleared[s] = 0
                 PROVE  /\ expected[s] <= outSeq'[s]
                        /\ \E i \in Places(s)' : \/ IsKey(queue'[s][i])
                                                 \/ queue'[s][i].seq = outSeq'[s] - 1
      BY <1>1 DEF Rest, Tracked, IsKey
    <2>1. expected[s] <= outSeq[s] /\ expected[s] \in Int
      BY <1>1, <1>t DEF SubInv, Tracked, Typed, Unset
    <2>2. expected[s] <= outSeq'[s]
      BY <1>2, <1>12, <2>1
    <2>3. IsKey(e) \/ e.seq = outSeq'[s] - 1
      BY <1>2, <1>4, <1>6, <1>7
    <2> QED BY <1>8, <1>10, <2>2, <2>3
  <1>20. dropped'[s] = 0 => d = 0 /\ dropped[s] = 0
    BY <1>1, <1>8, <1>12
  <1>21. d = 0 => \A i \in Places(s) : i \in Places(s)' /\ queue'[s][i] = queue[s][i]
    BY <1>1, <1>8, <1>t DEF Room, Places, n, Typed
  <1>22. Placed(s)'
    <2> SUFFICES ASSUME dropped'[s] = 0, NEW j \in Keys, pending'[s][j] # 0
                 PROVE  \E i \in Places(s)' : IsKey(queue'[s][i]) /\ queue'[s][i].key = j
      BY <1>1 DEF Placed, IsKey
    <2>1. CASE bare /\ j = k
      BY <1>6, <1>8, <1>10, <2>1
    <2>2. CASE ~(bare /\ j = k)
      <3>1. pending[s][j] # 0
        BY <1>4, <1>7, <1>11, <2>2
      <3>2. PICK i \in Places(s) : IsKey(queue[s][i]) /\ queue[s][i].key = j
        BY <1>1, <1>20, <1>t, <3>1 DEF SubInv, Placed
      <3> QED BY <1>20, <1>21, <3>2
    <2> QED BY <2>1, <2>2
  <1>23. Current(s)'
    <2> SUFFICES ASSUME dropped'[s] = 0, cleared[s] = 0, NEW j \in symbols[s]
                 PROVE  \/ last'[j] = since[s][j] \/ last'[j] = pending'[s][j]
                        \/ \E i \in Places(s)' : /\ ~IsKey(queue'[s][i]) /\ queue'[s][i].key = j
                                                 /\ queue'[s][i].ver = last'[j]
                        \/ /\ last'[j] = seen[s][j] /\ pending'[s][j] = 0
                           /\ \A i \in Places(s)' : queue'[s][i].key # j
      BY <1>1 DEF Rest, Current, IsKey
    <2>1. j \in Keys /\ d = 0 /\ dropped[s] = 0
      BY <1>20, <1>t DEF Typed
    <2>2. CASE j = k
      <3>1. last'[j] = frames + 1
        BY <1>14, <2>1, <2>2
      <3>2. CASE raw
        BY <1>6, <1>8, <1>10, <2>2, <3>1, <3>2
      <3>3. CASE bare
        BY <1>11, <2>2, <3>1, <3>3
      <3> QED BY <1>4, <3>2, <3>3
    <2>3. CASE j # k
      <3>1. last'[j] = last[j] /\ pending'[s][j] = pending[s][j]
        BY <1>11, <1>14, <2>1, <2>3
      <3>2. \/ last[j] = since[s][j] \/ last[j] = pending[s][j]
            \/ \E i \in Places(s) : /\ ~IsKey(queue[s][i]) /\ queue[s][i].key = j
                                    /\ queue[s][i].ver = last[j]
            \/ /\ last[j] = seen[s][j] /\ pending[s][j] = 0
               /\ \A i \in Places(s) : queue[s][i].key # j
        BY <1>1, <1>t, <2>1 DEF SubInv, Current
      <3>3. ASSUME \A i \in Places(s) : queue[s][i].key # j, NEW i \in Places(s)'
            PROVE  queue'[s][i].key # j
        <4>1. CASE i \in 1..n
          <5>1. i \in Places(s) /\ queue'[s][i] = queue[s][i]
            BY <1>1, <1>8, <2>1, <4>1 DEF Room, n
          <5> QED BY <3>3, <5>1
        <4>2. CASE i = n + 1
          BY <1>6, <1>8, <2>3, <4>2
        <4> QED BY <1>9, <4>1, <4>2
      <3> QED BY <1>21, <2>1, <3>1, <3>2, <3>3
    <2> QED BY <2>2, <2>3
  <1> QED BY <1>13, <1>15, <1>16, <1>17, <1>18, <1>19, <1>22, <1>23 DEF SubInv

\* A frame sent to all subscribers preserves the invariant of each.
LEMMA FanoutInv ==
    ASSUME Inv, NEW k \in Keys \cup {NoKey}, Fanout(k)
    PROVE  Inv'
  <1>1. ASSUME NEW s \in Subs PROVE SubInv(s)' /\ Shape(s)
    BY FanoutForms, SkipInv, MergeInv, KickInv, AddInv
  <1>2. /\ frames' \in Vers /\ last' \in [Keys -> Vers] /\ \A j \in Keys : last'[j] <= frames'
    BY LastFacts
  <1>3. TypeOK'
    <2>1. /\ queue' = [s \in Subs |-> queue'[s]] /\ pending' = [s \in Subs |-> pending'[s]]
          /\ outSeq' = [s \in Subs |-> outSeq'[s]] /\ dropped' = [s \in Subs |-> dropped'[s]]
          /\ state' = [s \in Subs |-> state'[s]]
      BY DEF Fanout
    <2>2. /\ queue' \in [Subs -> Seq(Items)] /\ pending' \in [Subs -> [Keys -> Vers]]
          /\ outSeq' \in [Subs -> Nat] /\ dropped' \in [Subs -> 0..(DropLimit + 1)]
          /\ state' \in [Subs -> {"off", "on", "closed"}]
      BY <1>1, <2>1 DEF Shape
    <2>3. \A s \in Subs : Len(queue'[s]) <= QueueSize
      BY <1>1 DEF Shape
    <2> QED BY <1>2, <2>2, <2>3 DEF Inv, TypeOK, Fanout, client, hist
  <1> QED BY <1>1, <1>2, <1>3 DEF Inv

-----------------------------------------------------------------------------
(* The invariant and what follows from it.                                 *)

\* Every step preserves the invariant.
LEMMA StepInv == Inv /\ [Next]_vars => Inv'
  <1> SUFFICES ASSUME Inv, [Next]_vars PROVE Inv'
    OBVIOUS
  <1>1. CASE UNCHANGED vars
    <2>1. TypeOK'
      BY <1>1 DEF Inv, TypeOK, vars, conn, client, hist
    <2>2. ASSUME NEW s \in Subs PROVE SubInv(s)'
      <3>1. Same(s) /\ last' = last
        BY <1>1 DEF Same, vars, conn, client, hist
      <3> QED BY <3>1, SameInv DEF Inv
    <2>3. \A k \in Keys : last'[k] <= frames'
      BY <1>1 DEF Inv, vars
    <2> QED BY <2>1, <2>2, <2>3 DEF Inv
  <1>2. ASSUME NEW s \in Subs, Connect(s) \/ Disconnect(s) \/ ApplySubscribe(s) \/ Send(s)
        PROVE  Inv'
    BY <1>2, ConnectInv, DisconnectInv, ApplySubscribeInv, SendInv
  <1>3. ASSUME NEW k \in Keys \cup {NoKey}, Fanout(k) PROVE Inv'
    BY <1>3, FanoutInv
  <1>4. CASE Stop
    BY <1>4, StopInv
  <1>5. CASE Stopped
    BY <1>1, <1>5 DEF Stopped
  <1> QED BY <1>1, <1>2, <1>3, <1>4, <1>5 DEF Next

\* The gateway keeps its invariant whatever subscribers ask for and however
\* slowly they read.
THEOREM GatewayInvariant == Spec => []Inv
  <1> QED BY InitInv, StepInv, PTL DEF Spec

\* Queues keep their bounds and their form: an instrument waits once for a
\* conflating subscriber, and no frame of its time in another mode is left.
THEOREM QueuesStaySound == Spec => []QueuesAreSound
  <1>1. Inv => QueuesAreSound
    <2> SUFFICES ASSUME Inv PROVE QueuesAreSound
      OBVIOUS
    <2>1. ASSUME NEW s \in Subs, NEW i \in 1..Len(queue[s]), NEW j \in 1..Len(queue[s])
          PROVE  /\ i < j /\ IsKey(queue[s][i]) => queue[s][i] # queue[s][j]
                 /\ IsKey(queue[s][i]) \/ queue[s][i].key = NoKey \/ mode[s] = "stream"
      <3>1. Shaped(s) /\ Ordered(s)
        BY DEF Inv, SubInv
      <3>2. IsKey(queue[s][i]) => queue[s][i].key \in Keys
        BY <3>1 DEF Shaped, Places
      <3>3. i < j /\ IsKey(queue[s][i]) => queue[s][i] # queue[s][j]
        BY <3>1, <3>2 DEF Ordered, Places
      <3>4. IsKey(queue[s][i]) \/ queue[s][i].key = NoKey \/ mode[s] = "stream"
        BY <3>1 DEF Shaped, Places
      <3> QED BY <3>3, <3>4
    <2>2. TypeOK
      BY DEF Inv
    <2> QED BY <2>1, <2>2 DEF QueuesAreSound, OnePlacePerKey
  <1> QED BY <1>1, GatewayInvariant, PTL

\* Gap detection is exact: a streaming subscriber counts no more than was
\* dropped from its queue, and one that has read its queue has counted it all.
THEOREM GapsStayLosses == Spec => []GapsAreLosses
  <1>1. Inv => GapsAreLosses
    <2> SUFFICES ASSUME Inv PROVE GapsAreLosses
      OBVIOUS
    <2>1. ASSUME NEW s \in Subs, state[s] = "on", ~conflated[s]
          PROVE  lost[s] <= dropped[s]
      <3>1. Streaming(s) /\ Typed(s)
        BY TypedSub DEF Inv, SubInv
      <3>2. dropped[s] \in Nat
        BY <3>1, Bounds DEF Typed
      <3> QED BY <2>1, <3>1, <3>2 DEF Streaming
    <2>2. ASSUME NEW s \in Subs, state[s] = "on", queue[s] = <<>>, ~denied[s], cleared[s] = 0
          PROVE  expected[s] \in {Unset, outSeq[s]}
      <3>1. Tracked(s) /\ Places(s) = {}
        BY <2>2 DEF Inv, SubInv, Places
      <3> QED BY <2>2, <3>1 DEF Tracked
    <2> QED BY <2>1, <2>2 DEF GapsAreLosses, GapIsLoss, GapsAreSeen
  <1> QED BY <1>1, GatewayInvariant, PTL

\* The latest frame of an instrument was sent or waits, or a drop was counted.
THEOREM NoHoleEver == Spec => []NoHole
  <1>1. Inv => NoHole
    <2> SUFFICES ASSUME Inv PROVE NoHole
      OBVIOUS
    <2>1. ASSUME NEW s \in Subs, NEW k \in Keys, state[s] = "on", k \in symbols[s],
                 ~(dropped[s] > 0), ~(cleared[s] > 0)
          PROVE  last[k] \in {seen[s][k], pending[s][k], since[s][k]} \/ InQueue(s, k, last[k])
      <3>1. Current(s) /\ Typed(s)
        BY TypedSub DEF Inv, SubInv
      <3>2. dropped[s] = 0 /\ cleared[s] = 0
        BY <2>1, <3>1, Bounds DEF Typed
      <3> QED BY <2>1, <3>1, <3>2 DEF Current, InQueue, Places
    <2> QED BY <2>1 DEF NoHole
  <1> QED BY <1>1, GatewayInvariant, PTL

-----------------------------------------------------------------------------
(* The C++ gateway: what is known of a subscriber.                         *)

\* What may be queued for a subscriber, and what may be written: frames with a number,
\* and notices, which are the snapshot and denials.
Waiting == [num : Nat, key : Key \cup {None}, ver : Nat]
Notice == [num : {None}, key : {None}, ver : [Key -> Nat]]
Piece == Waiting \cup Notice
SubState ==
    [state : {"new", "on", "gone"}, symbols : SUBSET Key, conflate : BOOLEAN,
     queue : Seq(Waiting), pending : [Key -> Nat], wbuf : Seq(Piece), out : Nat,
     dropped : Nat, armed : BOOLEAN, granted : SUBSET Key, lost : Nat, since : [Key -> Nat]]
ReaderState == [next : Nat, gaps : Int, view : [Key -> Nat]]
Unread == [next |-> 0, gaps |-> 0, view |-> NoValues]

\* What is under way to subscriber b whose socket holds w.
Tape(b, w) == w \o b.wbuf \o (IF b.conflate THEN <<>> ELSE b.queue)

\* Numbers rise from what was read to the next one to be given.
Rising(u, c, out) ==
    /\ c.next <= out
    /\ \A i \in WithNumber(u) : c.next <= u[i].num /\ u[i].num < out
    /\ \A i, j \in WithNumber(u) : i < j => u[i].num < u[j].num

\* A missing number is a frame that was thrown away.
Balanced(u, c, out, missed) == out = c.next - c.gaps + Cardinality(WithNumber(u)) + missed

\* The values of a key do not go back.
Forward(u, c, l) ==
    /\ \A k \in Key : c.view[k] <= l[k] /\ \A i \in DOMAIN u : Brings(u[i], k) <= l[k]
    /\ \A i \in WithNumber(u) : u[i].key # None =>
         /\ c.view[u[i].key] <= u[i].ver
         /\ \A j \in DOMAIN u : j < i => Brings(u[j], u[i].key) <= u[i].ver

\* A value that waits to be merged has its one place and is newer than what is under way.
Merged(b, u, c, l) ==
    \A k \in Key :
        /\ b.pending[k] <= l[k]
        /\ ~b.conflate => b.pending[k] = 0
        /\ b.conflate /\ b.pending[k] = 0 => \A i \in DOMAIN b.queue : b.queue[i].key # k
        /\ b.pending[k] # 0 =>
             /\ \E i \in DOMAIN b.queue : \A j \in DOMAIN b.queue : b.queue[j].key = k <=> j = i
             /\ c.view[k] <= b.pending[k]
             /\ \A i \in DOMAIN u : Brings(u[i], k) <= b.pending[k]

\* Nothing of a key that was never granted.
Without(q, k) == \A i \in DOMAIN q : q[i].key # k /\ Brings(q[i], k) = 0
Entitled(b, w, c) ==
    /\ b.symbols \subseteq b.granted
    /\ \A k \in Key \ b.granted : /\ c.view[k] = 0 /\ b.pending[k] = 0
                                  /\ Without(w, k) /\ Without(b.wbuf, k) /\ Without(b.queue, k)

\* Value x of key k is under way.
Carries(u, k, x) == \E i \in DOMAIN u : Brings(u[i], k) = x

\* The newest value of a key that passes the filter was read, or is on its way.
Newest(b, u, c, l) ==
    \A k \in b.symbols : b.dropped = 0 /\ l[k] > b.since[k] =>
        \/ c.view[k] = l[k] \/ b.pending[k] = l[k] \/ Carries(u, k, l[k])

\* What holds of subscriber b, its socket w and its reader c when the newest values are l.
Sound(b, w, c, l) ==
    LET u == Tape(b, w)
    IN  Rising(u, c, b.out) /\ Balanced(u, c, b.out, b.lost) /\ Forward(u, c, l)
        /\ Merged(b, u, c, l) /\ Entitled(b, w, c)

\* A subscriber b with its socket w and its reader c when n frames have arrived.
Healthy(b, w, c, l, n, closing) ==
    /\ Len(b.queue) <= client_queue /\ Len(w) <= SockBuf
    /\ \A k \in Key : b.pending[k] <= n
    /\ Doomed(b) => closing
    /\ closing => b.state = "on"
    /\ b.state = "new" => b = NewSub /\ w = <<>> /\ c = Unread
    /\ b.state = "on" => Sound(b, w, c, l) /\ (~closing => Newest(b, Tape(b, w), c, l))

CppInv ==
    /\ at \in {"body", "wait", "exited"} /\ listening \in {"armed", "backoff", "closed"}
    /\ bus \in {"down", "connecting", "up"} /\ frames_in \in Nat
    /\ last_ \in [Key -> Nat] /\ \A k \in Key : last_[k] <= frames_in
    /\ subs \in [Sub -> SubState] /\ wire \in [Sub -> Seq(Piece)] /\ reader \in [Sub -> ReaderState]
    /\ toClose \subseteq Sub /\ (at # "wait" => toClose = {}) /\ unsent \subseteq Sub
    /\ \A s \in Sub : Healthy(subs[s], wire[s], reader[s], last_, frames_in, s \in toClose)

-----------------------------------------------------------------------------
(* Pieces on their way.                                                    *)

\* The parts of a piece.
LEMMA PieceParts ==
    \A f \in Piece : /\ f.num \in Nat \cup {None} /\ f.key \in Key \cup {None}
                     /\ f.num = None => f.key = None /\ f.ver \in [Key -> Nat]
                     /\ f.num # None => f.num \in Nat /\ f.ver \in Nat
                     /\ \A k \in Key : Brings(f, k) \in Nat
<1>1. \A f \in Waiting : /\ f.num \in Nat /\ f.num # None /\ f.key \in Key \cup {None} /\ f.ver \in Nat
  BY CppAssumption DEF Waiting
<1>2. \A f \in Notice : f.num = None /\ f.key = None /\ f.ver \in [Key -> Nat]
  BY DEF Notice
<1> QED BY <1>1, <1>2 DEF Piece, Brings

\* What waits in a queue has a number.
LEMMA WaitingParts ==
    \A f \in Waiting : /\ f \in Piece /\ f.num \in Nat /\ f.num # None
                      /\ f.key \in Key \cup {None} /\ f.ver \in Nat
  BY CppAssumption DEF Waiting, Piece

\* A sequence of pieces.
LEMMA PieceSeq ==
    ASSUME NEW u \in Seq(Piece)
    PROVE  /\ Len(u) \in Nat /\ DOMAIN u = 1 .. Len(u)
           /\ \A i \in DOMAIN u : /\ u[i] \in Piece /\ i \in Nat
                                  /\ \A k \in Key : Brings(u[i], k) \in Nat
           /\ \A i \in WithNumber(u) : i \in DOMAIN u /\ u[i].num \in Nat /\ u[i].num # None
                                       /\ u[i].ver \in Nat /\ u[i].key \in Key \cup {None}
<1>1. Len(u) \in Nat /\ DOMAIN u = 1 .. Len(u)
  BY LenProperties
<1>2. \A i \in DOMAIN u : u[i] \in Piece
  BY <1>1, ElementOfSeq
<1> QED BY <1>1, <1>2, PieceParts DEF WithNumber

\* The order of concatenations does not matter.
LEMMA PieceAssoc ==
    ASSUME NEW p \in Seq(Piece), NEW q \in Seq(Piece), NEW r \in Seq(Piece)
    PROVE  (p \o q) \o r = p \o (q \o r)
  BY ConcatAssociative

\* The pieces with a number can be counted.
LEMMA CountFinite ==
    ASSUME NEW u \in Seq(Piece)
    PROVE  IsFiniteSet(WithNumber(u)) /\ Cardinality(WithNumber(u)) \in Nat
<1>1. DOMAIN u = 1 .. Len(u) /\ Len(u) \in Nat
  BY LenProperties
<1>2. IsFiniteSet(1 .. Len(u))
  BY <1>1, FS_Interval
<1>3. WithNumber(u) \in SUBSET (1 .. Len(u))
  BY <1>1 DEF WithNumber
<1> QED BY <1>2, <1>3, FS_Subset, FS_CardinalityType

\* They add up.
LEMMA CountConcat ==
    ASSUME NEW u \in Seq(Piece), NEW v \in Seq(Piece)
    PROVE  Cardinality(WithNumber(u \o v)) = Cardinality(WithNumber(u)) + Cardinality(WithNumber(v))
<1> DEFINE n == Len(u)
           S == WithNumber(v)
           T == {i + n : i \in S}
           f == [i \in S |-> i + n]
<1>1. /\ n \in Nat /\ Len(v) \in Nat /\ DOMAIN u = 1 .. n /\ DOMAIN v = 1 .. Len(v)
      /\ u \o v \in Seq(Piece) /\ DOMAIN (u \o v) = 1 .. n + Len(v)
      /\ \A i \in 1 .. n + Len(v) : (u \o v)[i] = IF i <= n THEN u[i] ELSE v[i - n]
  BY LenProperties, ConcatProperties
<1>2. IsFiniteSet(S) /\ IsFiniteSet(WithNumber(u)) /\ S \subseteq 1 .. Len(v) /\ WithNumber(u) \subseteq 1 .. n
  BY <1>1, CountFinite DEF WithNumber
<1>3. f \in Bijection(S, T)
  <2>1. f \in [S -> T] /\ \A j \in T : \E i \in S : f[i] = j
    OBVIOUS
  <2>2. \A i, j \in S : f[i] = f[j] => i = j
    <3>1. \A i \in S : i \in Int /\ f[i] = i + n
      BY <1>2
    <3> HIDE DEF f, S, n
    <3> QED BY <3>1, <1>1
  <2> QED BY <2>1, <2>2 DEF Bijection, Injection, Surjection, IsInjective
<1>4. IsFiniteSet(T) /\ Cardinality(T) = Cardinality(S)
  BY <1>2, <1>3, FS_Bijection DEF ExistsBijection
<1>5. WithNumber(u \o v) = WithNumber(u) \cup T
  <2>1. ASSUME NEW i \in WithNumber(u \o v) PROVE i \in WithNumber(u) \cup T
    <3>1. i \in 1 .. n + Len(v) /\ (u \o v)[i].num # None
      BY <1>1 DEF WithNumber
    <3>2. CASE i <= n
      BY <1>1, <3>1, <3>2 DEF WithNumber
    <3>3. CASE ~(i <= n)
      <4>1. i - n \in 1 .. Len(v) /\ v[i - n].num # None /\ i = (i - n) + n
        BY <1>1, <3>1, <3>3
      <4> QED BY <1>1, <4>1 DEF WithNumber
    <3> QED BY <3>2, <3>3
  <2>2. ASSUME NEW i \in WithNumber(u) PROVE i \in WithNumber(u \o v)
    <3>1. i \in 1 .. n /\ u[i].num # None
      BY <1>1 DEF WithNumber
    <3>2. i \in 1 .. n + Len(v) /\ (u \o v)[i] = u[i]
      BY <1>1, <3>1
    <3> QED BY <1>1, <3>1, <3>2 DEF WithNumber
  <2>3. ASSUME NEW i \in S PROVE i + n \in WithNumber(u \o v)
    <3>1. i \in 1 .. Len(v) /\ v[i].num # None
      BY <1>1 DEF WithNumber
    <3>2. i + n \in 1 .. n + Len(v) /\ ~(i + n <= n) /\ (i + n) - n = i
      BY <1>1, <3>1
    <3>3. (u \o v)[i + n] = v[i]
      BY <1>1, <3>2
    <3> QED BY <1>1, <3>1, <3>2, <3>3 DEF WithNumber
  <2> QED BY <2>1, <2>2, <2>3
<1>6. WithNumber(u) \cap T = {}
  <2>1. \A j \in T : j \in Int /\ j > n
    BY <1>1, <1>2
  <2>2. \A i \in WithNumber(u) : i <= n
    BY <1>1, <1>2
  <2> HIDE DEF T
  <2> QED BY <1>1, <2>1, <2>2
<1>7. Cardinality({}) = 0
  BY FS_EmptySet
<1>8. Cardinality(WithNumber(u)) \in Nat /\ Cardinality(S) \in Nat
  BY CountFinite
<1>10. S = WithNumber(v)
  OBVIOUS
<1> HIDE DEF S, T, f
<1>9. Cardinality(WithNumber(u) \cup T) = Cardinality(WithNumber(u)) + Cardinality(T) - Cardinality(WithNumber(u) \cap T)
  BY <1>2, <1>4, FS_Union
<1>12. Cardinality(WithNumber(u) \cap T) = 0
  BY <1>6, <1>7
<1>11. Cardinality(WithNumber(u) \cup T) = Cardinality(WithNumber(u)) + Cardinality(S)
  BY <1>4, <1>8, <1>9, <1>12
<1> QED BY <1>5, <1>10, <1>11

\* One piece.
LEMMA CountOne ==
    ASSUME NEW f \in Piece
    PROVE  Cardinality(WithNumber(<<f>>)) = IF f.num = None THEN 0 ELSE 1
<1>1. DOMAIN <<f>> = {1} /\ <<f>>[1] = f
  OBVIOUS
<1>2. WithNumber(<<f>>) = IF f.num = None THEN {} ELSE {1}
  BY <1>1 DEF WithNumber
<1> QED BY <1>2, FS_EmptySet, FS_Singleton

\* In a queue all are counted.
LEMMA CountQueue ==
    ASSUME NEW q \in Seq(Waiting)
    PROVE  q \in Seq(Piece) /\ Cardinality(WithNumber(q)) = Len(q) /\ WithNumber(q) = DOMAIN q
<1>1. Len(q) \in Nat /\ DOMAIN q = 1 .. Len(q) /\ \A i \in DOMAIN q : q[i] \in Waiting
  BY LenProperties, ElementOfSeq
<1>2. WithNumber(q) = 1 .. Len(q)
  BY <1>1, WaitingParts DEF WithNumber
<1>3. Cardinality(1 .. Len(q)) = Len(q)
  BY <1>1, FS_Interval
<1>4. q \in Seq(Piece)
  BY SeqMonotonic DEF Piece
<1> QED BY <1>1, <1>2, <1>3, <1>4

\* v is what is left of u in its order, with denials in between, which bring nothing.
Within(v, u, h) ==
    /\ \A i \in DOMAIN v : v[i] = Denial \/ (h[i] \in DOMAIN u /\ v[i] = u[h[i]])
    /\ \A i, j \in DOMAIN v : i < j /\ v[i] # Denial /\ v[j] # Denial => h[i] < h[j]

\* A denial is a piece that brings nothing.
LEMMA DenialParts ==
    /\ Denial \in Piece /\ Denial.num = None /\ Denial.key = None
    /\ \A k \in Key : Brings(Denial, k) = 0
<1>1. Denial \in Notice
  BY DEF Denial, Notice, NoValues
<1> QED BY <1>1 DEF Denial, Piece, Brings, NoValues

\* What is left of a stream rises as it did.
LEMMA LeftRises ==
    ASSUME NEW u \in Seq(Piece), NEW v \in Seq(Piece), NEW h, Within(v, u, h),
           NEW c, NEW out, Rising(u, c, out)
    PROVE  Rising(v, c, out)
<1>1. \A i \in WithNumber(v) : i \in DOMAIN v /\ v[i] # Denial /\ h[i] \in WithNumber(u) /\ v[i] = u[h[i]]
  BY DenialParts DEF WithNumber, Within
<1>2. \A i, j \in WithNumber(v) : i < j => h[i] < h[j]
  BY <1>1 DEF Within
<1> QED BY <1>1, <1>2 DEF Rising

\* Nor do its values go back.
LEMMA LeftForward ==
    ASSUME NEW u \in Seq(Piece), NEW v \in Seq(Piece), NEW h, Within(v, u, h),
           NEW c \in ReaderState, NEW l \in [Key -> Nat], Forward(u, c, l)
    PROVE  Forward(v, c, l)
<1>1. \A i \in WithNumber(v) : i \in DOMAIN v /\ v[i] # Denial /\ h[i] \in WithNumber(u) /\ v[i] = u[h[i]]
  BY DenialParts DEF WithNumber, Within
<1>2. ASSUME NEW i \in DOMAIN v, NEW k \in Key PROVE Brings(v[i], k) <= l[k]
  <2>1. CASE v[i] = Denial
    BY <2>1, DenialParts
  <2>2. CASE v[i] # Denial
    BY <2>2 DEF Within, Forward
  <2> QED BY <2>1, <2>2
<1>3. ASSUME NEW i \in WithNumber(v), v[i].key # None
      PROVE  /\ c.view[v[i].key] <= v[i].ver
             /\ \A j \in DOMAIN v : j < i => Brings(v[j], v[i].key) <= v[i].ver
  <2>1. /\ h[i] \in WithNumber(u) /\ v[i] = u[h[i]] /\ c.view[v[i].key] <= v[i].ver
        /\ \A m \in DOMAIN u : m < h[i] => Brings(u[m], v[i].key) <= v[i].ver
    BY <1>1, <1>3 DEF Forward
  <2>2. ASSUME NEW j \in DOMAIN v, j < i PROVE Brings(v[j], v[i].key) <= v[i].ver
    <3>1. v[i].key \in Key /\ v[i].ver \in Nat
      BY <1>1, <1>3, PieceSeq
    <3>2. CASE v[j] = Denial
      BY <3>1, <3>2, DenialParts
    <3>3. CASE v[j] # Denial
      <4>1. h[j] \in DOMAIN u /\ v[j] = u[h[j]] /\ h[j] < h[i]
        BY <1>1, <2>2, <3>3 DEF Within
      <4> QED BY <2>1, <4>1
    <3> QED BY <3>2, <3>3
  <2> QED BY <2>1, <2>2
<1> QED BY <1>2, <1>3 DEF Forward

\* The next pieces of a stream: numbered on, of different keys, each newer than all before.
Continues(e, u, c, out, l) ==
    /\ \A i \in DOMAIN e : e[i].num = out + i - 1
    /\ \A i \in DOMAIN e : e[i].key # None =>
         /\ c.view[e[i].key] <= e[i].ver /\ e[i].ver <= l[e[i].key]
         /\ \A j \in DOMAIN u : Brings(u[j], e[i].key) <= e[i].ver
         /\ \A j \in DOMAIN e : j # i => e[j].key # e[i].key

\* A stream continued by them rises.
LEMMA NextRises ==
    ASSUME NEW u \in Seq(Piece), NEW e \in Seq(Waiting), NEW c \in ReaderState, NEW out \in Nat,
           NEW l, Continues(e, u, c, out, l), Rising(u, c, out)
    PROVE  Rising(u \o e, c, out + Len(e))
<1> DEFINE n == Len(u)
           v == u \o e
<1>1. /\ n \in Nat /\ Len(e) \in Nat /\ DOMAIN u = 1 .. n /\ DOMAIN e = 1 .. Len(e)
      /\ DOMAIN v = 1 .. n + Len(e)
      /\ \A i \in 1 .. n + Len(e) : v[i] = IF i <= n THEN u[i] ELSE e[i - n]
  <2>1. e \in Seq(Piece)
    BY CountQueue
  <2> QED BY <2>1, LenProperties, ConcatProperties
<1>2. ASSUME NEW i \in WithNumber(v)
      PROVE  /\ i \in Nat
             /\ i <= n => i \in WithNumber(u) /\ v[i] = u[i]
             /\ i > n => v[i].num = out + (i - n) - 1 /\ i - n <= Len(e) /\ i - n >= 1
  <2>1. i \in 1 .. n + Len(e) /\ v[i].num # None
    BY <1>1 DEF WithNumber
  <2>2. CASE i <= n
    BY <1>1, <2>1, <2>2 DEF WithNumber
  <2>3. CASE i > n
    <3>1. i - n \in DOMAIN e /\ v[i] = e[i - n]
      BY <1>1, <2>1, <2>3
    <3> QED BY <1>1, <2>1, <2>3, <3>1 DEF Continues
  <2> QED BY <1>1, <2>1, <2>2, <2>3
<1>3. c.next \in Nat /\ c.next <= out
  BY DEF ReaderState, Rising
<1>4. \A i \in WithNumber(u) : u[i].num \in Nat /\ c.next <= u[i].num /\ u[i].num < out
  BY PieceSeq DEF Rising
<1>5. \A i, j \in WithNumber(u) : i < j => u[i].num < u[j].num
  BY DEF Rising
<1> HIDE DEF n, v
<1>6. ASSUME NEW i \in WithNumber(v) PROVE c.next <= v[i].num /\ v[i].num < out + Len(e)
  BY <1>1, <1>2, <1>3, <1>4
<1>7. ASSUME NEW i \in WithNumber(v), NEW j \in WithNumber(v), i < j PROVE v[i].num < v[j].num
  <2>1. CASE j <= n
    BY <1>1, <1>2, <1>5, <1>7, <2>1
  <2>2. CASE j > n /\ i <= n
    BY <1>1, <1>2, <1>4, <2>2
  <2>3. CASE i > n
    <3>0. i \in Int /\ j \in Int /\ n \in Int /\ j > n
      BY <1>1, <1>2, <1>7, <2>3
    <3>1. v[i].num = out + (i - n) - 1 /\ v[j].num = out + (j - n) - 1
      BY <1>2, <2>3, <3>0
    <3> QED BY <1>7, <3>0, <3>1
  <2> QED BY <1>1, <1>2, <2>1, <2>2, <2>3
<1>8. c.next <= out + Len(e)
  BY <1>1, <1>3
<1> QED BY <1>6, <1>7, <1>8 DEF Rising, v

\* And its values do not go back.
LEMMA NextForward ==
    ASSUME NEW u \in Seq(Piece), NEW e \in Seq(Waiting), NEW c \in ReaderState, NEW out \in Nat,
           NEW l \in [Key -> Nat], Continues(e, u, c, out, l), Forward(u, c, l)
    PROVE  Forward(u \o e, c, l)
<1> DEFINE n == Len(u)
           v == u \o e
<1>1. /\ n \in Nat /\ Len(e) \in Nat /\ DOMAIN u = 1 .. n /\ DOMAIN e = 1 .. Len(e)
      /\ DOMAIN v = 1 .. n + Len(e)
      /\ \A i \in 1 .. n + Len(e) : v[i] = IF i <= n THEN u[i] ELSE e[i - n]
  <2>1. e \in Seq(Piece)
    BY CountQueue
  <2> QED BY <2>1, LenProperties, ConcatProperties
<1>2. \A i \in DOMAIN e : e[i] \in Waiting /\ e[i].num # None /\ e[i].key \in Key \cup {None} /\ e[i].ver \in Nat
  BY LenProperties, ElementOfSeq, WaitingParts
<1> HIDE DEF v
<1>3. ASSUME NEW i \in DOMAIN v
      PROVE  \/ i \in DOMAIN u /\ v[i] = u[i] /\ i <= n
             \/ i - n \in DOMAIN e /\ v[i] = e[i - n] /\ i > n
  BY <1>1
<1>4. ASSUME NEW i \in DOMAIN v, NEW k \in Key PROVE Brings(v[i], k) <= l[k]
  <2>1. CASE i \in DOMAIN u /\ v[i] = u[i]
    BY <2>1 DEF Forward
  <2>2. CASE i - n \in DOMAIN e /\ v[i] = e[i - n]
    <3>1. Brings(v[i], k) = IF v[i].key = k THEN v[i].ver ELSE 0
      BY <1>2, <2>2 DEF Brings
    <3>2. v[i].key = k => v[i].ver <= l[k]
      BY <2>2, CppAssumption DEF Continues
    <3> QED BY <3>1, <3>2
  <2> QED BY <1>3, <2>1, <2>2
<1>5. ASSUME NEW i \in WithNumber(v), v[i].key # None
      PROVE  /\ c.view[v[i].key] <= v[i].ver
             /\ \A j \in DOMAIN v : j < i => Brings(v[j], v[i].key) <= v[i].ver
  <2>0. i \in DOMAIN v /\ v[i].num # None
    BY DEF WithNumber
  <2>1. CASE i \in DOMAIN u /\ v[i] = u[i] /\ i <= n
    <3>1. i \in WithNumber(u)
      BY <2>0, <2>1 DEF WithNumber
    <3>2. ASSUME NEW j \in DOMAIN v, j < i PROVE j \in DOMAIN u /\ v[j] = u[j]
      BY <1>1, <2>1, <3>2
    <3> QED BY <1>5, <2>1, <3>1, <3>2 DEF Forward
  <2>2. CASE i - n \in DOMAIN e /\ v[i] = e[i - n]
    <3>1. /\ c.view[v[i].key] <= v[i].ver
          /\ \A j \in DOMAIN u : Brings(u[j], v[i].key) <= v[i].ver
          /\ \A j \in DOMAIN e : j # i - n => e[j].key # v[i].key
      BY <1>5, <2>2 DEF Continues
    <3>2. v[i].key \in Key /\ v[i].ver \in Nat
      BY <1>2, <1>5, <2>2
    <3>3. ASSUME NEW j \in DOMAIN v, j < i PROVE Brings(v[j], v[i].key) <= v[i].ver
      <4>1. CASE j \in DOMAIN u /\ v[j] = u[j]
        BY <3>1, <4>1
      <4>2. CASE j - n \in DOMAIN e /\ v[j] = e[j - n]
        <5>0. i \in Int /\ j \in Int
          BY <1>1, <2>0
        <5>1. j - n # i - n
          BY <1>1, <3>3, <5>0
        <5>2. v[j].key # v[i].key /\ v[j].num # None
          BY <1>2, <3>1, <4>2, <5>1
        <5>3. Brings(v[j], v[i].key) = 0
          BY <5>2 DEF Brings
        <5> QED BY <3>2, <5>3
      <4> QED BY <1>3, <4>1, <4>2
    <3> QED BY <3>1, <3>3
  <2> QED BY <1>3, <2>0, <2>1, <2>2
<1>6. \A k \in Key : c.view[k] <= l[k]
  BY DEF Forward
<1> QED BY <1>4, <1>5, <1>6 DEF Forward, v

\* The places in a concatenation.
LEMMA ConcatPlaces ==
    ASSUME NEW p \in Seq(Piece), NEW q \in Seq(Piece), NEW n, n = Len(p), NEW m, m = Len(q),
           NEW u, u = p \o q
    PROVE  /\ n \in Nat /\ m \in Nat /\ DOMAIN p = 1 .. n /\ DOMAIN q = 1 .. m
           /\ u \in Seq(Piece) /\ DOMAIN u = 1 .. n + m
           /\ \A i \in 1 .. n + m : u[i] = IF i <= n THEN p[i] ELSE q[i - n]
  BY LenProperties, ConcatProperties

\* A stream is what is left of itself, and of what goes on after it.
LEMMA StartWithin ==
    ASSUME NEW p \in Seq(Piece), NEW q \in Seq(Piece)
    PROVE  \E h : Within(p, p \o q, h)
<1> DEFINE h == [i \in DOMAIN p |-> i]
<1>1. PICK n, m, u : n = Len(p) /\ m = Len(q) /\ u = p \o q
  OBVIOUS
<1>2. /\ n \in Nat /\ m \in Nat /\ DOMAIN p = 1 .. n /\ DOMAIN u = 1 .. n + m
      /\ \A i \in 1 .. n + m : u[i] = IF i <= n THEN p[i] ELSE q[i - n]
  BY <1>1, ConcatPlaces
<1>3. \A i \in DOMAIN p : i \in DOMAIN u /\ p[i] = u[i]
  BY <1>2
<1>4. Within(p, u, h)
  BY <1>3 DEF Within
<1> QED BY <1>1, <1>4

\* The piece in the middle may go.
LEMMA TailWithin ==
    ASSUME NEW p \in Seq(Piece), NEW q \in Seq(Piece), q # <<>>
    PROVE  \E h : Within(p \o Tail(q), p \o q, h)
<1>1. PICK n, m, u, t, v : n = Len(p) /\ m = Len(q) /\ u = p \o q /\ t = Tail(q) /\ v = p \o t
  OBVIOUS
<1>2. /\ n \in Nat /\ m \in Nat /\ DOMAIN u = 1 .. n + m
      /\ \A i \in 1 .. n + m : u[i] = IF i <= n THEN p[i] ELSE q[i - n]
  BY <1>1, ConcatPlaces
<1>3. t \in Seq(Piece) /\ Len(t) = m - 1 /\ \A i \in 1 .. m - 1 : t[i] = q[i + 1]
  BY <1>1, HeadTailProperties
<1>4. /\ m - 1 \in Nat /\ DOMAIN v = 1 .. n + (m - 1)
      /\ \A i \in 1 .. n + (m - 1) : v[i] = IF i <= n THEN p[i] ELSE t[i - n]
  BY <1>1, <1>3, ConcatPlaces
<1> DEFINE h == [i \in DOMAIN v |-> IF i <= n THEN i ELSE i + 1]
<1>5. ASSUME NEW i \in DOMAIN v PROVE h[i] \in DOMAIN u /\ v[i] = u[h[i]]
  <2>1. i \in 1 .. n + (m - 1)
    BY <1>4
  <2>2. CASE i <= n
    <3>1. i \in 1 .. n + m
      BY <1>2, <1>4, <2>1
    <3> QED BY <1>2, <1>4, <2>1, <2>2, <3>1
  <2>3. CASE ~(i <= n)
    <3>1. i - n \in 1 .. m - 1 /\ i + 1 \in 1 .. n + m /\ ~(i + 1 <= n) /\ (i + 1) - n = (i - n) + 1
      BY <1>2, <1>4, <2>1, <2>3
    <3>2. v[i] = q[(i - n) + 1]
      BY <1>3, <1>4, <2>1, <2>3, <3>1
    <3>3. u[i + 1] = q[(i + 1) - n]
      BY <1>2, <3>1
    <3> QED BY <1>2, <1>4, <2>1, <2>3, <3>1, <3>2, <3>3
  <2> QED BY <2>2, <2>3
<1>6. \A i, j \in DOMAIN v : i < j => h[i] < h[j]
  BY <1>2, <1>4
<1> HIDE DEF h
<1>7. Within(v, u, h)
  BY <1>5, <1>6 DEF Within
<1> QED BY <1>1, <1>7

\* A denial may come into the middle.
LEMMA DenialWithin ==
    ASSUME NEW p \in Seq(Piece), NEW q \in Seq(Piece)
    PROVE  \E h : Within((p \o <<Denial>>) \o q, p \o q, h)
<1>0. <<Denial>> \in Seq(Piece) /\ Len(<<Denial>>) = 1 /\ <<Denial>>[1] = Denial
  BY DenialParts
<1>1. PICK n, m, u, r, v : n = Len(p) /\ m = Len(q) /\ u = p \o q /\ r = p \o <<Denial>> /\ v = r \o q
  OBVIOUS
<1>2. /\ n \in Nat /\ m \in Nat /\ DOMAIN u = 1 .. n + m
      /\ \A i \in 1 .. n + m : u[i] = IF i <= n THEN p[i] ELSE q[i - n]
  BY <1>1, ConcatPlaces
<1>3. r \in Seq(Piece) /\ Len(r) = n + 1
      /\ \A i \in 1 .. n + 1 : r[i] = IF i <= n THEN p[i] ELSE <<Denial>>[i - n]
  BY <1>0, <1>1, ConcatProperties
<1>4. /\ DOMAIN v = 1 .. (n + 1) + m
      /\ \A i \in 1 .. (n + 1) + m : v[i] = IF i <= n + 1 THEN r[i] ELSE q[i - (n + 1)]
  BY <1>1, <1>3, ConcatPlaces
<1> DEFINE h == [i \in DOMAIN v |-> IF i <= n THEN i ELSE i - 1]
<1>5. ASSUME NEW i \in DOMAIN v PROVE v[i] = Denial \/ (h[i] \in DOMAIN u /\ v[i] = u[h[i]])
  <2>1. i \in 1 .. (n + 1) + m
    BY <1>4
  <2>2. CASE i <= n
    <3>1. i \in 1 .. n + m /\ i \in 1 .. n + 1 /\ i <= n + 1
      BY <1>2, <2>1, <2>2
    <3> QED BY <1>2, <1>3, <1>4, <2>1, <2>2, <3>1
  <2>3. CASE i = n + 1
    <3>1. i \in 1 .. n + 1 /\ ~(i <= n) /\ i - n = 1
      BY <1>2, <2>3
    <3>2. r[i] = Denial
      BY <1>0, <1>3, <3>1
    <3> QED BY <1>4, <2>1, <2>3, <3>2
  <2>4. CASE i > n + 1
    <3>1. i - 1 \in 1 .. n + m /\ ~(i - 1 <= n) /\ ~(i <= n + 1) /\ (i - 1) - n = i - (n + 1)
      BY <1>2, <2>1, <2>4
    <3>2. v[i] = q[i - (n + 1)]
      BY <1>4, <2>1, <3>1
    <3>3. u[i - 1] = q[(i - 1) - n]
      BY <1>2, <3>1
    <3>4. h[i] = i - 1
      BY <1>2, <2>1, <2>4
    <3> QED BY <1>2, <3>1, <3>2, <3>3, <3>4
  <2> QED BY <1>2, <2>1, <2>2, <2>3, <2>4
<1>6. ASSUME NEW i \in DOMAIN v, NEW j \in DOMAIN v, i < j, v[i] # Denial, v[j] # Denial
      PROVE  h[i] < h[j]
  <2>1. \A x \in DOMAIN v : x = n + 1 => v[x] = Denial
    <3>1. n + 1 \in 1 .. n + 1 /\ ~(n + 1 <= n) /\ (n + 1) - n = 1
      BY <1>2
    <3>2. r[n + 1] = Denial
      BY <1>0, <1>3, <3>1
    <3>3. n + 1 \in 1 .. (n + 1) + m /\ n + 1 <= n + 1
      BY <1>2
    <3> QED BY <1>4, <3>2, <3>3
  <2>2. i # n + 1 /\ j # n + 1 /\ i \in Int /\ j \in Int
    BY <1>2, <1>4, <1>6, <2>1
  <2> QED BY <1>2, <1>6, <2>2
<1> HIDE DEF h
<1>7. Within(v, u, h)
  BY <1>5, <1>6 DEF Within
<1> QED BY <1>1, <1>7

-----------------------------------------------------------------------------
(* A subscriber.                                                           *)

\* The parts of a subscriber's state.
LEMMA SubParts ==
    \A b \in SubState :
        /\ b.symbols \subseteq Key /\ b.conflate \in BOOLEAN /\ b.queue \in Seq(Waiting)
        /\ b.pending \in [Key -> Nat] /\ b.wbuf \in Seq(Piece) /\ b.out \in Nat
        /\ b.dropped \in Nat /\ b.granted \subseteq Key /\ b.lost \in Nat
        /\ b.since \in [Key -> Nat] /\ b.queue \in Seq(Piece)
        /\ b.state \in {"new", "on", "gone"} /\ b.armed \in BOOLEAN
<1>1. Seq(Waiting) \subseteq Seq(Piece)
  BY CountQueue
<1> QED BY <1>1 DEF SubState

\* What is under way: the socket and the buffer, then the queue unless it is merged.
LEMMA TapeParts ==
    ASSUME NEW b \in SubState, NEW w \in Seq(Piece)
    PROVE  /\ Tape(b, w) \in Seq(Piece) /\ w \o b.wbuf \in Seq(Piece)
           /\ b.conflate => Tape(b, w) = w \o b.wbuf
           /\ ~b.conflate => Tape(b, w) = (w \o b.wbuf) \o b.queue
           /\ Cardinality(WithNumber(Tape(b, w))) =
                Cardinality(WithNumber(w \o b.wbuf)) + (IF b.conflate THEN 0 ELSE Len(b.queue))
           /\ Cardinality(WithNumber(w \o b.wbuf)) \in Nat
<1>1. b.wbuf \in Seq(Piece) /\ b.queue \in Seq(Waiting) /\ b.queue \in Seq(Piece) /\ b.conflate \in BOOLEAN
  BY SubParts
<1> DEFINE p == w \o b.wbuf
<1>2. p \in Seq(Piece)
  BY <1>1, ConcatProperties
<1>3. b.conflate => Tape(b, w) = p
  <2>1. p \o <<>> = p /\ w \o (b.wbuf \o <<>>) = p
    BY <1>1, <1>2, ConcatEmptySeq
  <2> QED BY <2>1 DEF Tape
<1>4. ~b.conflate => Tape(b, w) = p \o b.queue
  BY <1>1, ConcatAssociative DEF Tape
<1>5. p \o b.queue \in Seq(Piece)
  BY <1>1, <1>2, ConcatProperties
<1>6. Cardinality(WithNumber(p \o b.queue)) = Cardinality(WithNumber(p)) + Len(b.queue)
  <2>1. Cardinality(WithNumber(b.queue)) = Len(b.queue)
    BY <1>1, CountQueue
  <2>2. Cardinality(WithNumber(p \o b.queue)) = Cardinality(WithNumber(p)) + Cardinality(WithNumber(b.queue))
    BY <1>1, <1>2, CountConcat
  <2> QED BY <2>1, <2>2
<1>7. Cardinality(WithNumber(p)) \in Nat
  BY <1>2, CountFinite
<1> HIDE DEF p
<1>8. /\ Tape(b, w) \in Seq(Piece) /\ p \in Seq(Piece)
      /\ b.conflate => Tape(b, w) = p
      /\ ~b.conflate => Tape(b, w) = p \o b.queue
      /\ Cardinality(WithNumber(Tape(b, w))) =
                Cardinality(WithNumber(p)) + (IF b.conflate THEN 0 ELSE Len(b.queue))
  <2>1. CASE b.conflate
    BY <1>2, <1>3, <1>7, <2>1
  <2>2. CASE ~b.conflate
    BY <1>2, <1>4, <1>5, <1>6, <2>2
  <2> QED BY <2>1, <2>2
<1> QED BY <1>7, <1>8 DEF p

\* Values that became newer leave a subscriber sound.
LEMMA SoundLater ==
    ASSUME NEW b \in SubState, NEW w \in Seq(Piece), NEW c \in ReaderState,
           NEW l \in [Key -> Nat], NEW m \in [Key -> Nat], \A k \in Key : l[k] <= m[k], Sound(b, w, c, l)
    PROVE  Sound(b, w, c, m)
<1> DEFINE u == Tape(b, w)
<1>1. u \in Seq(Piece)
  BY TapeParts
<1>2. Forward(u, c, l) /\ Merged(b, u, c, l)
  BY DEF Sound
<1>3. \A k \in Key : c.view[k] \in Nat /\ b.pending[k] \in Nat /\ l[k] \in Nat /\ m[k] \in Nat
  BY SubParts DEF ReaderState
<1>4. \A i \in DOMAIN u, k \in Key : Brings(u[i], k) \in Nat
  BY <1>1, PieceSeq
<1> HIDE DEF u
<1>5. ASSUME NEW k \in Key
      PROVE  c.view[k] <= m[k] /\ b.pending[k] <= m[k] /\ \A i \in DOMAIN u : Brings(u[i], k) <= m[k]
  <2>1. c.view[k] <= l[k] /\ b.pending[k] <= l[k] /\ \A i \in DOMAIN u : Brings(u[i], k) <= l[k]
    BY <1>2 DEF Forward, Merged
  <2> QED BY <1>3, <1>4, <2>1
<1>6. Forward(u, c, m)
  BY <1>2, <1>5 DEF Forward
<1>7. Merged(b, u, c, m)
  BY <1>2, <1>5 DEF Merged
<1> QED BY <1>6, <1>7 DEF Sound, u

\* The same of a concatenation and of its parts.
LEMMA WithoutConcat ==
    ASSUME NEW p \in Seq(Piece), NEW q \in Seq(Piece), NEW k \in Key
    PROVE  Without(p \o q, k) <=> Without(p, k) /\ Without(q, k)
<1>1. /\ Len(p) \in Nat /\ Len(q) \in Nat /\ DOMAIN p = 1 .. Len(p) /\ DOMAIN q = 1 .. Len(q)
      /\ DOMAIN (p \o q) = 1 .. Len(p) + Len(q)
      /\ \A i \in 1 .. Len(p) + Len(q) : (p \o q)[i] = IF i <= Len(p) THEN p[i] ELSE q[i - Len(p)]
  BY LenProperties, ConcatProperties
<1>2. ASSUME Without(p \o q, k) PROVE Without(p, k) /\ Without(q, k)
  <2>1. ASSUME NEW i \in DOMAIN p PROVE i \in DOMAIN (p \o q) /\ (p \o q)[i] = p[i]
    BY <1>1
  <2>2. ASSUME NEW i \in DOMAIN q PROVE i + Len(p) \in DOMAIN (p \o q) /\ (p \o q)[i + Len(p)] = q[i]
    BY <1>1
  <2>3. Without(p, k)
    BY <1>2, <2>1 DEF Without
  <2>4. Without(q, k)
    BY <1>2, <2>2 DEF Without
  <2> QED BY <2>3, <2>4
<1>3. ASSUME Without(p, k), Without(q, k) PROVE Without(p \o q, k)
  <2>1. ASSUME NEW i \in DOMAIN (p \o q)
        PROVE  \/ i \in DOMAIN p /\ (p \o q)[i] = p[i]
               \/ i - Len(p) \in DOMAIN q /\ (p \o q)[i] = q[i - Len(p)]
    BY <1>1
  <2> QED BY <1>3, <2>1 DEF Without
<1> QED BY <1>2, <1>3

-----------------------------------------------------------------------------
(* Fanning out.                                                            *)

\* drop_overflowed writes the queue, the count and the value of the dropped key.
LEMMA DropFields ==
    ASSUME NEW b \in SubState, b.queue # <<>>
    PROVE  LET d == Drop(b)
               k == b.queue[1].key
           IN  /\ d \in SubState
               /\ d.queue = Tail(b.queue) /\ Len(d.queue) = Len(b.queue) - 1 /\ Len(b.queue) \in Nat
               /\ b.queue[1] \in Waiting
               /\ \A i \in DOMAIN d.queue : i + 1 \in DOMAIN b.queue /\ d.queue[i] = b.queue[i + 1]
               /\ DOMAIN b.queue = 1 .. Len(b.queue) /\ DOMAIN d.queue = 1 .. Len(b.queue) - 1
               /\ \A j \in Key : d.pending[j] = IF b.conflate /\ j = k THEN 0 ELSE b.pending[j]
               /\ d.dropped = b.dropped + 1 /\ d.lost = (IF b.conflate THEN b.lost ELSE b.lost + 1)
               /\ d.state = b.state /\ d.symbols = b.symbols /\ d.conflate = b.conflate
               /\ d.wbuf = b.wbuf /\ d.out = b.out /\ d.granted = b.granted /\ d.since = b.since
<1> DEFINE q == Tail(b.queue)
           k == Head(b.queue).key
           pend == IF b.conflate /\ k # None THEN [b.pending EXCEPT ![k] = 0] ELSE b.pending
           missed == IF b.conflate THEN b.lost ELSE b.lost + 1
<1>1. /\ b.queue \in Seq(Waiting) /\ Len(b.queue) \in Nat /\ DOMAIN b.queue = 1 .. Len(b.queue)
      /\ b.queue[1] \in Waiting /\ Head(b.queue) = b.queue[1]
  <2>1. b.queue \in Seq(Waiting)
    BY SubParts
  <2>2. Len(b.queue) \in Nat \ {0} /\ DOMAIN b.queue = 1 .. Len(b.queue)
    BY <2>1, EmptySeq, LenProperties
  <2> QED BY <2>1, <2>2, ElementOfSeq
<1>2. /\ q \in Seq(Waiting) /\ Len(q) = Len(b.queue) - 1
      /\ \A i \in 1 .. Len(q) : q[i] = b.queue[i + 1]
      /\ DOMAIN q = 1 .. Len(q)
  <2>1. q \in Seq(Waiting) /\ Len(q) = Len(b.queue) - 1 /\ \A i \in 1 .. Len(q) : q[i] = b.queue[i + 1]
    BY <1>1, HeadTailProperties
  <2> QED BY <2>1, LenProperties
<1>3. k \in Key \cup {None}
  BY <1>1, WaitingParts
<1>4. pend \in [Key -> Nat] /\ \A j \in Key : pend[j] = IF b.conflate /\ j = k THEN 0 ELSE b.pending[j]
  BY <1>3, SubParts, CppAssumption
<1>5. missed \in Nat
  BY SubParts
<1> HIDE DEF q, pend, missed
<1>6. Drop(b) = [b EXCEPT !.queue = q, !.dropped = b.dropped + 1, !.pending = pend, !.lost = missed]
  BY DEF Drop, q, pend, missed, SubState
<1> DEFINE d == Drop(b)
<1>7. /\ d.queue = q /\ d.pending = pend /\ d.dropped = b.dropped + 1 /\ d.lost = missed
      /\ d.state = b.state /\ d.symbols = b.symbols /\ d.conflate = b.conflate
      /\ d.wbuf = b.wbuf /\ d.out = b.out /\ d.granted = b.granted /\ d.since = b.since
  BY <1>6 DEF SubState
<1>8. d \in SubState
  <2>1. b.dropped + 1 \in Nat
    BY SubParts
  <2> QED BY <1>2, <1>4, <1>5, <1>6, <2>1 DEF SubState
<1> HIDE DEF d
<1>9. \A i \in DOMAIN q : i + 1 \in DOMAIN b.queue /\ q[i] = b.queue[i + 1]
  BY <1>1, <1>2
<1>10. k = b.queue[1].key
  BY <1>1
<1>11. \A j \in Key : d.pending[j] = IF b.conflate /\ j = b.queue[1].key THEN 0 ELSE b.pending[j]
  BY <1>4, <1>7, <1>10
<1>12. d.lost = IF b.conflate THEN b.lost ELSE b.lost + 1
  BY <1>7 DEF missed
<1>13. d.queue = Tail(b.queue)
  BY <1>7 DEF q
<1> QED BY <1>1, <1>2, <1>7, <1>8, <1>9, <1>11, <1>12, <1>13 DEF d

\* It leaves the subscriber sound.
LEMMA DropKeeps ==
    ASSUME NEW b \in SubState, b.queue # <<>>, NEW w \in Seq(Piece), NEW c \in ReaderState,
           NEW l \in [Key -> Nat], Sound(b, w, c, l)
    PROVE  Sound(Drop(b), w, c, l)
<1>1. PICK d : d = Drop(b)
  OBVIOUS
<1>2. /\ d \in SubState /\ Len(d.queue) = Len(b.queue) - 1 /\ Len(b.queue) \in Nat
      /\ b.queue[1] \in Waiting /\ d.queue = Tail(b.queue)
      /\ \A i \in DOMAIN d.queue : i + 1 \in DOMAIN b.queue /\ d.queue[i] = b.queue[i + 1]
      /\ DOMAIN b.queue = 1 .. Len(b.queue) /\ DOMAIN d.queue = 1 .. Len(b.queue) - 1
      /\ \A j \in Key : d.pending[j] = IF b.conflate /\ j = b.queue[1].key THEN 0 ELSE b.pending[j]
      /\ d.lost = (IF b.conflate THEN b.lost ELSE b.lost + 1)
      /\ d.symbols = b.symbols /\ d.conflate = b.conflate
      /\ d.wbuf = b.wbuf /\ d.out = b.out /\ d.granted = b.granted
  BY <1>1, DropFields
<1>3. PICK u, v, p : u = Tape(b, w) /\ v = Tape(d, w) /\ p = w \o b.wbuf
  OBVIOUS
<1>4. /\ u \in Seq(Piece) /\ p \in Seq(Piece) /\ b.queue \in Seq(Piece) /\ b.conflate \in BOOLEAN
      /\ b.conflate => u = p
      /\ ~b.conflate => u = p \o b.queue
      /\ Cardinality(WithNumber(u)) = Cardinality(WithNumber(p)) + (IF b.conflate THEN 0 ELSE Len(b.queue))
      /\ Cardinality(WithNumber(p)) \in Nat
  BY <1>3, TapeParts, SubParts
<1>11. /\ v \in Seq(Piece)
       /\ b.conflate => v = p
       /\ ~b.conflate => v = p \o Tail(b.queue)
       /\ Cardinality(WithNumber(v)) = Cardinality(WithNumber(p)) + (IF b.conflate THEN 0 ELSE Len(d.queue))
  <2>1. /\ v \in Seq(Piece)
        /\ d.conflate => v = w \o d.wbuf
        /\ ~d.conflate => v = (w \o d.wbuf) \o d.queue
        /\ Cardinality(WithNumber(v)) = Cardinality(WithNumber(w \o d.wbuf)) + (IF d.conflate THEN 0 ELSE Len(d.queue))
    BY <1>2, <1>3, TapeParts
  <2>2. d.conflate = b.conflate /\ w \o d.wbuf = p /\ d.queue = Tail(b.queue)
    BY <1>2, <1>3
  <2> QED BY <2>1, <2>2
<1>5. \E h : Within(v, u, h)
  <2>1. CASE b.conflate
    <3>1. Within(u, u, [i \in DOMAIN u |-> i])
      BY DEF Within
    <3> QED BY <1>4, <1>11, <2>1, <3>1
  <2>2. CASE ~b.conflate
    BY <1>4, <1>11, <2>2, TailWithin
  <2> QED BY <2>1, <2>2
<1>6. Rising(u, c, b.out) /\ Balanced(u, c, b.out, b.lost) /\ Forward(u, c, l) /\ Merged(b, u, c, l) /\ Entitled(b, w, c)
  BY <1>3 DEF Sound
<1>7. Rising(v, c, d.out) /\ Forward(v, c, l)
  BY <1>2, <1>4, <1>5, <1>6, <1>11, LeftRises, LeftForward
<1>8. Balanced(v, c, d.out, d.lost)
  <2>1. c.next \in Int /\ c.gaps \in Int /\ b.out \in Int /\ b.lost \in Int /\ b.conflate \in BOOLEAN
    BY SubParts DEF ReaderState
  <2>2. b.out = c.next - c.gaps + Cardinality(WithNumber(u)) + b.lost
    BY <1>6 DEF Balanced
  <2>3. d.out = c.next - c.gaps + Cardinality(WithNumber(v)) + d.lost
    <3>1. CASE b.conflate
      BY <1>2, <1>4, <1>11, <2>1, <2>2, <3>1
    <3>2. CASE ~b.conflate
      <4>1. d.lost = b.lost + 1 /\ d.out = b.out /\ Len(d.queue) = Len(b.queue) - 1 /\ Len(b.queue) \in Int
        BY <1>2, <3>2
      <4>2. Cardinality(WithNumber(u)) = Cardinality(WithNumber(p)) + Len(b.queue)
        BY <1>4, <3>2
      <4>3. Cardinality(WithNumber(v)) = Cardinality(WithNumber(p)) + Len(d.queue)
        BY <1>11, <3>2
      <4>4. PICK x : x = Cardinality(WithNumber(p)) /\ x \in Int
        BY <1>4
      <4>5. b.out = c.next - c.gaps + (x + Len(b.queue)) + b.lost
        BY <2>2, <4>2, <4>4
      <4>6. b.out = c.next - c.gaps + (x + Len(d.queue)) + d.lost
        BY <2>1, <4>1, <4>4, <4>5
      <4> QED BY <4>1, <4>3, <4>4, <4>6
    <3> QED BY <3>1, <3>2
  <2> QED BY <2>3 DEF Balanced
<1>9. Entitled(d, w, c)
  <2>1. ASSUME NEW k \in Key \ b.granted
        PROVE  /\ c.view[k] = 0 /\ d.pending[k] = 0
               /\ Without(w, k) /\ Without(b.wbuf, k) /\ Without(d.queue, k)
    <3>1. c.view[k] = 0 /\ b.pending[k] = 0 /\ Without(w, k) /\ Without(b.wbuf, k) /\ Without(b.queue, k)
      BY <1>6 DEF Entitled
    <3>2. Without(d.queue, k)
      BY <1>2, <3>1 DEF Without
    <3> QED BY <1>2, <3>1, <3>2
  <2> QED BY <1>2, <1>6, <2>1 DEF Entitled
<1>10. Merged(d, v, c, l)
  <2> SUFFICES ASSUME NEW k \in Key
               PROVE  /\ d.pending[k] <= l[k]
                      /\ ~d.conflate => d.pending[k] = 0
                      /\ d.conflate /\ d.pending[k] = 0 => \A i \in DOMAIN d.queue : d.queue[i].key # k
                      /\ d.pending[k] # 0 =>
                           /\ \E i \in DOMAIN d.queue : \A j \in DOMAIN d.queue : d.queue[j].key = k <=> j = i
                           /\ c.view[k] <= d.pending[k]
                           /\ \A i \in DOMAIN v : Brings(v[i], k) <= d.pending[k]
    BY DEF Merged
  <2>1. /\ b.pending[k] <= l[k]
        /\ ~b.conflate => b.pending[k] = 0
        /\ b.conflate /\ b.pending[k] = 0 => \A i \in DOMAIN b.queue : b.queue[i].key # k
        /\ b.pending[k] # 0 =>
             /\ \E i \in DOMAIN b.queue : \A j \in DOMAIN b.queue : b.queue[j].key = k <=> j = i
             /\ c.view[k] <= b.pending[k]
             /\ \A i \in DOMAIN u : Brings(u[i], k) <= b.pending[k]
    BY <1>6 DEF Merged
  <2>2. d.pending[k] = IF b.conflate /\ k = b.queue[1].key THEN 0 ELSE b.pending[k]
    BY <1>2
  <2>3. l[k] \in Nat /\ 1 \in DOMAIN b.queue
    <3>1. Len(b.queue) # 0
      BY EmptySeq, SubParts
    <3> QED BY <1>2, <3>1
  <2>4. CASE ~b.conflate
    BY <1>2, <2>1, <2>2, <2>4
  <2>5. CASE b.conflate /\ k = b.queue[1].key
    <3>1. b.pending[k] # 0
      BY <2>1, <2>3, <2>5
    <3>2. PICK i \in DOMAIN b.queue : \A j \in DOMAIN b.queue : b.queue[j].key = k <=> j = i
      BY <2>1, <3>1
    <3>3. i = 1
      BY <2>3, <2>5, <3>2
    <3>4. ASSUME NEW j \in DOMAIN d.queue PROVE d.queue[j].key # k
      <4>1. j + 1 \in DOMAIN b.queue /\ d.queue[j] = b.queue[j + 1] /\ j + 1 # 1
        BY <1>2
      <4> QED BY <3>2, <3>3, <4>1
    <3> QED BY <2>2, <2>3, <2>5, <3>4
  <2>6. CASE b.conflate /\ k # b.queue[1].key
    <3>1. d.pending[k] = b.pending[k]
      BY <2>2, <2>6
    <3>2. b.pending[k] = 0 => \A i \in DOMAIN d.queue : d.queue[i].key # k
      BY <1>2, <2>1, <2>6
    <3>3. ASSUME b.pending[k] # 0
          PROVE  \E i \in DOMAIN d.queue : \A j \in DOMAIN d.queue : d.queue[j].key = k <=> j = i
      <4>1. PICK i \in DOMAIN b.queue : \A j \in DOMAIN b.queue : b.queue[j].key = k <=> j = i
        BY <2>1, <3>3
      <4>2. i # 1 /\ b.queue[i].key = k
        BY <2>3, <2>6, <4>1
      <4>3. i - 1 \in DOMAIN d.queue
        BY <1>2, <4>2
      <4>4. \A j \in DOMAIN d.queue : d.queue[j].key = k <=> j = i - 1
        <5> TAKE j \in DOMAIN d.queue
        <5>1. j + 1 \in DOMAIN b.queue /\ d.queue[j] = b.queue[j + 1] /\ j \in Int /\ i \in Int
          BY <1>2
        <5> QED BY <4>1, <5>1
      <4> QED BY <4>3, <4>4
    <3>4. v = u
      BY <1>4, <1>11, <2>6
    <3> QED BY <1>2, <2>1, <2>6, <3>1, <3>2, <3>3, <3>4
  <2> QED BY <2>4, <2>5, <2>6
<1> QED BY <1>1, <1>3, <1>7, <1>8, <1>9, <1>10 DEF Sound

\* A frame of key k, the v-th that arrived, is queued; or it is given a number and thrown away.
Taken(b, k, v) ==
    IF b.conflate
    THEN [b EXCEPT !.queue = Append(b.queue, Frame(0, k, IF k = None THEN v ELSE 0)),
                   !.pending = IF k = None THEN b.pending ELSE [b.pending EXCEPT ![k] = v]]
    ELSE [b EXCEPT !.queue = Append(b.queue, Frame(b.out, k, v)), !.out = b.out + 1]
Thrown(b) == [b EXCEPT !.out = IF b.conflate THEN b.out ELSE b.out + 1,
                       !.lost = IF b.conflate THEN b.lost ELSE b.lost + 1]

\* push: drop_overflowed, then one of the two.
LEMMA PushIs ==
    ASSUME NEW b \in SubState, NEW k, NEW v
    PROVE  Push(b, Frame(0, k, v)) =
             LET d == IF Over(b) THEN Drop(b) ELSE b
             IN  IF Over(b) /\ Doomed(d) THEN Thrown(d) ELSE Taken(d, k, v)
<1> DEFINE d == IF Over(b) THEN Drop(b) ELSE b
<1>1. Over(b) => b.queue # <<>>
  <2>1. Len(<<>>) = 0
    OBVIOUS
  <2> QED BY <2>1, CppAssumption DEF Over
<1>2. d \in SubState /\ d.conflate = b.conflate /\ d.out = b.out
  BY <1>1, DropFields
<1> HIDE DEF d
<1>3. Thrown(d) = [d EXCEPT !.out = IF b.conflate THEN @ ELSE @ + 1, !.lost = IF b.conflate THEN @ ELSE @ + 1]
  BY <1>2 DEF Thrown, SubState
<1>4. b.conflate => Taken(d, k, v) =
        [d EXCEPT !.queue = Append(@, Frame(0, k, IF k = None THEN v ELSE 0)),
                  !.pending = IF k = None THEN @ ELSE [@ EXCEPT ![k] = v]]
  BY <1>2 DEF Taken, SubState
<1>5. ~b.conflate => Taken(d, k, v) = [d EXCEPT !.queue = Append(@, Frame(b.out, k, v)), !.out = @ + 1]
  BY <1>2 DEF Taken, SubState
<1>6. PICK f : f = Frame(0, k, v)
  OBVIOUS
<1>7. f.key = k /\ f.ver = v
  BY <1>6 DEF Frame
<1>8. Push(b, f) = IF Over(b) /\ Doomed(d) THEN Thrown(d) ELSE Taken(d, k, v)
  <2>1. CASE Over(b) /\ Doomed(d)
    BY <1>3, <2>1 DEF Push, d
  <2>2. CASE ~(Over(b) /\ Doomed(d)) /\ b.conflate
    BY <1>4, <1>7, <2>2 DEF Push, d
  <2>3. CASE ~(Over(b) /\ Doomed(d)) /\ ~b.conflate
    BY <1>5, <1>7, <2>3 DEF Push, d
  <2> QED BY <2>1, <2>2, <2>3
<1> QED BY <1>6, <1>8 DEF d

\* A thrown frame is counted.
LEMMA ThrownFields ==
    ASSUME NEW b \in SubState
    PROVE  LET d == Thrown(b)
           IN  /\ d \in SubState
               /\ d.out = (IF b.conflate THEN b.out ELSE b.out + 1)
               /\ d.lost = (IF b.conflate THEN b.lost ELSE b.lost + 1)
               /\ d.queue = b.queue /\ d.pending = b.pending /\ d.dropped = b.dropped
               /\ d.state = b.state /\ d.symbols = b.symbols /\ d.conflate = b.conflate
               /\ d.wbuf = b.wbuf /\ d.granted = b.granted /\ d.since = b.since
<1> DEFINE out == IF b.conflate THEN b.out ELSE b.out + 1
           missed == IF b.conflate THEN b.lost ELSE b.lost + 1
<1>1. out \in Nat /\ missed \in Nat
  BY SubParts
<1> HIDE DEF out, missed
<1>2. Thrown(b) = [b EXCEPT !.out = out, !.lost = missed]
  BY DEF Thrown, out, missed
<1> DEFINE d == Thrown(b)
<1>3. /\ d \in SubState /\ d.out = out /\ d.lost = missed
      /\ d.queue = b.queue /\ d.pending = b.pending /\ d.dropped = b.dropped
      /\ d.state = b.state /\ d.symbols = b.symbols /\ d.conflate = b.conflate
      /\ d.wbuf = b.wbuf /\ d.granted = b.granted /\ d.since = b.since
  BY <1>1, <1>2 DEF SubState
<1> HIDE DEF d
<1>4. /\ d.out = (IF b.conflate THEN b.out ELSE b.out + 1)
      /\ d.lost = (IF b.conflate THEN b.lost ELSE b.lost + 1)
  BY <1>3 DEF out, missed
<1> QED BY <1>3, <1>4 DEF d

\* The subscriber stays sound.
LEMMA ThrownKeeps ==
    ASSUME NEW b \in SubState, NEW w \in Seq(Piece), NEW c \in ReaderState,
           NEW l \in [Key -> Nat], Sound(b, w, c, l)
    PROVE  Sound(Thrown(b), w, c, l)
<1>1. PICK d : d = Thrown(b)
  OBVIOUS
<1>2. /\ d \in SubState
      /\ d.out = (IF b.conflate THEN b.out ELSE b.out + 1)
      /\ d.lost = (IF b.conflate THEN b.lost ELSE b.lost + 1)
      /\ d.queue = b.queue /\ d.pending = b.pending
      /\ d.symbols = b.symbols /\ d.conflate = b.conflate
      /\ d.wbuf = b.wbuf /\ d.granted = b.granted
  BY <1>1, ThrownFields
<1>3. PICK u : u = Tape(b, w)
  OBVIOUS
<1>4. Tape(d, w) = u /\ u \in Seq(Piece)
  BY <1>2, <1>3, TapeParts DEF Tape
<1>5. Rising(u, c, b.out) /\ Balanced(u, c, b.out, b.lost) /\ Forward(u, c, l) /\ Merged(b, u, c, l) /\ Entitled(b, w, c)
  BY <1>3 DEF Sound
<1>6. c.next \in Int /\ c.gaps \in Int /\ b.out \in Int /\ b.lost \in Int /\ b.conflate \in BOOLEAN
  BY SubParts DEF ReaderState
<1>7. Rising(u, c, d.out)
  <2>1. \A i \in WithNumber(u) : u[i].num \in Int
    BY <1>4, PieceSeq
  <2>2. b.out <= d.out /\ d.out \in Int
    BY <1>2, <1>6
  <2> QED BY <1>5, <1>6, <2>1, <2>2 DEF Rising
<1>8. Balanced(u, c, d.out, d.lost)
  <2>1. PICK x : x = Cardinality(WithNumber(u)) /\ x \in Int
    BY <1>4, CountFinite
  <2>2. b.out = c.next - c.gaps + x + b.lost
    BY <1>5, <2>1 DEF Balanced
  <2>3. d.out = c.next - c.gaps + x + d.lost
    <3>1. CASE b.conflate
      BY <1>2, <2>2, <3>1
    <3>2. CASE ~b.conflate
      <4>1. d.out = b.out + 1 /\ d.lost = b.lost + 1
        BY <1>2, <3>2
      <4> QED BY <1>6, <2>1, <2>2, <4>1
    <3> QED BY <3>1, <3>2
  <2> QED BY <2>1, <2>3 DEF Balanced
<1>9. Merged(d, u, c, l)
  BY <1>2, <1>5 DEF Merged
<1>10. Entitled(d, w, c)
  BY <1>2, <1>5 DEF Entitled
<1> QED BY <1>1, <1>4, <1>5, <1>7, <1>8, <1>9, <1>10 DEF Sound

\* Queueing in stream mode: the frame and its number.
LEMMA StreamFields ==
    ASSUME NEW b \in SubState, ~b.conflate, NEW k \in Key \cup {None}, NEW v \in Nat
    PROVE  LET d == Taken(b, k, v)
           IN  /\ d \in SubState /\ Frame(b.out, k, v) \in Waiting
               /\ d.queue = b.queue \o <<Frame(b.out, k, v)>> /\ Len(d.queue) = Len(b.queue) + 1
               /\ d.out = b.out + 1 /\ d.lost = b.lost /\ d.pending = b.pending
               /\ d.dropped = b.dropped
               /\ d.state = b.state /\ d.symbols = b.symbols /\ d.conflate = b.conflate
               /\ d.wbuf = b.wbuf /\ d.granted = b.granted /\ d.since = b.since
<1>1. b.queue \in Seq(Waiting) /\ b.out \in Nat
  BY SubParts
<1>2. PICK f : f = Frame(b.out, k, v)
  OBVIOUS
<1>3. f \in Waiting
  BY <1>1, <1>2 DEF Frame, Waiting
<1>4. PICK q : q = Append(b.queue, f)
  OBVIOUS
<1>5. q \in Seq(Waiting) /\ Len(q) = Len(b.queue) + 1 /\ q = b.queue \o <<f>>
  BY <1>1, <1>3, <1>4, AppendProperties, AppendIsConcat
<1>6. Taken(b, k, v) = [b EXCEPT !.queue = q, !.out = b.out + 1]
  BY <1>2, <1>4 DEF Taken
<1> DEFINE d == Taken(b, k, v)
<1>7. /\ d \in SubState /\ d.queue = q
      /\ d.out = b.out + 1 /\ d.lost = b.lost /\ d.pending = b.pending
      /\ d.dropped = b.dropped
      /\ d.state = b.state /\ d.symbols = b.symbols /\ d.conflate = b.conflate
      /\ d.wbuf = b.wbuf /\ d.granted = b.granted /\ d.since = b.since
  <2>1. b.out + 1 \in Nat
    BY <1>1
  <2> QED BY <1>5, <1>6, <2>1 DEF SubState
<1> HIDE DEF d
<1> QED BY <1>2, <1>3, <1>5, <1>7 DEF d

\* Queueing in conflate mode: a place for the key, and its value.
Conflated(b, k, v, d) ==
    /\ d \in SubState /\ Len(b.queue) \in Nat /\ Len(d.queue) = Len(b.queue) + 1
    /\ DOMAIN b.queue = 1 .. Len(b.queue) /\ DOMAIN d.queue = 1 .. Len(b.queue) + 1
    /\ \A i \in DOMAIN b.queue : d.queue[i] = b.queue[i]
    /\ d.queue[Len(b.queue) + 1].key = k /\ d.queue[Len(b.queue) + 1].num = 0
    /\ \A j \in Key : d.pending[j] = IF j = k THEN v ELSE b.pending[j]
    /\ d.out = b.out /\ d.lost = b.lost /\ d.dropped = b.dropped
    /\ d.state = b.state /\ d.symbols = b.symbols /\ d.conflate = b.conflate
    /\ d.wbuf = b.wbuf /\ d.granted = b.granted /\ d.since = b.since

\* The operation does this.
LEMMA ConflateFields ==
    ASSUME NEW b \in SubState, b.conflate, NEW k \in Key \cup {None}, NEW v \in Nat
    PROVE  Conflated(b, k, v, Taken(b, k, v))
<1>1. b.queue \in Seq(Waiting) /\ b.pending \in [Key -> Nat]
  BY SubParts
<1>2. PICK f : f = Frame(0, k, IF k = None THEN v ELSE 0)
  OBVIOUS
<1>3. f \in Waiting /\ f.key = k /\ f.num = 0
  BY <1>2 DEF Frame, Waiting
<1>4. PICK q : q = Append(b.queue, f)
  OBVIOUS
<1>5. /\ q \in Seq(Waiting) /\ Len(q) = Len(b.queue) + 1 /\ Len(b.queue) \in Nat
      /\ \A i \in 1 .. Len(b.queue) : q[i] = b.queue[i]
      /\ q[Len(b.queue) + 1] = f
      /\ DOMAIN b.queue = 1 .. Len(b.queue) /\ DOMAIN q = 1 .. Len(b.queue) + 1
  BY <1>1, <1>3, <1>4, AppendProperties, LenProperties
<1>6. PICK p : p = IF k = None THEN b.pending ELSE [b.pending EXCEPT ![k] = v]
  OBVIOUS
<1>7. p \in [Key -> Nat] /\ \A j \in Key : p[j] = IF j = k THEN v ELSE b.pending[j]
  BY <1>1, <1>6, CppAssumption
<1>8. Taken(b, k, v) = [b EXCEPT !.queue = q, !.pending = p]
  BY <1>2, <1>4, <1>6 DEF Taken
<1> DEFINE d == Taken(b, k, v)
<1>9. /\ d.queue = q /\ d.pending = p
      /\ d.out = b.out /\ d.lost = b.lost /\ d.dropped = b.dropped
      /\ d.state = b.state /\ d.symbols = b.symbols /\ d.conflate = b.conflate
      /\ d.wbuf = b.wbuf /\ d.granted = b.granted /\ d.since = b.since
  BY <1>8 DEF SubState
<1>10. d \in SubState
  <2>1. q \in Seq(Waiting) /\ p \in [Key -> Nat]
    BY <1>5, <1>7
  <2> QED BY <1>8, <2>1 DEF SubState
<1> HIDE DEF d
<1> QED BY <1>3, <1>5, <1>7, <1>9, <1>10 DEF d, Conflated

\* A frame of key k arrives with number v: from the newest values l to the newest values m.
Arrives(k, v, l, m) ==
    /\ k \in Key \cup {None} /\ v \in Nat \ {0} /\ l \in [Key -> Nat] /\ m \in [Key -> Nat]
    /\ \A j \in Key : m[j] = (IF j = k THEN v ELSE l[j]) /\ l[j] <= v

\* Values only become newer.
LEMMA ArrivesLater ==
    ASSUME NEW k, NEW v, NEW l, NEW m, Arrives(k, v, l, m)
    PROVE  \A j \in Key : l[j] <= m[j]
<1> SUFFICES ASSUME NEW j \in Key PROVE l[j] <= m[j]
  OBVIOUS
<1>1. l[j] \in Nat /\ l[j] <= v /\ m[j] = IF j = k THEN v ELSE l[j]
  BY DEF Arrives
<1> QED BY <1>1

\* A frame queued in stream mode leaves the subscriber sound.
LEMMA StreamKeeps ==
    ASSUME NEW b \in SubState, ~b.conflate, NEW w \in Seq(Piece), NEW c \in ReaderState,
           NEW k, NEW v, NEW l, NEW m, Arrives(k, v, l, m),
           k \in Key => k \in b.symbols, Sound(b, w, c, l)
    PROVE  /\ Sound(Taken(b, k, v), w, c, m)
           /\ Tape(Taken(b, k, v), w) = Tape(b, w) \o <<Frame(b.out, k, v)>>
<1>0. k \in Key \cup {None} /\ v \in Nat /\ l \in [Key -> Nat] /\ m \in [Key -> Nat]
  BY DEF Arrives
<1>1. PICK d, f : d = Taken(b, k, v) /\ f = Frame(b.out, k, v)
  OBVIOUS
<1>2. /\ d \in SubState /\ f \in Waiting
      /\ d.queue = b.queue \o <<f>>
      /\ d.out = b.out + 1 /\ d.lost = b.lost /\ d.pending = b.pending
      /\ d.symbols = b.symbols /\ d.conflate = b.conflate
      /\ d.wbuf = b.wbuf /\ d.granted = b.granted
  BY <1>0, <1>1, StreamFields
<1>3. f.num = b.out /\ f.key = k /\ f.ver = v
  BY <1>1 DEF Frame
<1>4. PICK e : e = <<f>>
  OBVIOUS
<1>5. e \in Seq(Waiting) /\ e \in Seq(Piece) /\ Len(e) = 1 /\ DOMAIN e = {1} /\ e[1] = f
  <2>1. e \in Seq(Waiting) /\ Len(e) = 1 /\ DOMAIN e = {1} /\ e[1] = f
    BY <1>2, <1>4
  <2> QED BY <2>1, CountQueue
<1>6. PICK u : u = Tape(b, w)
  OBVIOUS
<1>7. /\ u \in Seq(Piece) /\ b.queue \in Seq(Piece) /\ w \o b.wbuf \in Seq(Piece)
      /\ u = (w \o b.wbuf) \o b.queue /\ Tape(d, w) = (w \o b.wbuf) \o (b.queue \o e)
  <2>1. u \in Seq(Piece) /\ b.queue \in Seq(Piece) /\ w \o b.wbuf \in Seq(Piece) /\ u = (w \o b.wbuf) \o b.queue
    BY <1>6, TapeParts, SubParts
  <2>2. Tape(d, w) = (w \o d.wbuf) \o d.queue
    BY <1>2, TapeParts
  <2> QED BY <1>2, <1>4, <2>1, <2>2
<1>70. u \in Seq(Piece)
  BY <1>7
<1>8. Tape(d, w) = u \o e
  <2>1. PICK p, q : p = w \o b.wbuf /\ q = b.queue
    OBVIOUS
  <2>2. p \in Seq(Piece) /\ q \in Seq(Piece) /\ e \in Seq(Piece)
    BY <1>5, <1>7, <2>1
  <2>3. (p \o q) \o e = p \o (q \o e)
    BY <2>2, ConcatAssociative
  <2> QED BY <1>7, <2>1, <2>3
<1>9. Rising(u, c, b.out) /\ Balanced(u, c, b.out, b.lost) /\ Forward(u, c, l) /\ Merged(b, u, c, l) /\ Entitled(b, w, c)
  BY <1>6 DEF Sound
<1>10. Forward(u, c, m) /\ Merged(b, u, c, m)
  BY <1>0, <1>6, ArrivesLater, SoundLater DEF Sound
<1>11. b.out \in Nat /\ c.next \in Int /\ c.gaps \in Int /\ b.lost \in Int /\ \A j \in Key : c.view[j] \in Nat /\ l[j] \in Nat
  BY <1>0, SubParts DEF ReaderState
<1>12. Continues(e, u, c, b.out, m)
  <2>1. \A i \in DOMAIN e : e[i].num = b.out + i - 1
    BY <1>3, <1>5, <1>11
  <2>2. ASSUME k # None
        PROVE  /\ c.view[k] <= v /\ v <= m[k]
               /\ \A j \in DOMAIN u : Brings(u[j], k) <= v
    <3>1. k \in Key /\ l[k] <= v /\ m[k] = v /\ l[k] \in Nat
      BY <1>0, <2>2 DEF Arrives
    <3>2. c.view[k] <= l[k] /\ c.view[k] \in Nat /\ \A j \in DOMAIN u : Brings(u[j], k) <= l[k] /\ Brings(u[j], k) \in Nat
      BY <1>7, <1>9, <1>11, <3>1, PieceSeq DEF Forward
    <3> QED BY <1>0, <3>1, <3>2
  <2> QED BY <1>3, <1>5, <2>1, <2>2 DEF Continues
<1>13. Rising(u \o e, c, d.out)
  BY <1>2, <1>5, <1>7, <1>9, <1>11, <1>12, NextRises
<1>14. Forward(u \o e, c, m)
  BY <1>0, <1>5, <1>7, <1>10, <1>11, <1>12, NextForward
<1>15. Balanced(u \o e, c, d.out, d.lost)
  <2>1. PICK x : x = Cardinality(WithNumber(u)) /\ x \in Int
    BY <1>70, CountFinite
  <2>2. Cardinality(WithNumber(e)) = 1
    BY <1>5, CountQueue
  <2>6. Cardinality(WithNumber(u \o e)) = Cardinality(WithNumber(u)) + Cardinality(WithNumber(e))
    BY <1>5, <1>70, CountConcat
  <2>3. Cardinality(WithNumber(u \o e)) = x + 1
    BY <2>1, <2>2, <2>6
  <2>4. b.out = c.next - c.gaps + x + b.lost
    BY <1>9, <2>1 DEF Balanced
  <2>5. d.out = c.next - c.gaps + (x + 1) + d.lost
    BY <1>2, <1>11, <2>1, <2>4
  <2> QED BY <2>3, <2>5 DEF Balanced
<1>16. Merged(d, u \o e, c, m)
  BY <1>2, <1>10 DEF Merged
<1>17. Entitled(d, w, c)
  <2>1. ASSUME NEW j \in Key \ b.granted
        PROVE  /\ c.view[j] = 0 /\ b.pending[j] = 0
               /\ Without(w, j) /\ Without(b.wbuf, j) /\ Without(b.queue \o e, j)
    <3>1. c.view[j] = 0 /\ b.pending[j] = 0 /\ Without(w, j) /\ Without(b.wbuf, j) /\ Without(b.queue, j)
      BY <1>9 DEF Entitled
    <3>2. f.key # j
      BY <1>0, <1>3, <1>9 DEF Entitled
    <3>3. Brings(f, j) = 0
      BY <1>2, <3>2, WaitingParts DEF Brings
    <3>4. Without(e, j)
      BY <1>5, <3>2, <3>3 DEF Without
    <3> QED BY <1>5, <1>7, <3>1, <3>4, WithoutConcat
  <2> QED BY <1>2, <1>4, <1>9, <2>1 DEF Entitled
<1> QED BY <1>1, <1>4, <1>6, <1>8, <1>13, <1>14, <1>15, <1>16, <1>17 DEF Sound

\* So does a frame queued in conflate mode.
LEMMA ConflateKeeps ==
    ASSUME NEW b \in SubState, b.conflate, NEW w \in Seq(Piece), NEW c \in ReaderState,
           NEW k, NEW v, NEW l, NEW m, Arrives(k, v, l, m),
           k \in Key => k \in b.symbols /\ b.pending[k] = 0, Sound(b, w, c, l)
    PROVE  /\ Sound(Taken(b, k, v), w, c, m)
           /\ Tape(Taken(b, k, v), w) = Tape(b, w)
<1>0. k \in Key \cup {None} /\ v \in Nat /\ v # 0 /\ l \in [Key -> Nat] /\ m \in [Key -> Nat]
  BY DEF Arrives
<1>1. PICK d, n : d = Taken(b, k, v) /\ n = Len(b.queue)
  OBVIOUS
<1>2. /\ d \in SubState /\ n \in Nat /\ Len(d.queue) = n + 1
      /\ DOMAIN b.queue = 1 .. n /\ DOMAIN d.queue = 1 .. n + 1
      /\ \A i \in DOMAIN b.queue : d.queue[i] = b.queue[i]
      /\ d.queue[n + 1].key = k /\ d.queue[n + 1].num = 0
      /\ \A j \in Key : d.pending[j] = IF j = k THEN v ELSE b.pending[j]
      /\ d.out = b.out /\ d.lost = b.lost
      /\ d.symbols = b.symbols /\ d.conflate = b.conflate
      /\ d.wbuf = b.wbuf /\ d.granted = b.granted
  <2>1. Conflated(b, k, v, d)
    BY <1>0, <1>1, ConflateFields
  <2>2. d.conflate = b.conflate /\ n = Len(b.queue)
    BY <1>1, <2>1 DEF Conflated
  <2> QED BY <2>1, <2>2 DEF Conflated
<1>3. PICK u : u = Tape(b, w)
  OBVIOUS
<1>4. Tape(d, w) = u /\ u \in Seq(Piece)
  <2>1. u \in Seq(Piece) /\ u = w \o b.wbuf
    BY <1>3, TapeParts
  <2>2. Tape(d, w) = w \o d.wbuf
    BY <1>2, TapeParts
  <2> QED BY <1>2, <2>1, <2>2
<1>5. Rising(u, c, b.out) /\ Balanced(u, c, b.out, b.lost) /\ Forward(u, c, l) /\ Merged(b, u, c, l) /\ Entitled(b, w, c)
  BY <1>3 DEF Sound
<1>6. Forward(u, c, m) /\ Merged(b, u, c, m)
  BY <1>0, <1>3, ArrivesLater, SoundLater DEF Sound
<1>7. n + 1 \in DOMAIN d.queue /\ \A i \in DOMAIN d.queue : i \in DOMAIN b.queue \/ i = n + 1
  BY <1>2
<1>8. \A i \in DOMAIN b.queue : i \in DOMAIN d.queue /\ i # n + 1
  BY <1>2
<1>9. ASSUME NEW j \in Key, j # k
      PROVE  /\ d.pending[j] <= m[j]
             /\ d.pending[j] = 0 => \A i \in DOMAIN d.queue : d.queue[i].key # j
             /\ d.pending[j] # 0 =>
                  /\ \E i \in DOMAIN d.queue : \A x \in DOMAIN d.queue : d.queue[x].key = j <=> x = i
                  /\ c.view[j] <= d.pending[j]
                  /\ \A i \in DOMAIN u : Brings(u[i], j) <= d.pending[j]
  <2>1. d.pending[j] = b.pending[j]
    BY <1>2, <1>9
  <2>2. /\ b.pending[j] <= m[j]
        /\ b.pending[j] = 0 => \A i \in DOMAIN b.queue : b.queue[i].key # j
        /\ b.pending[j] # 0 =>
             /\ \E i \in DOMAIN b.queue : \A x \in DOMAIN b.queue : b.queue[x].key = j <=> x = i
             /\ c.view[j] <= b.pending[j]
             /\ \A i \in DOMAIN u : Brings(u[i], j) <= b.pending[j]
    BY <1>6 DEF Merged
  <2>3. b.pending[j] = 0 => \A i \in DOMAIN d.queue : d.queue[i].key # j
    BY <1>2, <1>7, <1>9, <2>2
  <2>4. ASSUME b.pending[j] # 0
        PROVE  \E i \in DOMAIN d.queue : \A x \in DOMAIN d.queue : d.queue[x].key = j <=> x = i
    <3>1. PICK i \in DOMAIN b.queue : \A x \in DOMAIN b.queue : b.queue[x].key = j <=> x = i
      BY <2>2, <2>4
    <3>2. \A x \in DOMAIN d.queue : d.queue[x].key = j <=> x = i
      BY <1>2, <1>7, <1>8, <1>9, <3>1
    <3> QED BY <1>8, <3>1, <3>2
  <2> QED BY <2>1, <2>2, <2>3, <2>4
<1>10. ASSUME k \in Key
       PROVE  /\ d.pending[k] = v /\ m[k] = v
              /\ \E i \in DOMAIN d.queue : \A x \in DOMAIN d.queue : d.queue[x].key = k <=> x = i
              /\ c.view[k] <= v
              /\ \A i \in DOMAIN u : Brings(u[i], k) <= v
  <2>1. d.pending[k] = v /\ m[k] = v
    BY <1>2, <1>10 DEF Arrives
  <2>2. \A i \in DOMAIN b.queue : b.queue[i].key # k
    BY <1>5, <1>10 DEF Merged
  <2>3. \A x \in DOMAIN d.queue : d.queue[x].key = k <=> x = n + 1
    BY <1>2, <1>7, <1>8, <2>2
  <2>4. c.view[k] <= v /\ \A i \in DOMAIN u : Brings(u[i], k) <= v
    BY <1>6, <1>10, <2>1 DEF Forward
  <2> QED BY <1>7, <2>1, <2>3, <2>4
<1>11. Merged(d, u, c, m)
  <2> SUFFICES ASSUME NEW j \in Key
               PROVE  /\ d.pending[j] <= m[j]
                      /\ ~d.conflate => d.pending[j] = 0
                      /\ d.conflate /\ d.pending[j] = 0 => \A i \in DOMAIN d.queue : d.queue[i].key # j
                      /\ d.pending[j] # 0 =>
                           /\ \E i \in DOMAIN d.queue : \A x \in DOMAIN d.queue : d.queue[x].key = j <=> x = i
                           /\ c.view[j] <= d.pending[j]
                           /\ \A i \in DOMAIN u : Brings(u[i], j) <= d.pending[j]
    BY DEF Merged
  <2>1. CASE j = k
    BY <1>0, <1>2, <1>10, <2>1
  <2>2. CASE j # k
    BY <1>2, <1>9, <2>2
  <2> QED BY <2>1, <2>2
<1>12. Entitled(d, w, c)
  <2>1. ASSUME NEW j \in Key \ b.granted
        PROVE  /\ c.view[j] = 0 /\ d.pending[j] = 0
               /\ Without(w, j) /\ Without(b.wbuf, j) /\ Without(d.queue, j)
    <3>1. c.view[j] = 0 /\ b.pending[j] = 0 /\ Without(w, j) /\ Without(b.wbuf, j) /\ Without(b.queue, j)
      BY <1>5 DEF Entitled
    <3>2. j # k
      BY <1>5 DEF Entitled
    <3>3. d.pending[j] = 0
      BY <1>2, <3>1, <3>2
    <3>4. d.queue[n + 1].key # j /\ Brings(d.queue[n + 1], j) = 0
      <4>1. d.queue[n + 1].num # None
        BY <1>2, CppAssumption
      <4> QED BY <1>2, <3>2, <4>1 DEF Brings
    <3>5. Without(d.queue, j)
      BY <1>2, <1>7, <3>1, <3>4 DEF Without
    <3> QED BY <3>1, <3>3, <3>5
  <2> QED BY <1>2, <1>5, <2>1 DEF Entitled
<1> QED BY <1>1, <1>2, <1>3, <1>4, <1>5, <1>6, <1>11, <1>12 DEF Sound

\* When something was dropped, nothing is promised.
LEMMA NewestDropped ==
    ASSUME NEW b, NEW u, NEW c, NEW l, b.dropped # 0 PROVE Newest(b, u, c, l)
  BY DEF Newest

\* What is on its way stays so when more is added.
LEMMA BringsMore ==
    ASSUME NEW p \in Seq(Piece), NEW q \in Seq(Piece), NEW k, NEW x
    PROVE  Carries(p \o q, k, x) <=> Carries(p, k, x) \/ Carries(q, k, x)
<1>1. PICK n, m, u : n = Len(p) /\ m = Len(q) /\ u = p \o q
  OBVIOUS
<1>2. /\ n \in Nat /\ m \in Nat /\ DOMAIN p = 1 .. n /\ DOMAIN q = 1 .. m /\ DOMAIN u = 1 .. n + m
      /\ \A i \in 1 .. n + m : u[i] = IF i <= n THEN p[i] ELSE q[i - n]
  BY <1>1, ConcatPlaces
<1>3. ASSUME NEW i \in DOMAIN u
      PROVE  (i \in DOMAIN p /\ u[i] = p[i]) \/ (i - n \in DOMAIN q /\ u[i] = q[i - n])
  BY <1>2
<1>4. ASSUME NEW i \in DOMAIN p PROVE i \in DOMAIN u /\ u[i] = p[i]
  BY <1>2
<1>5. ASSUME NEW i \in DOMAIN q PROVE i + n \in DOMAIN u /\ u[i + n] = q[i]
  <2>1. i \in 1 .. m /\ i + n \in 1 .. n + m /\ ~(i + n <= n) /\ (i + n) - n = i
    BY <1>2
  <2> QED BY <1>2, <2>1
<1>6. Carries(u, k, x) <=> Carries(p, k, x) \/ Carries(q, k, x)
  BY <1>3, <1>4, <1>5 DEF Carries
<1> QED BY <1>1, <1>6

\* Of what was queued without a drop, the newest is on its way.
LEMMA TakenNewest ==
    ASSUME NEW b \in SubState, NEW w \in Seq(Piece), NEW c \in ReaderState,
           NEW k, NEW v, NEW l, NEW m, Arrives(k, v, l, m),
           k \in Key => k \in b.symbols /\ (b.conflate => b.pending[k] = 0), Sound(b, w, c, l),
           Newest(b, Tape(b, w), c, l)
    PROVE  Newest(Taken(b, k, v), Tape(Taken(b, k, v), w), c, m)
<1>0. k \in Key \cup {None} /\ v \in Nat
  BY DEF Arrives
<1>1. PICK d, u, z : d = Taken(b, k, v) /\ u = Tape(b, w) /\ z = Tape(d, w)
  OBVIOUS
<1>2. /\ d.dropped = b.dropped /\ d.symbols = b.symbols /\ d.since = b.since
      /\ ~b.conflate => d.pending = b.pending
      /\ b.conflate => \A j \in Key : d.pending[j] = IF j = k THEN v ELSE b.pending[j]
  <2>1. CASE b.conflate
    <3>1. Conflated(b, k, v, d)
      BY <1>0, <1>1, <2>1, ConflateFields
    <3> QED BY <2>1, <3>1 DEF Conflated
  <2>2. CASE ~b.conflate
    BY <1>0, <1>1, <2>2, StreamFields
  <2> QED BY <2>1, <2>2
<1>3. u \in Seq(Piece) /\ b.symbols \subseteq Key
  BY <1>1, TapeParts, SubParts
<1>4. \A j \in Key : \A x : (Carries(u, j, x)) => (Carries(z, j, x))
  <2>1. CASE b.conflate
    BY <1>1, <2>1, ConflateKeeps
  <2>2. CASE ~b.conflate
    <3>1. PICK f, e : f = Frame(b.out, k, v) /\ e = <<f>>
      OBVIOUS
    <3>2. z = u \o e
      BY <1>1, <2>2, <3>1, StreamKeeps
    <3>3. f \in Piece
      BY <1>0, <2>2, <3>1, StreamFields, WaitingParts
    <3>4. e \in Seq(Piece)
      BY <3>1, <3>3
    <3>5. ASSUME NEW j \in Key, NEW x, Carries(u, j, x)
          PROVE  Carries(z, j, x)
      <4>1. Carries(u \o e, j, x) <=> Carries(u, j, x) \/ Carries(e, j, x)
        BY <1>3, <3>4, BringsMore
      <4> QED BY <3>2, <3>5, <4>1
    <3> QED BY <3>5
  <2> QED BY <2>1, <2>2
<1>5. ASSUME k \in Key
      PROVE  m[k] = v /\ (d.pending[k] = v \/ Carries(z, k, v))
  <2>0. m[k] = v
    BY <1>5 DEF Arrives
  <2>1. CASE b.conflate
    BY <1>2, <1>5, <2>0, <2>1
  <2>2. CASE ~b.conflate
    <3>1. PICK f, e : f = Frame(b.out, k, v) /\ e = <<f>>
      OBVIOUS
    <3>2. z = u \o e
      BY <1>1, <2>2, <3>1, StreamKeeps
    <3>3. f \in Piece /\ f.num # None /\ f.key = k /\ f.ver = v
      <4>1. f \in Waiting
        BY <1>0, <2>2, <3>1, StreamFields
      <4> QED BY <3>1, <4>1, WaitingParts DEF Frame
    <3>4. e \in Seq(Piece) /\ 1 \in DOMAIN e /\ e[1] = f
      BY <3>1, <3>3
    <3>5. Brings(f, k) = v
      BY <3>3 DEF Brings
    <3>6. Carries(e, k, v)
      BY <3>4, <3>5 DEF Carries
    <3>7. Carries(u \o e, k, v) <=> Carries(u, k, v) \/ Carries(e, k, v)
      BY <1>3, <3>4, BringsMore
    <3> QED BY <2>0, <3>2, <3>6, <3>7
  <2> QED BY <2>1, <2>2
<1>6. ASSUME NEW j \in d.symbols, d.dropped = 0, m[j] > d.since[j]
      PROVE  \/ c.view[j] = m[j] \/ d.pending[j] = m[j] \/ Carries(z, j, m[j])
  <2>1. CASE j = k
    BY <1>2, <1>3, <1>5, <2>1
  <2>2. CASE j # k
    <3>1. j \in Key /\ m[j] = l[j] /\ d.pending[j] = b.pending[j]
      BY <1>2, <1>3, <2>2 DEF Arrives
    <3>2. \/ c.view[j] = l[j] \/ b.pending[j] = l[j] \/ Carries(u, j, l[j])
      BY <1>1, <1>2, <1>6, <3>1 DEF Newest
    <3> QED BY <1>4, <3>1, <3>2
  <2> QED BY <2>1, <2>2
<1> QED BY <1>1, <1>6 DEF Newest

\* Fanning one frame out keeps what holds of a subscriber.
Kept(b, d, w, c, l, m) ==
    /\ d \in SubState /\ d.state = b.state /\ Len(d.queue) <= client_queue
    /\ Sound(d, w, c, m)
    /\ Newest(b, Tape(b, w), c, l) => Newest(d, Tape(d, w), c, m)

\* When it is queued or thrown.
LEMMA PushKeeps ==
    ASSUME NEW b \in SubState, Len(b.queue) <= client_queue, NEW w \in Seq(Piece), NEW c \in ReaderState,
           NEW k, NEW v, NEW l, NEW m, Arrives(k, v, l, m),
           k \in Key => k \in b.symbols /\ (b.conflate => b.pending[k] = 0), Sound(b, w, c, l)
    PROVE  Kept(b, Push(b, Frame(0, k, v)), w, c, l, m)
<1>0. k \in Key \cup {None} /\ v \in Nat /\ l \in [Key -> Nat] /\ m \in [Key -> Nat] /\ \A j \in Key : l[j] <= m[j]
  BY ArrivesLater DEF Arrives
<1>1. PICK p : p = Push(b, Frame(0, k, v))
  OBVIOUS
<1>2. /\ client_queue \in Nat /\ client_queue # 0 /\ Len(b.queue) \in Nat
  BY SubParts, LenProperties, CppAssumption
<1>3. ASSUME NEW d \in SubState, d.conflate = b.conflate, Len(d.queue) < client_queue, d.symbols = b.symbols,
             d.state = b.state, k \in Key /\ b.conflate => d.pending[k] = 0, Sound(d, w, c, l)
      PROVE  LET t == Taken(d, k, v)
             IN  t \in SubState /\ t.state = b.state /\ Len(t.queue) <= client_queue /\ Sound(t, w, c, m)
                 /\ t.dropped = d.dropped
  <2>1. PICK t : t = Taken(d, k, v)
    OBVIOUS
  <2>2. Len(d.queue) \in Nat
    BY SubParts, LenProperties
  <2>3. CASE b.conflate
    <3>1. Conflated(d, k, v, t)
      BY <1>0, <1>3, <2>1, <2>3, ConflateFields
    <3>2. Sound(t, w, c, m)
      BY <1>3, <2>1, <2>3, ConflateKeeps
    <3> QED BY <1>2, <1>3, <2>1, <2>2, <3>1, <3>2 DEF Conflated
  <2>4. CASE ~b.conflate
    <3>1. t \in SubState /\ t.state = d.state /\ Len(t.queue) = Len(d.queue) + 1 /\ t.dropped = d.dropped
      BY <1>0, <1>3, <2>1, <2>4, StreamFields
    <3>2. Sound(t, w, c, m)
      BY <1>3, <2>1, <2>4, StreamKeeps
    <3> QED BY <1>2, <1>3, <2>1, <2>2, <3>1, <3>2
  <2> QED BY <2>3, <2>4
<1>4. CASE ~Over(b)
  <2>1. p = Taken(b, k, v)
    BY <1>1, <1>4, PushIs
  <2>2. Len(b.queue) < client_queue
    BY <1>2, <1>4 DEF Over
  <2>3. p \in SubState /\ p.state = b.state /\ Len(p.queue) <= client_queue /\ Sound(p, w, c, m)
    BY <1>3, <2>1, <2>2
  <2>4. Newest(b, Tape(b, w), c, l) => Newest(p, Tape(p, w), c, m)
    BY <2>1, TakenNewest
  <2> QED BY <1>1, <2>3, <2>4 DEF Kept
<1>5. CASE Over(b)
  <2>0. b.queue # <<>>
    <3>1. Len(<<>>) = 0
      OBVIOUS
    <3> QED BY <1>2, <1>5, <3>1 DEF Over
  <2>1. PICK d : d = Drop(b)
    OBVIOUS
  <2>2. /\ d \in SubState /\ Len(d.queue) = Len(b.queue) - 1
        /\ \A j \in Key : d.pending[j] = IF b.conflate /\ j = b.queue[1].key THEN 0 ELSE b.pending[j]
        /\ d.dropped = b.dropped + 1
        /\ d.state = b.state /\ d.symbols = b.symbols /\ d.conflate = b.conflate
    BY <2>0, <2>1, DropFields
  <2>3. Sound(d, w, c, l)
    BY <1>0, <2>0, <2>1, DropKeeps
  <2>5. d.dropped # 0 /\ Len(d.queue) < client_queue
    <3>1. b.dropped \in Nat
      BY SubParts
    <3> QED BY <1>2, <2>2, <3>1
  <2>6. k \in Key /\ b.conflate => d.pending[k] = 0
    BY <2>2
  <2>7. CASE Doomed(d)
    <3>1. p = Thrown(d)
      BY <1>1, <1>5, <2>1, <2>7, PushIs
    <3>2. p \in SubState /\ p.queue = d.queue /\ p.dropped = d.dropped /\ p.state = d.state
      BY <2>2, <3>1, ThrownFields
    <3>3. Sound(p, w, c, l)
      BY <2>2, <2>3, <1>0, <3>1, ThrownKeeps
    <3>4. Sound(p, w, c, m)
      BY <1>0, <3>2, <3>3, SoundLater
    <3>5. Newest(p, Tape(p, w), c, m)
      BY <2>5, <3>2, NewestDropped
    <3>6. Len(d.queue) \in Int
      BY <1>2, <2>2
    <3> QED BY <1>1, <1>2, <2>2, <2>5, <3>2, <3>4, <3>5, <3>6 DEF Kept
  <2>8. CASE ~Doomed(d)
    <3>1. p = Taken(d, k, v)
      BY <1>1, <1>5, <2>1, <2>8, PushIs
    <3>2. p \in SubState /\ p.state = b.state /\ Len(p.queue) <= client_queue /\ Sound(p, w, c, m)
          /\ p.dropped = d.dropped
      BY <1>3, <2>2, <2>3, <2>5, <2>6, <3>1
    <3>3. Newest(p, Tape(p, w), c, m)
      BY <2>5, <3>2, NewestDropped
    <3> QED BY <1>1, <3>2, <3>3 DEF Kept
  <2> QED BY <2>7, <2>8
<1> QED BY <1>4, <1>5

\* In any case.
LEMMA FanoutKeeps ==
    ASSUME NEW b \in SubState, Len(b.queue) <= client_queue, NEW w \in Seq(Piece), NEW c \in ReaderState,
           NEW k, NEW v, NEW l, NEW m, Arrives(k, v, l, m), Sound(b, w, c, l)
    PROVE  Kept(b, FanoutTo(b, Frame(0, k, v)), w, c, l, m)
<1>0. k \in Key \cup {None} /\ v \in Nat /\ v # 0 /\ l \in [Key -> Nat] /\ m \in [Key -> Nat]
      /\ (\A j \in Key : l[j] <= m[j]) /\ None \notin Key
  BY ArrivesLater, CppAssumption DEF Arrives
<1>1. PICK f, p : f = Frame(0, k, v) /\ p = FanoutTo(b, f)
  OBVIOUS
<1>2. f.key = k /\ f.ver = v
  BY <1>1 DEF Frame
<1>3. CASE k = None
  <2>1. p = Push(b, f)
    BY <1>1, <1>2, <1>3 DEF FanoutTo
  <2>2. k \notin Key
    BY <1>0, <1>3
  <2>3. Kept(b, Push(b, Frame(0, k, v)), w, c, l, m)
    BY <2>2, PushKeeps
  <2> QED BY <1>1, <2>1, <2>3
<1>4. CASE k \in Key /\ k \notin b.symbols
  <2>1. p = b
    BY <1>0, <1>1, <1>2, <1>4 DEF FanoutTo
  <2>2. Sound(b, w, c, m)
    BY <1>0, SoundLater
  <2>3. \A j \in b.symbols : m[j] = l[j]
    BY <1>4, SubParts DEF Arrives
  <2>4. Newest(b, Tape(b, w), c, l) => Newest(b, Tape(b, w), c, m)
    BY <2>3 DEF Newest
  <2> QED BY <1>1, <2>1, <2>2, <2>4 DEF Kept
<1>5. CASE k \in b.symbols /\ b.conflate /\ b.pending[k] # 0
  <2>0. k \in Key /\ k # None
    BY <1>0, <1>5, SubParts
  <2>1. PICK q : q = [b.pending EXCEPT ![k] = v]
    OBVIOUS
  <2>2. p = [b EXCEPT !.pending = q]
    BY <1>1, <1>2, <1>5, <2>0, <2>1 DEF FanoutTo
  <2>3. b.pending \in [Key -> Nat]
    BY SubParts
  <2>4. q \in [Key -> Nat] /\ \A j \in Key : q[j] = IF j = k THEN v ELSE b.pending[j]
    BY <1>0, <2>1, <2>3
  <2>5. /\ p.pending = q /\ p.queue = b.queue /\ p.out = b.out /\ p.lost = b.lost /\ p.dropped = b.dropped
        /\ p.state = b.state /\ p.symbols = b.symbols /\ p.conflate = b.conflate
        /\ p.wbuf = b.wbuf /\ p.granted = b.granted /\ p.since = b.since
    BY <2>2 DEF SubState
  <2>6. p \in SubState
    BY <2>2, <2>4 DEF SubState
  <2>7. PICK u : u = Tape(b, w)
    OBVIOUS
  <2>8. Tape(p, w) = u
    BY <2>5, <2>7 DEF Tape
  <2>9. /\ Rising(u, c, b.out) /\ Balanced(u, c, b.out, b.lost) /\ Forward(u, c, m) /\ Merged(b, u, c, m)
        /\ Entitled(b, w, c)
    BY <1>0, <2>7, SoundLater DEF Sound
  <2>10. m[k] = v /\ c.view[k] <= v /\ \A i \in DOMAIN u : Brings(u[i], k) <= v
    BY <1>0, <2>0, <2>9 DEF Arrives, Forward
  <2>11. Merged(p, u, c, m)
    <3> SUFFICES ASSUME NEW j \in Key
                 PROVE  /\ q[j] <= m[j]
                        /\ ~b.conflate => q[j] = 0
                        /\ b.conflate /\ q[j] = 0 => \A i \in DOMAIN b.queue : b.queue[i].key # j
                        /\ q[j] # 0 =>
                             /\ \E i \in DOMAIN b.queue : \A x \in DOMAIN b.queue : b.queue[x].key = j <=> x = i
                             /\ c.view[j] <= q[j]
                             /\ \A i \in DOMAIN u : Brings(u[i], j) <= q[j]
      BY <2>5 DEF Merged
    <3>1. CASE j # k
      <4>1. q[j] = b.pending[j]
        BY <2>4, <3>1
      <4> QED BY <2>9, <4>1 DEF Merged
    <3>2. CASE j = k
      <4>1. q[k] = v
        BY <2>0, <2>4
      <4>2. \E i \in DOMAIN b.queue : \A x \in DOMAIN b.queue : b.queue[x].key = k <=> x = i
        BY <1>5, <2>0, <2>9 DEF Merged
      <4>3. q[k] <= m[k]
        BY <1>0, <2>10, <4>1
      <4> QED BY <1>0, <1>5, <2>10, <3>2, <4>1, <4>2, <4>3
    <3> QED BY <3>1, <3>2
  <2>12. Entitled(p, w, c)
    <3>1. \A j \in Key \ b.granted : q[j] = b.pending[j]
      BY <1>5, <2>4, <2>9 DEF Entitled
    <3> QED BY <2>5, <2>9, <3>1 DEF Entitled
  <2>13. Sound(p, w, c, m)
    BY <2>5, <2>8, <2>9, <2>11, <2>12 DEF Sound
  <2>14. ASSUME Newest(b, u, c, l) PROVE Newest(p, u, c, m)
    <3> SUFFICES ASSUME NEW j \in b.symbols, b.dropped = 0, m[j] > b.since[j]
                 PROVE  c.view[j] = m[j] \/ q[j] = m[j] \/ Carries(u, j, m[j])
      BY <2>5 DEF Newest
    <3>1. j \in Key
      BY SubParts
    <3>2. CASE j = k
      BY <2>4, <2>10, <3>1, <3>2
    <3>3. CASE j # k
      <4>1. m[j] = l[j] /\ q[j] = b.pending[j]
        BY <2>4, <3>1, <3>3 DEF Arrives
      <4>2. c.view[j] = l[j] \/ b.pending[j] = l[j] \/ Carries(u, j, l[j])
        BY <2>14, <4>1 DEF Newest
      <4> QED BY <4>1, <4>2
    <3> QED BY <3>2, <3>3
  <2> QED BY <1>1, <2>5, <2>6, <2>7, <2>8, <2>13, <2>14 DEF Kept
<1>6. CASE k \in b.symbols /\ ~(b.conflate /\ b.pending[k] # 0)
  <2>0. k \in Key /\ k # None
    BY <1>0, <1>6, SubParts
  <2>1. p = Push(b, f)
    BY <1>1, <1>2, <1>6, <2>0 DEF FanoutTo
  <2>2. Kept(b, Push(b, Frame(0, k, v)), w, c, l, m)
    BY <1>6, PushKeeps
  <2> QED BY <1>1, <2>1, <2>2
<1> QED BY <1>0, <1>3, <1>4, <1>5, <1>6

-----------------------------------------------------------------------------
(* A batch.                                                                *)

\* A nonempty set of numbers has a least one.
LEMMA Least ==
    ASSUME NEW T, T \subseteq Nat, T # {}
    PROVE  \E m \in T : \A n \in Nat : n < m => n \notin T
<1>1. PICK R : R = OpToRel(<, Nat)
  OBVIOUS
<1>2. IsWellFoundedOn(R, Nat)
  BY <1>1, NatLessThanWellFounded
<1>3. \A x, y \in Nat : <<y, x>> \in R <=> y < x
  BY <1>1 DEF OpToRel
<1>4. PICK m \in T : \A n \in T : ~ (<<n, m>> \in R)
  BY <1>2, WFMin
<1>5. \A n \in T : ~(n < m)
  BY <1>3, <1>4, Zenon
<1> QED BY <1>5

\* The subscriber after the first n frames of the batch.
After(b, closed, batch, g, n) ==
    IF n = 0 THEN b ELSE IF closed \/ Doomed(g[n - 1]) THEN g[n - 1] ELSE FanoutTo(g[n - 1], batch[n])
Chain(b, closed, batch, g) == g = [n \in 0 .. Len(batch) |-> After(b, closed, batch, g, n)]
Chained(b, closed, batch) == CHOOSE g : Chain(b, closed, batch, g)

\* A batch is fanned out along that chain.
LEMMA FanoutAllIs ==
    ASSUME NEW s, NEW batch
    PROVE  FanoutAll(s, batch) = Chained(subs[s], s \in toClose, batch)[Len(batch)]
  BY DEF FanoutAll, Chained, Chain, After

\* The chain exists.
LEMMA ChainExists ==
    ASSUME NEW b, NEW closed, NEW batch, Len(batch) \in Nat
    PROVE  Chain(b, closed, batch, Chained(b, closed, batch))
<1> DEFINE N == Len(batch)
           Body(g, n) == After(b, closed, batch, g, n)
           Good(g, x) == g = [n \in 0 .. N |-> g[n]] /\ \A n \in 0 .. N : n <= x => g[n] = Body(g, n)
           Bad == {x \in Nat : ~ \E g : Good(g, x)}
<1>0. N \in Nat
  OBVIOUS
<1>1. \E g : Good(g, 0)
  <2> DEFINE z == [n \in 0 .. N |-> b]
  <2>1. \A n \in 0 .. N : n <= 0 => z[n] = Body(z, n)
    <3>1. \A n \in 0 .. N : n <= 0 => n = 0
      BY <1>0
    <3>2. Body(z, 0) = b /\ \A n \in 0 .. N : z[n] = b
      BY DEF After
    <3> HIDE DEF z, Body
    <3> QED BY <3>1, <3>2
  <2>2. z = [n \in 0 .. N |-> z[n]]
    OBVIOUS
  <2> HIDE DEF z, Body
  <2> QED BY <2>1, <2>2
<1>2. ASSUME NEW x \in Nat, NEW g, Good(g, x) PROVE \E h : Good(h, x + 1)
  <2> DEFINE h == [n \in 0 .. N |-> IF n <= x THEN g[n] ELSE Body(g, n)]
  <2>1. ASSUME NEW n \in 0 .. N, n <= x + 1 PROVE h[n] = Body(h, n)
    <3>1. CASE n = 0
      <4>1. 0 <= x /\ Body(g, 0) = b /\ Body(h, 0) = b
        BY DEF After
      <4>2. h[0] = g[0] /\ g[0] = Body(g, 0)
        <5> HIDE DEF Body
        <5> QED BY <1>2, <3>1, <4>1
      <4> HIDE DEF h, Body
      <4> QED BY <3>1, <4>1, <4>2
    <3>2. CASE n # 0
      <4>1. n - 1 \in 0 .. N /\ n - 1 <= x
        BY <1>0, <2>1, <3>2
      <4>2. h[n - 1] = g[n - 1]
        BY <4>1
      <4>3. Body(h, n) = Body(g, n)
        <5> HIDE DEF h
        <5> QED BY <4>2 DEF After
      <4>4. h[n] = Body(g, n)
        <5>1. h[n] = IF n <= x THEN g[n] ELSE Body(g, n)
          OBVIOUS
        <5>2. n <= x => g[n] = Body(g, n)
          <6> HIDE DEF Body
          <6> QED BY <1>2
        <5> HIDE DEF h, Body
        <5> QED BY <5>1, <5>2
      <4> HIDE DEF h, Body
      <4> QED BY <4>3, <4>4
    <3> QED BY <3>1, <3>2
  <2>2. h = [n \in 0 .. N |-> h[n]]
    OBVIOUS
  <2> HIDE DEF h, Body
  <2> QED BY <2>1, <2>2
<1> HIDE DEF Good
<1>3. \A x \in Nat : \E g : Good(g, x)
  <2> SUFFICES ASSUME Bad # {} PROVE FALSE
    OBVIOUS
  <2>1. PICK m \in Bad : \A n \in Nat : n < m => n \notin Bad
    <3>1. Bad \subseteq Nat
      OBVIOUS
    <3> HIDE DEF Bad
    <3> QED BY <3>1, Least
  <2>2. m \in Nat /\ ~ \E g : Good(g, m)
    OBVIOUS
  <2>3. m # 0
    BY <1>1, <2>2
  <2>4. m - 1 \in Nat /\ m - 1 < m /\ (m - 1) + 1 = m
    BY <2>2, <2>3
  <2>5. \E g : Good(g, m - 1)
    BY <2>1, <2>4
  <2>6. \E g : Good(g, (m - 1) + 1)
    BY <1>2, <2>4, <2>5
  <2> QED BY <2>2, <2>4, <2>6
<1>4. PICK g : Good(g, N)
  BY <1>0, <1>3
<1>5. Chain(b, closed, batch, g)
  <2>1. g = [n \in 0 .. N |-> g[n]] /\ \A n \in 0 .. N : g[n] = Body(g, n)
    <3>1. \A n \in 0 .. N : n <= N
      BY <1>0
    <3> HIDE DEF N, Body
    <3> QED BY <1>4, <3>1 DEF Good
  <2>2. g = [n \in 0 .. N |-> Body(g, n)]
    <3> HIDE DEF Body
    <3> QED BY <2>1
  <2> QED BY <2>2 DEF Chain
<1> QED BY <1>5 DEF Chained

\* The newest values after the first n frames of a batch, the first of which is number f + 1.
LastAt(keys, f, l, n) ==
    [k \in Key |-> IF {i \in 1 .. n : keys[i] = k} = {} THEN l[k] ELSE f + Max({i \in 1 .. n : keys[i] = k})]

\* Frame n is the newest of its key, and the other keys are as after frame m before it.
Newer(keys, f, l, m, n, k) ==
    /\ LastAt(keys, f, l, 0) = l
    /\ k = keys[n] => LastAt(keys, f, l, n)[k] = f + n
    /\ k # keys[n] => LastAt(keys, f, l, n)[k] = LastAt(keys, f, l, m)[k]

\* Each frame arrives after the ones before it.
LEMMA LastStep ==
    ASSUME NEW keys, NEW f \in Nat, NEW l \in [Key -> Nat], NEW m \in Nat, NEW n, n = m + 1,
           NEW k \in Key
    PROVE  Newer(keys, f, l, m, n, k)
<1> DEFINE S(x) == {i \in 1 .. x : keys[i] = k}
           L(x) == LastAt(keys, f, l, x)
<1>0. \A x : L(x)[k] = IF S(x) = {} THEN l[k] ELSE f + Max(S(x))
  BY DEF LastAt
<1>1. L(0) = l
  <2>1. \A j \in Key : {i \in 1 .. 0 : keys[i] = j} = {}
    OBVIOUS
  <2>2. L(0) = [j \in Key |-> l[j]]
    BY <2>1 DEF LastAt
  <2> QED BY <2>2
<1>2. CASE k = keys[n]
  <2>1. n \in S(n) /\ \A i \in S(n) : i <= n /\ i \in Nat
    BY <1>2
  <2>2. Max(S(n)) = n
    <3>1. PICK T : T = S(n)
      OBVIOUS
    <3>2. n \in T /\ \A i \in T : i <= n /\ i \in Nat
      BY <2>1, <3>1
    <3>3. n \in T /\ \A y \in T : n >= y
      BY <3>2
    <3>4. Max(T) \in T /\ \A y \in T : Max(T) >= y
      BY <3>3 DEF Max
    <3>5. Max(T) >= n /\ Max(T) <= n /\ Max(T) \in Nat
      BY <3>2, <3>4
    <3>6. Max(T) = n
      BY <3>5
    <3> QED BY <3>1, <3>6
  <2>3. L(n)[k] = f + Max(S(n))
    <3>1. S(n) # {}
      BY <2>1
    <3> HIDE DEF S, L
    <3> QED BY <1>0, <3>1
  <2>4. L(n)[k] = f + n
    BY <2>2, <2>3
  <2> QED BY <1>1, <1>2, <2>4 DEF Newer
<1>3. CASE k # keys[n]
  <2>1. S(n) = S(m)
    <3>1. \A i \in 1 .. n : i # n => i \in 1 .. m
      OBVIOUS
    <3>2. \A i \in 1 .. m : i \in 1 .. n
      OBVIOUS
    <3> QED BY <1>3, <3>1, <3>2
  <2>2. L(n)[k] = L(m)[k]
    <3> HIDE DEF S, L
    <3> QED BY <1>0, <2>1
  <2> QED BY <1>1, <1>3, <2>2 DEF Newer
<1> QED BY <1>2, <1>3

\* The newest values are numbers of frames that arrived.
LEMMA LastTypes ==
    ASSUME NEW N \in Nat, NEW keys \in [1 .. N -> Key \cup {None}], NEW f \in Nat,
           NEW l \in [Key -> Nat], \A k \in Key : l[k] <= f
    PROVE  \A n \in 0 .. N : LastAt(keys, f, l, n) \in [Key -> Nat]
                             /\ \A k \in Key : LastAt(keys, f, l, n)[k] <= f + n
<1> DEFINE L(n) == LastAt(keys, f, l, n)
           Good(n) == L(n) \in [Key -> Nat] /\ \A k \in Key : L(n)[k] <= f + n
           Bad == {n \in 0 .. N : ~ Good(n)}
<1>0. \A n : L(n) = [k \in Key |-> L(n)[k]]
  BY DEF LastAt
<1>1. Good(0)
  <2>1. L(0) = l
    <3>1. CASE Key = {}
      BY <3>1 DEF LastAt
    <3>2. CASE Key # {}
      <4>1. PICK k \in Key : TRUE
        BY <3>2
      <4>2. 0 \in Nat /\ 1 = 0 + 1
        OBVIOUS
      <4>3. Newer(keys, f, l, 0, 1, k)
        BY <4>1, <4>2, LastStep
      <4> QED BY <4>3 DEF Newer
    <3> QED BY <3>1, <3>2
  <2> QED BY <2>1
<1>2. ASSUME NEW n \in 1 .. N, Good(n - 1) PROVE Good(n)
  <2>1. n \in Nat \ {0} /\ n - 1 \in Nat
    OBVIOUS
  <2>2. ASSUME NEW k \in Key PROVE L(n)[k] \in Nat /\ L(n)[k] <= f + n
    <3>0. n \in Nat \ {0} /\ k \in Key
      BY <2>1
    <3>4. PICK m \in Nat : m = n - 1 /\ n = m + 1
      BY <2>1
    <3>1. /\ k = keys[n] => L(n)[k] = f + n
          /\ k # keys[n] => L(n)[k] = L(m)[k]
      <4>1. Newer(keys, f, l, m, n, k)
        BY <3>0, <3>4, LastStep
      <4> QED BY <4>1 DEF Newer
    <3>2. L(n - 1)[k] \in Nat /\ L(n - 1)[k] <= f + (n - 1)
      BY <1>2
    <3>3. L(m)[k] \in Nat /\ L(m)[k] <= f + (n - 1)
      BY <3>2, <3>4
    <3> HIDE DEF L
    <3> QED BY <2>1, <3>1, <3>3
  <2> HIDE DEF L
  <2> QED BY <1>0, <2>2
<1> HIDE DEF L, Good
<1>3. Bad = {}
  <2> SUFFICES ASSUME Bad # {} PROVE FALSE
    OBVIOUS
  <2>1. PICK m \in Bad : \A n \in Nat : n < m => n \notin Bad
    <3>1. Bad \subseteq Nat
      OBVIOUS
    <3> HIDE DEF Bad
    <3> QED BY <3>1, Least
  <2>2. m \in 0 .. N /\ ~ Good(m)
    OBVIOUS
  <2>3. m # 0
    BY <1>1, <2>2
  <2>4. m \in 1 .. N /\ m - 1 \in 0 .. N /\ m - 1 \in Nat /\ m - 1 < m
    BY <2>2, <2>3
  <2>5. Good(m - 1)
    BY <2>1, <2>4
  <2> QED BY <1>2, <2>2, <2>4, <2>5
<1> QED BY <1>3 DEF Good, L

\* Each frame of a batch arrives.
LEMMA BatchArrives ==
    ASSUME NEW N \in Nat, NEW keys \in [1 .. N -> Key \cup {None}], NEW f \in Nat,
           NEW l \in [Key -> Nat], \A k \in Key : l[k] <= f, NEW n \in 1 .. N
    PROVE  Arrives(keys[n], f + n, LastAt(keys, f, l, n - 1), LastAt(keys, f, l, n))
<1>1. PICK p, q : p = LastAt(keys, f, l, n - 1) /\ q = LastAt(keys, f, l, n)
  OBVIOUS
<1>2. n \in 0 .. N /\ n - 1 \in 0 .. N /\ n \in Nat \ {0}
  OBVIOUS
<1>3. p \in [Key -> Nat] /\ q \in [Key -> Nat] /\ \A k \in Key : p[k] <= f + (n - 1)
  BY <1>1, <1>2, LastTypes
<1>4. keys[n] \in Key \cup {None}
  OBVIOUS
<1>5. \A k \in Key : q[k] = IF k = keys[n] THEN f + n ELSE p[k]
  <2>1. ASSUME NEW k \in Key
        PROVE  /\ k = keys[n] => q[k] = f + n
               /\ k # keys[n] => q[k] = p[k]
    <3>1. PICK m \in Nat : m = n - 1 /\ n = m + 1
      BY <1>2
    <3>2. /\ k = keys[n] => LastAt(keys, f, l, n)[k] = f + n
          /\ k # keys[n] => LastAt(keys, f, l, n)[k] = LastAt(keys, f, l, m)[k]
      <4>1. Newer(keys, f, l, m, n, k)
        BY <3>1, LastStep
      <4> QED BY <4>1 DEF Newer
    <3> QED BY <1>1, <3>1, <3>2
  <2> QED BY <2>1
<1>6. \A k \in Key : p[k] <= f + n
  <2> SUFFICES ASSUME NEW k \in Key PROVE p[k] <= f + n
    OBVIOUS
  <2>1. p[k] \in Nat /\ p[k] <= f + (n - 1) /\ n \in Nat
    BY <1>2, <1>3
  <2> QED BY <2>1
<1>7. f + n \in Nat \ {0}
  OBVIOUS
<1>8. Arrives(keys[n], f + n, p, q)
  BY <1>3, <1>4, <1>5, <1>6, <1>7 DEF Arrives
<1> QED BY <1>1, <1>8

\* What holds of a subscriber whether or not it is to be closed.
Served(b, w, c, l, closed) ==
    /\ b \in SubState /\ Len(b.queue) <= client_queue /\ Sound(b, w, c, l)
    /\ closed \/ Newest(b, Tape(b, w), c, l)

\* The batch of the frames with these keys, of which the first is number f + 1.
Batched(batch, N, keys, f) == Len(batch) = N /\ \A n \in 1 .. N : batch[n] = Frame(0, keys[n], f + n)
\* A subscriber in state b is served as d.
ServedAs(b, d, w, c, l, closed) == Served(d, w, c, l, closed) /\ d.state = b.state

\* Fanning a batch out keeps it.
LEMMA BatchKeeps ==
    ASSUME NEW N \in Nat, NEW keys \in [1 .. N -> Key \cup {None}], NEW f \in Nat,
           NEW l \in [Key -> Nat], \A k \in Key : l[k] <= f,
           NEW batch, Batched(batch, N, keys, f), NEW w \in Seq(Piece), NEW c \in ReaderState, NEW closed \in BOOLEAN,
           NEW b, Served(b, w, c, l, closed)
    PROVE  ServedAs(b, Chained(b, closed, batch)[N], w, c, LastAt(keys, f, l, N), closed)
<1>0. Len(batch) = N /\ \A n \in 1 .. N : batch[n] = Frame(0, keys[n], f + n)
  BY DEF Batched
<1>1. PICK g : g = Chained(b, closed, batch)
  OBVIOUS
<1>2. g = [n \in 0 .. N |-> After(b, closed, batch, g, n)]
  <2>1. Chain(b, closed, batch, g)
    BY <1>0, <1>1, ChainExists
  <2> QED BY <1>0, <2>1 DEF Chain
<1> DEFINE L(n) == LastAt(keys, f, l, n)
           Good(n) == Served(g[n], w, c, L(n), closed) /\ g[n].state = b.state
           Bad == {n \in 0 .. N : ~ Good(n)}
<1>3. \A n \in 0 .. N : L(n) \in [Key -> Nat]
  BY LastTypes
<1>4. Good(0)
  <2>1. g[0] = b
    BY <1>2 DEF After
  <2>2. L(0) = l
    <3>1. CASE Key = {}
      BY <3>1 DEF LastAt
    <3>2. CASE Key # {}
      <4>1. PICK k \in Key : TRUE
        BY <3>2
      <4>2. 0 \in Nat /\ 1 = 0 + 1
        OBVIOUS
      <4>3. Newer(keys, f, l, 0, 1, k)
        BY <4>1, <4>2, LastStep
      <4> QED BY <4>3 DEF Newer
    <3> QED BY <3>1, <3>2
  <2> QED BY <2>1, <2>2
<1>5. ASSUME NEW n \in 1 .. N, Good(n - 1) PROVE Good(n)
  <2>1. PICK d, p, q : d = g[n - 1] /\ p = L(n - 1) /\ q = L(n)
    OBVIOUS
  <2>2. Arrives(keys[n], f + n, p, q)
    BY <2>1, BatchArrives
  <2>3. p \in [Key -> Nat] /\ q \in [Key -> Nat] /\ \A j \in Key : p[j] <= q[j]
    <3>1. p \in [Key -> Nat] /\ q \in [Key -> Nat]
      BY <2>2 DEF Arrives
    <3> QED BY <2>2, <3>1, ArrivesLater
  <2>4. d \in SubState /\ Len(d.queue) <= client_queue /\ Sound(d, w, c, p) /\ d.state = b.state
        /\ (closed \/ Newest(d, Tape(d, w), c, p))
    BY <1>5, <2>1 DEF Served
  <2>5. g[n] = IF closed \/ Doomed(d) THEN d ELSE FanoutTo(d, batch[n])
    <3>1. n \in 0 .. N /\ n # 0
      OBVIOUS
    <3>2. g[n] = After(b, closed, batch, g, n)
      BY <1>2, <3>1
    <3> QED BY <2>1, <3>1, <3>2 DEF After
  <2> HIDE DEF L
  <2>6. CASE closed \/ Doomed(d)
    <3>1. g[n] = d
      BY <2>5, <2>6
    <3>2. Sound(d, w, c, q)
      BY <2>3, <2>4, SoundLater
    <3>3. Doomed(d) => d.dropped # 0
      BY <2>4, SubParts, CppAssumption DEF Doomed
    <3>4. closed \/ Newest(d, Tape(d, w), c, q)
      BY <2>6, <3>3, NewestDropped
    <3> QED BY <2>1, <2>4, <3>1, <3>2, <3>4 DEF Served
  <2>7. CASE ~(closed \/ Doomed(d))
    <3>1. g[n] = FanoutTo(d, Frame(0, keys[n], f + n))
      BY <1>0, <2>5, <2>7
    <3>2. Kept(d, FanoutTo(d, Frame(0, keys[n], f + n)), w, c, p, q)
      BY <2>2, <2>4, FanoutKeeps
    <3>3. Kept(d, g[n], w, c, p, q)
      BY <3>1, <3>2
    <3> QED BY <2>1, <2>4, <2>7, <3>3 DEF Kept, Served
  <2> QED BY <2>6, <2>7
<1>6. Bad = {}
  <2> HIDE DEF Good
  <2> SUFFICES ASSUME Bad # {} PROVE FALSE
    OBVIOUS
  <2>1. PICK m \in Bad : \A n \in Nat : n < m => n \notin Bad
    <3>1. Bad \subseteq Nat
      OBVIOUS
    <3> HIDE DEF Bad
    <3> QED BY <3>1, Least
  <2>2. m \in 0 .. N /\ ~ Good(m)
    OBVIOUS
  <2>3. m # 0
    BY <1>4, <2>2
  <2>4. m \in 1 .. N /\ m - 1 \in 0 .. N /\ m - 1 \in Nat /\ m - 1 < m
    BY <2>2, <2>3
  <2>5. Good(m - 1)
    BY <2>1, <2>4
  <2> QED BY <1>5, <2>2, <2>4, <2>5
<1>7. Good(N)
  <2>1. N \in 0 .. N
    OBVIOUS
  <2> HIDE DEF Good
  <2> QED BY <1>6, <2>1
<1> QED BY <1>1, <1>7 DEF ServedAs

-----------------------------------------------------------------------------
(* Writing.                                                                *)

\* A sequence s cut after n into p and q.
Cut(s, n, p, q) ==
    /\ s = p \o q /\ Len(p) = n /\ Len(q) = Len(s) - n
    /\ \A i \in 1 .. n : p[i] = s[i]
    /\ \A i \in 1 .. Len(s) - n : q[i] = s[n + i]

\* The parts are what SubSeq gives.
LEMMA CutParts ==
    ASSUME NEW S, NEW s \in Seq(S), NEW n \in 0 .. Len(s)
    PROVE  /\ Cut(s, n, SubSeq(s, 1, n), SubSeq(s, n + 1, Len(s)))
           /\ SubSeq(s, 1, n) \in Seq(S) /\ SubSeq(s, n + 1, Len(s)) \in Seq(S)
<1>1. PICK m : m = Len(s) /\ m \in Nat
  BY LenProperties
<1>2. n \in Int /\ n <= m /\ 0 <= n
  BY <1>1
<1>3. \A i \in 1 .. m : s[i] \in S
  BY <1>1, ElementOfSeq
<1>4. PICK p, q : p = SubSeq(s, 1, n) /\ q = SubSeq(s, n + 1, m)
  OBVIOUS
<1>5. p \in Seq(S) /\ Len(p) = n /\ \A i \in 1 .. n : p[i] = s[i]
  <2>1. \A i \in 1 .. n : s[i] \in S
    BY <1>1, <1>2, <1>3
  <2>2. /\ p \in Seq(S) /\ Len(p) = (IF 1 <= n THEN n - 1 + 1 ELSE 0)
        /\ \A i \in 1 .. n - 1 + 1 : p[i] = s[1 + i - 1]
    BY <1>2, <1>4, <2>1, SubSeqProperties
  <2>3. Len(p) = n
    BY <1>2, <2>2
  <2>4. ASSUME NEW i \in 1 .. n PROVE p[i] = s[i]
    <3>1. i \in 1 .. n - 1 + 1 /\ 1 + i - 1 = i
      BY <1>2
    <3> QED BY <2>2, <3>1
  <2> QED BY <2>2, <2>3, <2>4
<1>6. q \in Seq(S) /\ Len(q) = m - n /\ \A i \in 1 .. m - n : q[i] = s[n + i]
  <2>0. n + 1 \in Int /\ m \in Int
    BY <1>1, <1>2
  <2>1. \A i \in n + 1 .. m : s[i] \in S
    BY <1>1, <1>2, <1>3
  <2>2. /\ q \in Seq(S) /\ Len(q) = (IF n + 1 <= m THEN m - (n + 1) + 1 ELSE 0)
        /\ \A i \in 1 .. m - (n + 1) + 1 : q[i] = s[(n + 1) + i - 1]
    BY <2>0, <1>4, <2>1, SubSeqProperties
  <2>3. Len(q) = m - n
    BY <1>1, <1>2, <2>2
  <2>4. ASSUME NEW i \in 1 .. m - n PROVE q[i] = s[n + i]
    <3>1. i \in 1 .. m - (n + 1) + 1 /\ (n + 1) + i - 1 = n + i
      BY <1>1, <1>2
    <3> QED BY <2>2, <3>1
  <2> QED BY <2>2, <2>3, <2>4
<1>7. s = p \o q
  <2>1. p \o q \in Seq(S) /\ Len(p \o q) = m
        /\ \A i \in 1 .. m : (p \o q)[i] = IF i <= n THEN p[i] ELSE q[i - n]
    <3>1. /\ p \o q \in Seq(S) /\ Len(p \o q) = Len(p) + Len(q)
          /\ \A i \in 1 .. Len(p) + Len(q) : (p \o q)[i] = IF i <= Len(p) THEN p[i] ELSE q[i - Len(p)]
      BY <1>5, <1>6, ConcatProperties
    <3>2. Len(p) = n /\ Len(p) + Len(q) = m
      BY <1>1, <1>2, <1>5, <1>6
    <3> QED BY <3>1, <3>2
  <2>2. ASSUME NEW i \in 1 .. m PROVE (p \o q)[i] = s[i]
    <3>1. CASE i <= n
      BY <1>2, <1>5, <2>1, <3>1
    <3>2. CASE ~(i <= n)
      <4>1. i - n \in 1 .. m - n /\ n + (i - n) = i
        BY <1>1, <1>2, <3>2
      <4>2. q[i - n] = s[n + (i - n)]
        BY <1>6, <4>1
      <4> QED BY <2>1, <3>2, <4>1, <4>2
    <3> QED BY <3>1, <3>2
  <2> QED BY <1>1, <2>1, <2>2, SeqEqual
<1>8. Cut(s, n, p, q)
  BY <1>1, <1>5, <1>6, <1>7 DEF Cut
<1> QED BY <1>1, <1>4, <1>5, <1>6, <1>8

\* The first n items of the queue as they are encoded.
Encoded(b, n) == [i \in 1 .. n |-> Encode(b, i)]

\* A queued item becomes a frame with the next number, in conflate mode with the value of now.
LEMMA EncodedParts ==
    ASSUME NEW b \in SubState, NEW n \in 0 .. Len(b.queue)
    PROVE  /\ Encoded(b, n) \in Seq(Waiting) /\ Encoded(b, n) \in Seq(Piece)
           /\ Len(Encoded(b, n)) = n /\ DOMAIN Encoded(b, n) = 1 .. n
           /\ \A i \in 1 .. n :
                LET q == b.queue[i] IN
                /\ i \in DOMAIN b.queue /\ q \in Waiting /\ q.key \in Key \cup {None}
                /\ Encoded(b, n)[i].key = q.key
                /\ ~b.conflate => Encoded(b, n)[i] = q
                /\ b.conflate => Encoded(b, n)[i].num = b.out + i - 1
                /\ b.conflate /\ q.key # None => Encoded(b, n)[i].ver = b.pending[q.key]
<1>1. PICK e : e = Encoded(b, n)
  OBVIOUS
<1>2. b.queue \in Seq(Waiting) /\ b.pending \in [Key -> Nat] /\ b.out \in Nat
      /\ Len(b.queue) \in Nat /\ DOMAIN b.queue = 1 .. Len(b.queue)
  BY SubParts, LenProperties
<1>3. n \in Nat /\ n <= Len(b.queue)
  BY <1>2
<1>4. ASSUME NEW i \in 1 .. n
      PROVE  /\ i \in DOMAIN b.queue /\ b.queue[i] \in Waiting /\ b.queue[i].key \in Key \cup {None}
             /\ e[i] \in Waiting /\ e[i].key = b.queue[i].key
             /\ ~b.conflate => e[i] = b.queue[i]
             /\ b.conflate => e[i].num = b.out + i - 1
             /\ b.conflate /\ b.queue[i].key # None => e[i].ver = b.pending[b.queue[i].key]
  <2>1. i \in 1 .. Len(b.queue)
    BY <1>2, <1>3
  <2>2. PICK q : q = b.queue[i]
    OBVIOUS
  <2>3. q \in Waiting
    BY <1>2, <2>1, <2>2, ElementOfSeq
  <2>4. q.key \in Key \cup {None} /\ q.ver \in Nat
    BY <2>3, WaitingParts
  <2>5. e[i] = Encode(b, i)
    BY <1>1 DEF Encoded
  <2>6. CASE ~b.conflate
    BY <1>2, <2>1, <2>2, <2>3, <2>4, <2>5, <2>6 DEF Encode
  <2>7. CASE b.conflate
    <3>1. PICK x : x = IF q.key = None THEN q.ver ELSE b.pending[q.key]
      OBVIOUS
    <3>2. e[i] = Frame(b.out + i - 1, q.key, x)
      BY <2>2, <2>5, <2>7, <3>1 DEF Encode
    <3>3. x \in Nat
      BY <1>2, <2>4, <3>1
    <3>4. b.out + i - 1 \in Nat
      BY <1>2, <1>3
    <3>5. e[i] \in Waiting /\ e[i].key = q.key /\ e[i].num = b.out + i - 1 /\ e[i].ver = x
      BY <2>4, <3>2, <3>3, <3>4 DEF Frame, Waiting
    <3> QED BY <1>2, <2>1, <2>2, <2>3, <2>4, <2>7, <3>1, <3>5
  <2> QED BY <2>6, <2>7
<1>5. e = [i \in 1 .. n |-> e[i]]
  BY <1>1 DEF Encoded
<1>6. e \in Seq(Waiting)
  BY <1>3, <1>4, <1>5
<1>7. Len(e) = n /\ DOMAIN e = 1 .. n
  BY <1>3, <1>5, <1>6, LenProperties
<1>8. e \in Seq(Piece)
  BY <1>6, CountQueue
<1> QED BY <1>1, <1>4, <1>6, <1>7, <1>8

\* The subscriber after n items moved from its queue to the socket or, the rest y, to wbuf.
Moved(b, n) == {b.queue[i].key : i \in 1 .. n}
Emptied(b, n, y) ==
    [b EXCEPT !.wbuf = y, !.queue = SubSeq(b.queue, n + 1, Len(b.queue)),
              !.out = IF b.conflate THEN b.out + n ELSE b.out,
              !.pending = [k \in Key |-> IF k \in Moved(b, n) THEN 0 ELSE b.pending[k]]]

\* What flush may have done: n items moved, x was sent, y is left in wbuf.
Flushes(b, room, n, x, y) ==
    /\ n \in 0 .. Len(b.queue) /\ x \in Seq(Piece) /\ y \in Seq(Piece) /\ Len(x) <= room
    /\ x \o y = b.wbuf \o Encoded(b, n)
    /\ Flush(b, room).sent = x /\ Flush(b, room).b = Emptied(b, n, y)

\* The lesser of two numbers.
LEMMA LesserOf ==
    ASSUME NEW i \in Nat, NEW j \in Nat
    PROVE  Min({i, j}) \in Nat /\ Min({i, j}) <= i /\ Min({i, j}) <= j
<1>1. PICK T : T = {i, j}
  OBVIOUS
<1>2. \E x \in T : \A y \in T : x <= y
  BY <1>1
<1>3. Min(T) \in T /\ \A y \in T : Min(T) <= y
  BY <1>2 DEF Min
<1> QED BY <1>1, <1>3

\* flush does one of these.
LEMMA FlushIs ==
    ASSUME NEW b \in SubState, NEW room \in Nat
    PROVE  \E n, x, y : Flushes(b, room, n, x, y)
<1> DEFINE rest  == IF room < Len(b.wbuf) THEN 0 ELSE (room - Len(b.wbuf)) \div Coalesce + 1
           moved == Min({Len(b.queue), rest * Coalesce})
           buf   == b.wbuf \o [i \in 1 .. moved |-> Encode(b, i)]
           sent  == Min({room, Len(buf)})
           x == SubSeq(buf, 1, sent)
           y == SubSeq(buf, sent + 1, Len(buf))
<1>1. /\ b.wbuf \in Seq(Piece) /\ Len(b.wbuf) \in Nat /\ Len(b.queue) \in Nat
      /\ Coalesce \in Nat /\ Coalesce # 0
  BY SubParts, LenProperties, CppAssumption
<1>2. rest \in Nat
  <2>1. PICK r : r = room - Len(b.wbuf)
    OBVIOUS
  <2>2. CASE room < Len(b.wbuf)
    BY <2>2
  <2>3. CASE ~(room < Len(b.wbuf))
    <3>1. r \in Nat
      BY <1>1, <2>1, <2>3
    <3>2. r \div Coalesce \in Nat
      BY <1>1, <3>1
    <3> QED BY <2>1, <2>3, <3>2
  <2> QED BY <2>2, <2>3
<1>3. rest * Coalesce \in Nat
  <2> HIDE DEF rest
  <2> QED BY <1>1, <1>2
<1>4. moved \in Nat /\ moved <= Len(b.queue)
  <2> HIDE DEF rest
  <2> QED BY <1>1, <1>3, LesserOf
<1>5. moved \in 0 .. Len(b.queue)
  <2> HIDE DEF moved
  <2> QED BY <1>1, <1>4
<1> HIDE DEF rest, moved
<1>6. buf = b.wbuf \o Encoded(b, moved)
  BY DEF Encoded
<1>7. buf \in Seq(Piece) /\ Len(buf) \in Nat
  <2>1. Encoded(b, moved) \in Seq(Piece)
    BY <1>5, EncodedParts
  <2>2. b.wbuf \o Encoded(b, moved) \in Seq(Piece)
    BY <1>1, <2>1, ConcatProperties
  <2> HIDE DEF buf
  <2>3. buf \in Seq(Piece)
    BY <1>6, <2>2
  <2> QED BY <2>3, LenProperties
<1> HIDE DEF buf
<1>8. sent \in Nat /\ sent <= room /\ sent <= Len(buf)
  BY <1>7, LesserOf
<1> HIDE DEF sent
<1>9. sent \in 0 .. Len(buf)
  BY <1>7, <1>8
<1>10. Cut(buf, sent, x, y) /\ x \in Seq(Piece) /\ y \in Seq(Piece)
  BY <1>7, <1>9, CutParts
<1>11. Flush(b, room).sent = x /\ Flush(b, room).b = Emptied(b, moved, y)
  <2> DEFINE keys == {b.queue[i].key : i \in 1 .. moved}
             z == [b EXCEPT !.wbuf = SubSeq(buf, sent + 1, Len(buf)),
                         !.queue = SubSeq(@, moved + 1, Len(@)),
                         !.out = IF b.conflate THEN @ + moved ELSE @,
                         !.pending = [k \in Key |-> IF k \in keys THEN 0 ELSE @[k]]]
  <2>1. Flush(b, room) = [b |-> z, sent |-> SubSeq(buf, 1, sent)]
    BY DEF Flush, rest, moved, buf, sent
  <2>2. z = Emptied(b, moved, y)
    BY DEF Emptied, SubState, Moved
  <2> HIDE DEF z
  <2>3. Flush(b, room).b = z /\ Flush(b, room).sent = SubSeq(buf, 1, sent)
    <3>1. PICK r : r = Flush(b, room)
      OBVIOUS
    <3>2. PICK t : t = SubSeq(buf, 1, sent)
      OBVIOUS
    <3>3. r = [b |-> z, sent |-> t]
      BY <2>1, <3>1, <3>2
    <3>4. r.b = z /\ r.sent = t
      BY <3>3
    <3> QED BY <3>1, <3>2, <3>4
  <2> QED BY <2>2, <2>3
<1> HIDE DEF x, y
<1>12. Len(x) <= room /\ x \o y = buf
  BY <1>8, <1>10 DEF Cut
<1>13. Flushes(b, room, moved, x, y)
  BY <1>5, <1>6, <1>10, <1>11, <1>12 DEF Flushes
<1> QED BY <1>13

\* What it leaves.
Lighter(b, n, y, d) ==
    /\ d \in SubState
    /\ d.queue = SubSeq(b.queue, n + 1, Len(b.queue)) /\ d.queue \in Seq(Waiting)
    /\ Cut(b.queue, n, SubSeq(b.queue, 1, n), d.queue) /\ SubSeq(b.queue, 1, n) \in Seq(Waiting)
    /\ Len(b.queue) \in Nat /\ Len(d.queue) = Len(b.queue) - n
    /\ DOMAIN b.queue = 1 .. Len(b.queue) /\ DOMAIN d.queue = 1 .. Len(b.queue) - n
    /\ \A i \in DOMAIN d.queue : n + i \in DOMAIN b.queue /\ d.queue[i] = b.queue[n + i]
    /\ \A k \in Key : d.pending[k] = IF k \in Moved(b, n) THEN 0 ELSE b.pending[k]
    /\ d.wbuf = y /\ d.out = (IF b.conflate THEN b.out + n ELSE b.out)
    /\ d.lost = b.lost /\ d.dropped = b.dropped
    /\ d.state = b.state /\ d.symbols = b.symbols /\ d.conflate = b.conflate
    /\ d.granted = b.granted /\ d.since = b.since

\* These are its fields.
LEMMA EmptiedFields ==
    ASSUME NEW b \in SubState, NEW n \in 0 .. Len(b.queue), NEW y \in Seq(Piece)
    PROVE  Lighter(b, n, y, Emptied(b, n, y))
<1>1. b.queue \in Seq(Waiting) /\ Len(b.queue) \in Nat /\ DOMAIN b.queue = 1 .. Len(b.queue)
      /\ b.pending \in [Key -> Nat] /\ b.out \in Nat
  BY SubParts, LenProperties
<1>2. n \in Nat /\ n <= Len(b.queue)
  BY <1>1
<1>3. PICK p, q : p = SubSeq(b.queue, 1, n) /\ q = SubSeq(b.queue, n + 1, Len(b.queue))
  OBVIOUS
<1>4. Cut(b.queue, n, p, q) /\ p \in Seq(Waiting) /\ q \in Seq(Waiting)
  BY <1>1, <1>3, CutParts
<1>5. Len(q) = Len(b.queue) - n /\ \A i \in 1 .. Len(b.queue) - n : q[i] = b.queue[n + i]
  BY <1>4 DEF Cut
<1>6. DOMAIN q = 1 .. Len(b.queue) - n
  <2>1. DOMAIN q = 1 .. Len(q)
    BY <1>4, LenProperties
  <2> QED BY <1>5, <2>1
<1>7. \A i \in DOMAIN q : n + i \in DOMAIN b.queue /\ q[i] = b.queue[n + i]
  BY <1>1, <1>2, <1>5, <1>6
<1>8. PICK h, o : /\ h = [k \in Key |-> IF k \in Moved(b, n) THEN 0 ELSE b.pending[k]]
                  /\ o = IF b.conflate THEN b.out + n ELSE b.out
  OBVIOUS
<1>9. h \in [Key -> Nat] /\ o \in Nat
  BY <1>1, <1>2, <1>8
<1>10. Emptied(b, n, y) = [b EXCEPT !.wbuf = y, !.queue = q, !.out = o, !.pending = h]
  BY <1>3, <1>8 DEF Emptied
<1> DEFINE d == Emptied(b, n, y)
<1>11. /\ d.queue = q /\ d.pending = h /\ d.wbuf = y /\ d.out = o
       /\ d.lost = b.lost /\ d.dropped = b.dropped
       /\ d.state = b.state /\ d.symbols = b.symbols /\ d.conflate = b.conflate
       /\ d.granted = b.granted /\ d.since = b.since
  BY <1>10 DEF SubState
<1>12. d \in SubState
  BY <1>4, <1>9, <1>10 DEF SubState
<1> HIDE DEF d
<1>13. d.out = (IF b.conflate THEN b.out + n ELSE b.out)
       /\ \A k \in Key : d.pending[k] = IF k \in Moved(b, n) THEN 0 ELSE b.pending[k]
  BY <1>8, <1>11
<1>14. Lighter(b, n, y, d)
  BY <1>1, <1>3, <1>4, <1>5, <1>6, <1>7, <1>11, <1>12, <1>13 DEF Lighter
<1> QED BY <1>14 DEF d

\* Writing leaves a subscriber sound, with what the socket took.
LEMMA EmptiedKeeps ==
    ASSUME NEW b \in SubState, NEW n \in 0 .. Len(b.queue), NEW w \in Seq(Piece),
           NEW x \in Seq(Piece), NEW y \in Seq(Piece), x \o y = b.wbuf \o Encoded(b, n),
           NEW c \in ReaderState, NEW l \in [Key -> Nat], Sound(b, w, c, l)
    PROVE  /\ Sound(Emptied(b, n, y), w \o x, c, l)
           /\ Newest(b, Tape(b, w), c, l) =>
                Newest(Emptied(b, n, y), Tape(Emptied(b, n, y), w \o x), c, l)
<1>1. PICK d, e, u, z : /\ d = Emptied(b, n, y) /\ e = Encoded(b, n)
                        /\ u = Tape(b, w) /\ z = Tape(d, w \o x)
  OBVIOUS
<1>2. Lighter(b, n, y, d)
  BY <1>1, EmptiedFields
<1>3. /\ d \in SubState /\ d.queue \in Seq(Waiting) /\ Len(b.queue) \in Nat
      /\ DOMAIN b.queue = 1 .. Len(b.queue) /\ DOMAIN d.queue = 1 .. Len(b.queue) - n
      /\ \A i \in DOMAIN d.queue : n + i \in DOMAIN b.queue /\ d.queue[i] = b.queue[n + i]
      /\ \A k \in Key : d.pending[k] = IF k \in Moved(b, n) THEN 0 ELSE b.pending[k]
      /\ d.wbuf = y /\ d.out = (IF b.conflate THEN b.out + n ELSE b.out)
      /\ d.lost = b.lost /\ d.dropped = b.dropped
      /\ d.symbols = b.symbols /\ d.conflate = b.conflate
      /\ d.granted = b.granted /\ d.since = b.since
  BY <1>2 DEF Lighter
<1>4. /\ e \in Seq(Waiting) /\ e \in Seq(Piece) /\ Len(e) = n /\ DOMAIN e = 1 .. n
      /\ \A i \in 1 .. n :
           /\ i \in DOMAIN b.queue /\ b.queue[i] \in Waiting /\ b.queue[i].key \in Key \cup {None}
           /\ e[i].key = b.queue[i].key
           /\ ~b.conflate => e[i] = b.queue[i]
           /\ b.conflate => e[i].num = b.out + i - 1
           /\ b.conflate /\ b.queue[i].key # None => e[i].ver = b.pending[b.queue[i].key]
  BY <1>1, EncodedParts
<1>5. /\ b.wbuf \in Seq(Piece) /\ b.queue \in Seq(Waiting) /\ b.queue \in Seq(Piece) /\ b.out \in Nat
      /\ b.conflate \in BOOLEAN /\ w \o x \in Seq(Piece) /\ x \o y = b.wbuf \o e /\ n \in Nat
  BY <1>1, <1>3, SubParts, ConcatProperties
<1>6. PICK p : p = w \o b.wbuf /\ p \in Seq(Piece)
  BY <1>5, ConcatProperties
<1>7. (w \o x) \o y = p \o e
  <2>1. (w \o x) \o y = w \o (x \o y)
    BY PieceAssoc, Zenon
  <2>2. (w \o b.wbuf) \o e = w \o (b.wbuf \o e)
    <3>1. b.wbuf \in Seq(Piece) /\ e \in Seq(Piece)
      BY <1>4, <1>5
    <3> QED BY <3>1, PieceAssoc, Zenon
  <2> QED BY <1>5, <1>6, <2>1, <2>2
<1>8. u \in Seq(Piece) /\ (b.conflate => u = p /\ z = p \o e) /\ (~b.conflate => u = p \o b.queue /\ z = (p \o e) \o d.queue)
  <2>1. u \in Seq(Piece) /\ (b.conflate => u = p) /\ (~b.conflate => u = p \o b.queue)
    BY <1>1, <1>6, TapeParts
  <2>2. (d.conflate => z = (w \o x) \o d.wbuf) /\ (~d.conflate => z = ((w \o x) \o d.wbuf) \o d.queue)
    BY <1>1, <1>3, <1>5, TapeParts
  <2> QED BY <1>3, <1>7, <2>1, <2>2
<1>9. ~b.conflate => z = u
  <2> SUFFICES ASSUME ~b.conflate PROVE z = u
    OBVIOUS
  <2>1. PICK q : q = SubSeq(b.queue, 1, n) /\ q \in Seq(Waiting) /\ Cut(b.queue, n, q, d.queue)
    BY <1>2 DEF Lighter
  <2>2. q = e
    <3>1. Len(q) = n /\ \A i \in 1 .. n : q[i] = e[i]
      BY <1>4, <2>1 DEF Cut
    <3> QED BY <1>4, <2>1, <3>1, SeqEqual
  <2>3. b.queue = e \o d.queue
    BY <2>1, <2>2 DEF Cut
  <2>4. d.queue \in Seq(Piece)
    BY <1>3, CountQueue
  <2>5. (p \o e) \o d.queue = p \o (e \o d.queue)
    <3>1. p \in Seq(Piece) /\ e \in Seq(Piece)
      BY <1>4, <1>6
    <3> QED BY <2>4, <3>1, PieceAssoc, Zenon
  <2> QED BY <1>8, <2>3, <2>5
<1>10. /\ Rising(u, c, b.out) /\ Balanced(u, c, b.out, b.lost) /\ Forward(u, c, l)
       /\ Merged(b, u, c, l) /\ Entitled(b, w, c)
  BY <1>1 DEF Sound
<1>11. \A i \in 1 .. n : b.queue[i].key \in Moved(b, n)
  BY DEF Moved
<1>12. \A k \in Moved(b, n) : \E i \in 1 .. n : b.queue[i].key = k
  BY DEF Moved
<1>13. ASSUME b.conflate, NEW i \in 1 .. n, b.queue[i].key # None
       PROVE  LET k == b.queue[i].key IN
              /\ k \in Key /\ b.pending[k] # 0 /\ e[i].key = k /\ e[i].ver = b.pending[k]
              /\ \A j \in DOMAIN b.queue : b.queue[j].key = k => j = i
  <2>1. PICK k : k = b.queue[i].key
    OBVIOUS
  <2>2. k \in Key /\ e[i].key = k /\ e[i].ver = b.pending[k] /\ i \in DOMAIN b.queue
    BY <1>4, <1>13, <2>1
  <2>3. b.pending[k] # 0
    BY <1>10, <1>13, <2>1, <2>2 DEF Merged
  <2>4. PICK m \in DOMAIN b.queue : \A j \in DOMAIN b.queue : b.queue[j].key = k <=> j = m
    BY <1>10, <2>2, <2>3 DEF Merged
  <2> QED BY <2>1, <2>2, <2>3, <2>4
<1>14. ASSUME b.conflate PROVE Continues(e, p, c, b.out, l)
  <2>1. \A i \in DOMAIN e : e[i].num = b.out + i - 1
    BY <1>4, <1>14
  <2>2. ASSUME NEW i \in DOMAIN e, e[i].key # None
        PROVE  /\ c.view[e[i].key] <= e[i].ver /\ e[i].ver <= l[e[i].key]
               /\ \A j \in DOMAIN p : Brings(p[j], e[i].key) <= e[i].ver
               /\ \A j \in DOMAIN e : j # i => e[j].key # e[i].key
    <3>1. PICK k : k = e[i].key
      OBVIOUS
    <3>2. i \in 1 .. n /\ b.queue[i].key = k /\ k # None
      BY <1>4, <2>2, <3>1
    <3>3. /\ k \in Key /\ b.pending[k] # 0 /\ e[i].ver = b.pending[k]
          /\ \A j \in DOMAIN b.queue : b.queue[j].key = k => j = i
      BY <1>13, <1>14, <3>2
    <3>4. /\ b.pending[k] <= l[k] /\ c.view[k] <= b.pending[k]
          /\ \A j \in DOMAIN p : Brings(p[j], k) <= b.pending[k]
      BY <1>8, <1>10, <1>14, <3>3 DEF Merged
    <3>5. ASSUME NEW j \in DOMAIN e, j # i PROVE e[j].key # k
      <4>1. j \in DOMAIN b.queue /\ e[j].key = b.queue[j].key
        BY <1>4
      <4> QED BY <3>3, <3>5, <4>1
    <3> QED BY <3>1, <3>3, <3>4, <3>5
  <2> QED BY <2>1, <2>2 DEF Continues
<1>15. Rising(z, c, d.out)
  <2>1. CASE ~b.conflate
    BY <1>3, <1>9, <1>10, <2>1
  <2>2. CASE b.conflate
    <3>1. Rising(p \o e, c, b.out + Len(e))
      BY <1>4, <1>5, <1>6, <1>8, <1>10, <1>14, <2>2, NextRises
    <3> QED BY <1>3, <1>4, <1>8, <2>2, <3>1
  <2> QED BY <2>1, <2>2
<1>16. Forward(z, c, l)
  <2>1. CASE ~b.conflate
    BY <1>9, <1>10, <2>1
  <2>2. CASE b.conflate
    BY <1>4, <1>5, <1>6, <1>8, <1>10, <1>14, <2>2, NextForward
  <2> QED BY <2>1, <2>2
<1>17. Balanced(z, c, d.out, d.lost)
  <2>1. CASE ~b.conflate
    BY <1>3, <1>9, <1>10, <2>1
  <2>2. CASE b.conflate
    <3>0. p \in Seq(Piece)
      BY <1>6
    <3>1. PICK a : a = Cardinality(WithNumber(p)) /\ a \in Int
      BY <3>0, CountFinite
    <3>2. Cardinality(WithNumber(p \o e)) = Cardinality(WithNumber(p)) + Cardinality(WithNumber(e))
      BY <1>4, <1>6, CountConcat
    <3>3. Cardinality(WithNumber(e)) = n
      BY <1>4, CountQueue
    <3>4. Cardinality(WithNumber(z)) = a + n
      BY <1>8, <2>2, <3>1, <3>2, <3>3
    <3>5. b.out = c.next - c.gaps + a + b.lost
      BY <1>8, <1>10, <2>2, <3>1 DEF Balanced
    <3>6. c.next \in Int /\ c.gaps \in Int /\ b.lost \in Int /\ b.out \in Int
      BY SubParts DEF ReaderState
    <3>7. d.out = b.out + n /\ d.lost = b.lost
      BY <1>3, <2>2
    <3>8. d.out = c.next - c.gaps + (a + n) + d.lost
      <4>1. n \in Int /\ a \in Int
        BY <1>5, <3>1
      <4> QED BY <3>5, <3>6, <3>7, <4>1
    <3> QED BY <3>4, <3>8 DEF Balanced
  <2> QED BY <2>1, <2>2
<1>18. Merged(d, z, c, l)
  <2> SUFFICES ASSUME NEW k \in Key
               PROVE  /\ d.pending[k] <= l[k]
                      /\ ~d.conflate => d.pending[k] = 0
                      /\ d.conflate /\ d.pending[k] = 0 => \A i \in DOMAIN d.queue : d.queue[i].key # k
                      /\ d.pending[k] # 0 =>
                           /\ \E i \in DOMAIN d.queue : \A j \in DOMAIN d.queue : d.queue[j].key = k <=> j = i
                           /\ c.view[k] <= d.pending[k]
                           /\ \A i \in DOMAIN z : Brings(z[i], k) <= d.pending[k]
    BY DEF Merged
  <2>1. /\ b.pending[k] <= l[k] /\ l[k] \in Nat
        /\ ~b.conflate => b.pending[k] = 0
        /\ b.conflate /\ b.pending[k] = 0 => \A i \in DOMAIN b.queue : b.queue[i].key # k
        /\ b.pending[k] # 0 =>
             /\ \E i \in DOMAIN b.queue : \A j \in DOMAIN b.queue : b.queue[j].key = k <=> j = i
             /\ c.view[k] <= b.pending[k]
             /\ \A i \in DOMAIN u : Brings(u[i], k) <= b.pending[k]
    BY <1>10 DEF Merged
  <2>2. CASE ~b.conflate
    <3>1. d.pending[k] = 0
      BY <1>3, <2>1, <2>2
    <3> QED BY <1>3, <2>1, <2>2, <3>1
  <2>3. CASE b.conflate /\ k \in Moved(b, n)
    <3>1. d.pending[k] = 0
      BY <1>3, <2>3
    <3>2. PICK i \in 1 .. n : b.queue[i].key = k
      BY <1>12, <2>3
    <3>3. k # None
      BY CppAssumption
    <3>4. \A j \in DOMAIN b.queue : b.queue[j].key = k => j = i
      BY <1>13, <2>3, <3>2, <3>3
    <3>5. ASSUME NEW j \in DOMAIN d.queue PROVE d.queue[j].key # k
      <4>1. n + j \in DOMAIN b.queue /\ d.queue[j] = b.queue[n + j]
        BY <1>3
      <4>2. n + j # i
        BY <1>3, <1>5, <3>2
      <4> QED BY <3>4, <4>1, <4>2
    <3> QED BY <1>3, <2>1, <2>3, <3>1, <3>5
  <2>4. CASE b.conflate /\ k \notin Moved(b, n)
    <3>1. d.pending[k] = b.pending[k]
      BY <1>3, <2>4
    <3>2. b.pending[k] = 0 => \A i \in DOMAIN d.queue : d.queue[i].key # k
      BY <1>3, <2>1, <2>4
    <3>3. ASSUME b.pending[k] # 0
          PROVE  \E i \in DOMAIN d.queue : \A j \in DOMAIN d.queue : d.queue[j].key = k <=> j = i
      <4>1. PICK i \in DOMAIN b.queue : \A j \in DOMAIN b.queue : b.queue[j].key = k <=> j = i
        BY <2>1, <3>3
      <4>2. b.queue[i].key = k /\ i \notin 1 .. n
        BY <1>11, <2>4, <4>1
      <4>3. i \in Int /\ i - n \in DOMAIN d.queue
        <5>1. PICK m \in Nat : m = Len(b.queue)
          BY <1>3
        <5>2. i \in 1 .. m /\ DOMAIN d.queue = 1 .. m - n /\ n \in Nat
          BY <1>3, <1>5, <5>1
        <5>3. i - n \in 1 .. m - n
          BY <4>2, <5>1, <5>2
        <5> QED BY <5>2, <5>3
      <4>4. \A j \in DOMAIN d.queue : d.queue[j].key = k <=> j = i - n
        <5> TAKE j \in DOMAIN d.queue
        <5>1. n + j \in DOMAIN b.queue /\ d.queue[j] = b.queue[n + j] /\ j \in Int
          <6>1. n + j \in DOMAIN b.queue /\ d.queue[j] = b.queue[n + j]
            BY <1>3
          <6>2. j \in 1 .. Len(b.queue) - n
            BY <1>3
          <6> QED BY <6>1, <6>2
        <5>2. d.queue[j].key = k <=> n + j = i
          BY <4>1, <5>1
        <5> QED BY <1>5, <4>3, <5>1, <5>2
      <4> QED BY <4>3, <4>4
    <3>4. ASSUME b.pending[k] # 0, NEW i \in DOMAIN z PROVE Brings(z[i], k) <= b.pending[k]
      <4>1. z = p \o e /\ u = p
        BY <1>8, <2>4
      <4>2. PICK a : a = Len(p)
        OBVIOUS
      <4>3. \/ i \in DOMAIN p /\ z[i] = p[i]
            \/ i - a \in DOMAIN e /\ z[i] = e[i - a]
        <5>1. /\ a \in Nat /\ n \in Nat /\ DOMAIN p = 1 .. a /\ DOMAIN z = 1 .. a + n
              /\ \A j \in 1 .. a + n : z[j] = IF j <= a THEN p[j] ELSE e[j - a]
          <6>1. p \in Seq(Piece) /\ e \in Seq(Piece) /\ n = Len(e)
            BY <1>4, <1>6
          <6> QED BY <4>1, <4>2, <6>1, ConcatPlaces
        <5> QED BY <1>4, <5>1
      <4>4. CASE i \in DOMAIN p /\ z[i] = p[i]
        BY <2>1, <3>4, <4>1, <4>4
      <4>5. CASE i - a \in DOMAIN e /\ z[i] = e[i - a]
        <5>1. z[i].key # k
          <6>1. PICK j : j = i - a /\ j \in 1 .. n
            BY <1>4, <4>5
          <6>2. e[j].key = b.queue[j].key /\ b.queue[j].key \in Moved(b, n)
            BY <1>4, <1>11, <6>1
          <6> QED BY <2>4, <4>5, <6>1, <6>2
        <5>2. z[i].num # None
          <6>1. e[i - a] \in Waiting
            BY <1>4, <4>5, ElementOfSeq
          <6> QED BY <4>5, <6>1, WaitingParts
        <5>3. Brings(z[i], k) = 0
          BY <5>1, <5>2 DEF Brings
        <5>4. b.pending[k] \in Nat
          BY SubParts
        <5> QED BY <5>3, <5>4
      <4> QED BY <4>3, <4>4, <4>5
    <3> QED BY <1>3, <2>1, <2>4, <3>1, <3>2, <3>3, <3>4
  <2> QED BY <2>2, <2>3, <2>4
<1>19. Entitled(d, w \o x, c)
  <2>1. ASSUME NEW k \in Key \ b.granted
        PROVE  /\ c.view[k] = 0 /\ d.pending[k] = 0
               /\ Without(w \o x, k) /\ Without(y, k) /\ Without(d.queue, k)
    <3>1. c.view[k] = 0 /\ b.pending[k] = 0 /\ Without(w, k) /\ Without(b.wbuf, k) /\ Without(b.queue, k)
      BY <1>10 DEF Entitled
    <3>2. d.pending[k] = 0
      BY <1>3, <3>1
    <3>3. Without(d.queue, k)
      <4>1. ASSUME NEW i \in DOMAIN d.queue PROVE d.queue[i].key # k /\ Brings(d.queue[i], k) = 0
        <5>1. n + i \in DOMAIN b.queue /\ d.queue[i] = b.queue[n + i]
          BY <1>3
        <5> QED BY <3>1, <5>1 DEF Without
      <4> QED BY <4>1 DEF Without
    <3>4. Without(e, k)
      <4>1. ASSUME NEW i \in DOMAIN e PROVE e[i].key # k /\ Brings(e[i], k) = 0
        <5>1. e[i].key # k
          BY <1>4, <3>1 DEF Without
        <5>2. e[i].num # None
          BY <1>4, ElementOfSeq, WaitingParts
        <5> QED BY <5>1, <5>2 DEF Brings
      <4> QED BY <4>1 DEF Without
    <3>5. Without(b.wbuf \o e, k)
      BY <1>4, <1>5, <3>1, <3>4, WithoutConcat
    <3>6. Without(x \o y, k)
      BY <1>5, <3>5
    <3>7. Without(x, k) /\ Without(y, k)
      BY <3>6, WithoutConcat
    <3>8. Without(w \o x, k)
      BY <3>1, <3>7, WithoutConcat
    <3> QED BY <3>1, <3>2, <3>3, <3>7, <3>8
  <2> QED BY <1>3, <1>10, <2>1 DEF Entitled
<1>20. Sound(d, w \o x, c, l)
  BY <1>1, <1>15, <1>16, <1>17, <1>18, <1>19 DEF Sound
<1>21. ASSUME Newest(b, u, c, l) PROVE Newest(d, z, c, l)
  <2> SUFFICES ASSUME NEW k \in b.symbols, b.dropped = 0, l[k] > b.since[k]
               PROVE  c.view[k] = l[k] \/ d.pending[k] = l[k] \/ Carries(z, k, l[k])
    BY <1>3 DEF Newest
  <2>1. c.view[k] = l[k] \/ b.pending[k] = l[k] \/ Carries(u, k, l[k])
    BY <1>21 DEF Newest
  <2>2. k \in Key /\ l[k] \in Nat /\ l[k] # 0
    <3>1. k \in Key /\ b.since[k] \in Nat /\ l[k] \in Nat
      BY SubParts
    <3> QED BY <3>1
  <2>3. CASE ~b.conflate
    <3>1. b.pending[k] = 0 /\ d.pending[k] = 0
      BY <1>3, <1>10, <2>2, <2>3 DEF Merged
    <3> QED BY <1>9, <2>1, <2>2, <2>3, <3>1
  <2>4. CASE b.conflate
    <3>0. z = p \o e /\ u = p
      BY <1>8, <2>4
    <3>1. Carries(p \o e, k, l[k]) <=> Carries(p, k, l[k]) \/ Carries(e, k, l[k])
      BY <1>4, <1>6, BringsMore
    <3>2. CASE b.pending[k] = l[k] /\ k \in Moved(b, n)
      <4>1. PICK i \in 1 .. n : b.queue[i].key = k
        BY <1>12, <3>2
      <4>2. k # None
        BY <2>2, CppAssumption
      <4>3. e[i].key = k /\ e[i].ver = l[k]
        BY <1>13, <2>4, <3>2, <4>1, <4>2
      <4>4. e[i].num # None
        BY <1>4, ElementOfSeq, WaitingParts
      <4>5. Carries(e, k, l[k])
        BY <1>4, <4>3, <4>4 DEF Carries, Brings
      <4> QED BY <3>0, <3>1, <4>5
    <3>3. CASE ~(b.pending[k] = l[k] /\ k \in Moved(b, n))
      BY <1>3, <2>1, <2>2, <3>0, <3>1, <3>3
    <3> QED BY <3>2, <3>3
  <2> QED BY <2>3, <2>4
<1> QED BY <1>1, <1>20, <1>21

\* Write interest is not part of what is promised.
LEMMA ArmFields ==
    ASSUME NEW b \in SubState
    PROVE  LET d == Arm(b)
           IN  /\ d \in SubState
               /\ d.queue = b.queue /\ d.pending = b.pending /\ d.out = b.out /\ d.lost = b.lost
               /\ d.dropped = b.dropped /\ d.wbuf = b.wbuf
               /\ d.state = b.state /\ d.symbols = b.symbols /\ d.conflate = b.conflate
               /\ d.granted = b.granted /\ d.since = b.since
<1>1. Backlog(b) \in BOOLEAN
  BY DEF Backlog
<1>2. PICK a \in BOOLEAN : a = Backlog(b)
  BY <1>1
<1>3. Arm(b) = [b EXCEPT !.armed = a]
  BY <1>2 DEF Arm
<1> QED BY <1>3 DEF SubState

\* So it leaves a subscriber sound.
LEMMA ArmKeeps ==
    ASSUME NEW b \in SubState, NEW w, NEW c, NEW l
    PROVE  /\ Sound(b, w, c, l) => Sound(Arm(b), w, c, l)
           /\ Newest(b, Tape(b, w), c, l) => Newest(Arm(b), Tape(Arm(b), w), c, l)
<1>1. PICK d : d = Arm(b)
  OBVIOUS
<1>2. /\ d.queue = b.queue /\ d.pending = b.pending /\ d.out = b.out /\ d.lost = b.lost
      /\ d.dropped = b.dropped /\ d.wbuf = b.wbuf
      /\ d.symbols = b.symbols /\ d.conflate = b.conflate
      /\ d.granted = b.granted /\ d.since = b.since
  BY <1>1, ArmFields
<1>3. PICK u : u = Tape(b, w)
  OBVIOUS
<1>4. Tape(d, w) = u
  BY <1>2, <1>3 DEF Tape
<1>5. ASSUME Sound(b, w, c, l) PROVE Sound(d, w, c, l)
  <2>1. Rising(u, c, b.out) /\ Balanced(u, c, b.out, b.lost) /\ Forward(u, c, l) /\ Merged(b, u, c, l) /\ Entitled(b, w, c)
    BY <1>3, <1>5 DEF Sound
  <2>2. Merged(d, u, c, l)
    BY <1>2, <2>1 DEF Merged
  <2>3. Entitled(d, w, c)
    BY <1>2, <2>1 DEF Entitled
  <2> QED BY <1>2, <1>4, <2>1, <2>2, <2>3 DEF Sound
<1>6. ASSUME Newest(b, u, c, l) PROVE Newest(d, u, c, l)
  BY <1>2, <1>6 DEF Newest
<1> QED BY <1>1, <1>3, <1>4, <1>5, <1>6

\* The values that wait are no newer than the newest frame.
LEMMA PendingBound ==
    ASSUME NEW b \in SubState, NEW w, NEW c, NEW l \in [Key -> Nat], NEW n \in Nat,
           \A k \in Key : l[k] <= n, Sound(b, w, c, l)
    PROVE  \A k \in Key : b.pending[k] <= n
<1> SUFFICES ASSUME NEW k \in Key PROVE b.pending[k] <= n
  OBVIOUS
<1>1. b.pending[k] \in Nat /\ l[k] \in Nat /\ l[k] <= n
  BY SubParts
<1>2. b.pending[k] <= l[k]
  BY DEF Sound, Merged
<1> QED BY <1>1, <1>2

\* What is known of a subscriber that is written to.
Writes(b, w, c, l, n, closing) ==
    /\ b \in SubState /\ b.state = "on" /\ Len(b.queue) <= client_queue
    /\ w \in Seq(Piece) /\ Len(w) <= SockBuf /\ c \in ReaderState
    /\ Doomed(b) => closing
    /\ Sound(b, w, c, l) /\ (~closing => Newest(b, Tape(b, w), c, l))

\* It is healthy.
LEMMA WritesHealthy ==
    ASSUME NEW b, NEW w, NEW c, NEW l \in [Key -> Nat], NEW n \in Nat, \A k \in Key : l[k] <= n,
           NEW closing, Writes(b, w, c, l, n, closing)
    PROVE  Healthy(b, w, c, l, n, closing)
<1>1. \A k \in Key : b.pending[k] <= n
  BY PendingBound DEF Writes
<1> QED BY <1>1 DEF Writes, Healthy

\* It still is when its write interest was set.
LEMMA ArmWrites ==
    ASSUME NEW b, NEW w, NEW c, NEW l, NEW n, NEW closing, Writes(b, w, c, l, n, closing)
    PROVE  Writes(Arm(b), w, c, l, n, closing)
<1>1. b \in SubState
  BY DEF Writes
<1>2. PICK d : d = Arm(b)
  OBVIOUS
<1>3. d \in SubState /\ d.queue = b.queue /\ d.dropped = b.dropped /\ d.state = b.state
  BY <1>1, <1>2, ArmFields
<1>4. (Sound(b, w, c, l) => Sound(d, w, c, l))
      /\ (Newest(b, Tape(b, w), c, l) => Newest(d, Tape(d, w), c, l))
  BY <1>1, <1>2, ArmKeeps
<1>5. Doomed(d) <=> Doomed(b)
  BY <1>3 DEF Doomed
<1> QED BY <1>2, <1>3, <1>4, <1>5 DEF Writes

\* And when it was written to.
LEMMA FlushWrites ==
    ASSUME NEW b, NEW w, NEW c, NEW l \in [Key -> Nat], NEW n, NEW closing, Writes(b, w, c, l, n, closing),
           NEW r, r = Flush(b, SockBuf - Len(w))
    PROVE  Writes(r.b, w \o r.sent, c, l, n, closing)
<1>1. b \in SubState /\ w \in Seq(Piece) /\ Len(w) <= SockBuf /\ c \in ReaderState /\ Sound(b, w, c, l)
  BY DEF Writes
<1>2. PICK room : room = SockBuf - Len(w) /\ room \in Nat /\ Len(w) \in Nat /\ SockBuf \in Nat
  <2>1. Len(w) \in Nat
    BY <1>1, LenProperties
  <2>2. SockBuf \in Nat
    BY CppAssumption
  <2> QED BY <1>1, <2>1, <2>2
<1>3. PICK m, x, y : Flushes(b, room, m, x, y)
  BY <1>1, <1>2, FlushIs
<1>4. /\ m \in 0 .. Len(b.queue) /\ x \in Seq(Piece) /\ y \in Seq(Piece) /\ Len(x) <= room
      /\ x \o y = b.wbuf \o Encoded(b, m)
      /\ r.sent = x /\ r.b = Emptied(b, m, y)
  BY <1>2, <1>3 DEF Flushes
<1>5. PICK d : d = Emptied(b, m, y)
  OBVIOUS
<1>6. Lighter(b, m, y, d)
  BY <1>1, <1>4, <1>5, EmptiedFields
<1>7. d \in SubState /\ d.state = b.state /\ d.dropped = b.dropped /\ Len(d.queue) <= Len(b.queue)
      /\ Len(b.queue) \in Nat /\ Len(d.queue) \in Nat
  <2>1. d \in SubState /\ d.state = b.state /\ d.dropped = b.dropped /\ Len(d.queue) = Len(b.queue) - m
        /\ Len(b.queue) \in Nat
    BY <1>6 DEF Lighter
  <2> QED BY <1>4, <2>1
<1>8. /\ Sound(d, w \o x, c, l)
      /\ Newest(b, Tape(b, w), c, l) => Newest(d, Tape(d, w \o x), c, l)
  BY <1>1, <1>4, <1>5, EmptiedKeeps
<1>9. w \o x \in Seq(Piece) /\ Len(w \o x) <= SockBuf
  <2>1. w \o x \in Seq(Piece) /\ Len(w \o x) = Len(w) + Len(x)
    BY <1>1, <1>4, ConcatProperties
  <2>2. Len(x) \in Nat
    BY <1>4, LenProperties
  <2> QED BY <1>2, <1>4, <2>1, <2>2
<1>10. Len(d.queue) <= client_queue
  <2>1. client_queue \in Nat /\ Len(b.queue) <= client_queue
    BY CppAssumption DEF Writes
  <2> QED BY <1>7, <2>1
<1>11. Doomed(d) <=> Doomed(b)
  BY <1>7 DEF Doomed
<1>12. Writes(d, w \o x, c, l, n, closing)
  BY <1>1, <1>7, <1>8, <1>9, <1>10, <1>11 DEF Writes
<1> QED BY <1>4, <1>5, <1>12

-----------------------------------------------------------------------------
(* Requests.                                                               *)

\* A change of mode throws the queue away.
Switched(b) ==
    [b EXCEPT !.conflate = ~b.conflate, !.queue = <<>>, !.pending = NoValues,
              !.lost = IF b.conflate THEN b.lost ELSE b.lost + Len(b.queue)]

\* These are its fields.
LEMMA SwitchedFields ==
    ASSUME NEW b \in SubState
    PROVE  LET d == Switched(b)
           IN  /\ d \in SubState /\ Len(b.queue) \in Nat
               /\ d.queue = <<>> /\ d.conflate = ~b.conflate /\ (\A k \in Key : d.pending[k] = 0)
               /\ d.lost = (IF b.conflate THEN b.lost ELSE b.lost + Len(b.queue))
               /\ d.out = b.out /\ d.dropped = b.dropped /\ d.wbuf = b.wbuf /\ d.armed = b.armed
               /\ d.state = b.state /\ d.symbols = b.symbols
               /\ d.granted = b.granted /\ d.since = b.since /\ d.pending = NoValues
<1>1. PICK f, p, o : /\ f = ~b.conflate /\ p = NoValues
                     /\ o = IF b.conflate THEN b.lost ELSE b.lost + Len(b.queue)
  OBVIOUS
<1>2. b.queue \in Seq(Waiting) /\ b.lost \in Nat /\ b.conflate \in BOOLEAN /\ Len(b.queue) \in Nat
  BY SubParts, LenProperties
<1>3. f \in BOOLEAN /\ p \in [Key -> Nat] /\ o \in Nat /\ \A k \in Key : p[k] = 0
  BY <1>1, <1>2 DEF NoValues
<1>4. Switched(b) = [b EXCEPT !.conflate = f, !.queue = <<>>, !.pending = p, !.lost = o]
  BY <1>1 DEF Switched
<1>5. <<>> \in Seq(Waiting)
  OBVIOUS
<1> DEFINE d == Switched(b)
<1>6. /\ d.queue = <<>> /\ d.conflate = f /\ d.pending = p /\ d.lost = o
      /\ d.out = b.out /\ d.dropped = b.dropped /\ d.wbuf = b.wbuf /\ d.armed = b.armed
      /\ d.state = b.state /\ d.symbols = b.symbols
      /\ d.granted = b.granted /\ d.since = b.since
  BY <1>4 DEF SubState
<1>7. d \in SubState
  BY <1>3, <1>4, <1>5 DEF SubState
<1> HIDE DEF d
<1>8. \A k \in Key : d.pending[k] = 0
  BY <1>3, <1>6
<1>9. d.lost = (IF b.conflate THEN b.lost ELSE b.lost + Len(b.queue)) /\ d.conflate = ~b.conflate
  BY <1>1, <1>6
<1> QED BY <1>1, <1>2, <1>6, <1>7, <1>8, <1>9 DEF d

\* The frames it throws away are counted.
LEMMA SwitchedKeeps ==
    ASSUME NEW b \in SubState, NEW w \in Seq(Piece), NEW c \in ReaderState,
           NEW l \in [Key -> Nat], Sound(b, w, c, l)
    PROVE  Sound(Switched(b), w, c, l)
<1>1. PICK d : d = Switched(b)
  OBVIOUS
<1>2. /\ d \in SubState /\ Len(b.queue) \in Nat
      /\ d.queue = <<>> /\ d.conflate = ~b.conflate /\ (\A k \in Key : d.pending[k] = 0)
      /\ d.lost = (IF b.conflate THEN b.lost ELSE b.lost + Len(b.queue))
      /\ d.out = b.out /\ d.wbuf = b.wbuf /\ d.symbols = b.symbols /\ d.granted = b.granted
  BY <1>1, SwitchedFields
<1>3. PICK u, p : u = Tape(b, w) /\ p = w \o b.wbuf
  OBVIOUS
<1>4. /\ u \in Seq(Piece) /\ p \in Seq(Piece) /\ b.conflate \in BOOLEAN /\ b.queue \in Seq(Piece)
      /\ b.conflate => u = p
      /\ ~b.conflate => u = p \o b.queue
      /\ Cardinality(WithNumber(u)) = Cardinality(WithNumber(p)) + (IF b.conflate THEN 0 ELSE Len(b.queue))
      /\ Cardinality(WithNumber(p)) \in Nat
  BY <1>3, TapeParts, SubParts
<1>5. Tape(d, w) = p
  <2>1. /\ d.conflate => Tape(d, w) = w \o d.wbuf
        /\ ~d.conflate => Tape(d, w) = (w \o d.wbuf) \o d.queue
    BY <1>2, TapeParts
  <2>2. p \o <<>> = p
    BY <1>4, ConcatEmptySeq
  <2>3. w \o d.wbuf = p
    BY <1>2, <1>3
  <2> QED BY <1>2, <2>1, <2>2, <2>3
<1>6. \E h : Within(p, u, h)
  <2>1. CASE b.conflate
    <3>1. Within(u, u, [i \in DOMAIN u |-> i])
      BY DEF Within
    <3> QED BY <1>4, <2>1, <3>1
  <2>2. CASE ~b.conflate
    BY <1>4, <2>2, StartWithin
  <2> QED BY <2>1, <2>2
<1>7. Rising(u, c, b.out) /\ Balanced(u, c, b.out, b.lost) /\ Forward(u, c, l) /\ Merged(b, u, c, l) /\ Entitled(b, w, c)
  BY <1>3 DEF Sound
<1>8. Rising(p, c, d.out) /\ Forward(p, c, l)
  BY <1>2, <1>4, <1>6, <1>7, LeftRises, LeftForward
<1>9. Balanced(p, c, d.out, d.lost)
  <2>1. c.next \in Int /\ c.gaps \in Int /\ b.out \in Int /\ b.lost \in Int /\ b.conflate \in BOOLEAN
    BY SubParts DEF ReaderState
  <2>2. PICK a : a = Cardinality(WithNumber(p)) /\ a \in Int
    BY <1>4
  <2>3. CASE b.conflate
    <3>1. b.out = c.next - c.gaps + a + b.lost /\ d.out = b.out /\ d.lost = b.lost
      BY <1>2, <1>4, <1>7, <2>2, <2>3 DEF Balanced
    <3> QED BY <2>2, <3>1 DEF Balanced
  <2>4. CASE ~b.conflate
    <3>1. Cardinality(WithNumber(u)) = a + Len(b.queue)
      BY <1>4, <2>2, <2>4
    <3>2. b.out = c.next - c.gaps + (a + Len(b.queue)) + b.lost
      BY <1>7, <3>1 DEF Balanced
    <3>3. d.out = b.out /\ d.lost = b.lost + Len(b.queue) /\ Len(b.queue) \in Int
      BY <1>2, <2>4
    <3>4. d.out = c.next - c.gaps + a + d.lost
      BY <2>1, <2>2, <3>2, <3>3
    <3> QED BY <2>2, <3>4 DEF Balanced
  <2> QED BY <2>3, <2>4
<1>10. Merged(d, p, c, l)
  <2>1. \A k \in Key : l[k] \in Nat /\ d.pending[k] = 0
    BY <1>2
  <2>2. DOMAIN d.queue = {}
    BY <1>2
  <2> QED BY <2>1, <2>2 DEF Merged
<1>11. Entitled(d, w, c)
  <2>1. \A k \in Key : Without(<<>>, k)
    BY DEF Without
  <2> QED BY <1>2, <1>7, <2>1 DEF Entitled
<1> QED BY <1>1, <1>5, <1>7, <1>8, <1>9, <1>10, <1>11 DEF Sound

\* A refusal is told to the subscriber.
Told(b) == [b EXCEPT !.wbuf = Append(b.wbuf, Denial)]

\* It leaves the subscriber sound.
LEMMA ToldKeeps ==
    ASSUME NEW b \in SubState, NEW w \in Seq(Piece), NEW c \in ReaderState,
           NEW l \in [Key -> Nat], Sound(b, w, c, l)
    PROVE  /\ Sound(Told(b), w, c, l) /\ Told(b) \in SubState
           /\ Told(b).queue = b.queue /\ Told(b).dropped = b.dropped /\ Told(b).state = b.state
<1>1. PICK d, e, p, u, z : /\ d = Told(b) /\ e = <<Denial>> /\ p = w \o b.wbuf
                           /\ u = Tape(b, w) /\ z = Tape(d, w)
  OBVIOUS
<1>2. /\ b.wbuf \in Seq(Piece) /\ e \in Seq(Piece) /\ b.queue \in Seq(Piece) /\ b.conflate \in BOOLEAN
      /\ p \in Seq(Piece)
  <2>1. b.wbuf \in Seq(Piece) /\ b.queue \in Seq(Piece) /\ b.conflate \in BOOLEAN
    BY SubParts
  <2>2. e \in Seq(Piece)
    BY <1>1, DenialParts
  <2>3. p \in Seq(Piece)
    BY <1>1, <2>1, ConcatProperties
  <2> QED BY <2>1, <2>2, <2>3
<1>3. PICK y : y = b.wbuf \o e
  OBVIOUS
<1>4. y \in Seq(Piece) /\ Append(b.wbuf, Denial) = y
  BY <1>1, <1>2, <1>3, DenialParts, ConcatProperties, AppendIsConcat
<1>5. d = [b EXCEPT !.wbuf = y]
  BY <1>1, <1>4 DEF Told
<1>6. /\ d \in SubState /\ d.wbuf = y
      /\ d.queue = b.queue /\ d.pending = b.pending /\ d.out = b.out /\ d.lost = b.lost
      /\ d.dropped = b.dropped /\ d.state = b.state /\ d.symbols = b.symbols
      /\ d.conflate = b.conflate /\ d.granted = b.granted
  BY <1>4, <1>5 DEF SubState
<1>7. w \o y = p \o e
  BY <1>1, <1>2, <1>3, PieceAssoc
<1>8. /\ u \in Seq(Piece) /\ z \in Seq(Piece)
      /\ b.conflate => u = p /\ z = p \o e
      /\ ~b.conflate => u = p \o b.queue /\ z = (p \o e) \o b.queue
      /\ Cardinality(WithNumber(u)) = Cardinality(WithNumber(p)) + (IF b.conflate THEN 0 ELSE Len(b.queue))
      /\ Cardinality(WithNumber(z)) = Cardinality(WithNumber(p \o e)) + (IF b.conflate THEN 0 ELSE Len(b.queue))
  <2>1. /\ u \in Seq(Piece)
        /\ b.conflate => u = w \o b.wbuf
        /\ ~b.conflate => u = (w \o b.wbuf) \o b.queue
        /\ Cardinality(WithNumber(u)) = Cardinality(WithNumber(w \o b.wbuf)) + (IF b.conflate THEN 0 ELSE Len(b.queue))
    BY <1>1, TapeParts
  <2>2. /\ z \in Seq(Piece)
        /\ d.conflate => z = w \o d.wbuf
        /\ ~d.conflate => z = (w \o d.wbuf) \o d.queue
        /\ Cardinality(WithNumber(z)) = Cardinality(WithNumber(w \o d.wbuf)) + (IF d.conflate THEN 0 ELSE Len(d.queue))
    BY <1>1, <1>6, TapeParts
  <2>3. w \o b.wbuf = p /\ w \o d.wbuf = p \o e /\ d.conflate = b.conflate /\ d.queue = b.queue
    BY <1>1, <1>6, <1>7
  <2> QED BY <2>1, <2>2, <2>3
<1>9. Cardinality(WithNumber(z)) = Cardinality(WithNumber(u))
  <2>1. Cardinality(WithNumber(p \o e)) = Cardinality(WithNumber(p)) + Cardinality(WithNumber(e))
    BY <1>2, CountConcat
  <2>2. Cardinality(WithNumber(e)) = 0
    BY <1>1, DenialParts, CountOne
  <2>3. Cardinality(WithNumber(p)) \in Nat
    BY <1>2, CountFinite
  <2>4. Cardinality(WithNumber(p \o e)) = Cardinality(WithNumber(p))
    BY <2>1, <2>2, <2>3
  <2> QED BY <1>8, <2>4
<1>10. PICK h : Within(z, u, h)
  <2>1. CASE ~b.conflate
    <3>1. \E h : Within((p \o <<Denial>>) \o b.queue, p \o b.queue, h)
      BY <1>2, DenialWithin
    <3> QED BY <1>1, <1>8, <2>1, <3>1
  <2>2. CASE b.conflate
    <3>1. <<>> \in Seq(Piece)
      OBVIOUS
    <3>2. \E h : Within((p \o <<Denial>>) \o <<>>, p \o <<>>, h)
      BY <1>2, <3>1, DenialWithin
    <3>3. z \o <<>> = z /\ p \o <<>> = p
      BY <1>2, <1>8, ConcatEmptySeq
    <3> QED BY <1>1, <1>8, <2>2, <3>2, <3>3
  <2> QED BY <1>2, <2>1, <2>2
<1>11. Rising(u, c, b.out) /\ Balanced(u, c, b.out, b.lost) /\ Forward(u, c, l) /\ Merged(b, u, c, l) /\ Entitled(b, w, c)
  BY <1>1 DEF Sound
<1>12. Rising(z, c, b.out) /\ Forward(z, c, l) /\ Balanced(z, c, b.out, b.lost)
  <2>1. Rising(z, c, b.out)
    BY <1>8, <1>10, <1>11, LeftRises
  <2>2. Forward(z, c, l)
    BY <1>8, <1>10, <1>11, LeftForward
  <2>3. Balanced(z, c, b.out, b.lost)
    BY <1>9, <1>11 DEF Balanced
  <2> QED BY <2>1, <2>2, <2>3
<1>13. ASSUME NEW k \in Key, NEW i \in DOMAIN z, \A j \in DOMAIN u : Brings(u[j], k) <= b.pending[k]
       PROVE  Brings(z[i], k) <= b.pending[k]
  <2>1. CASE z[i] = Denial
    <3>1. b.pending[k] \in Nat
      BY SubParts
    <3> QED BY <2>1, <3>1, DenialParts
  <2>2. CASE z[i] # Denial
    BY <1>10, <1>13, <2>2 DEF Within
  <2> QED BY <2>1, <2>2
<1>14. Merged(d, z, c, l)
  BY <1>6, <1>11, <1>13 DEF Merged
<1>15. Entitled(d, w, c)
  <2>1. ASSUME NEW k \in Key \ b.granted PROVE Without(y, k)
    <3>1. Without(b.wbuf, k)
      BY <1>11 DEF Entitled
    <3>2. Without(e, k)
      <4>1. DOMAIN e = {1} /\ e[1] = Denial
        BY <1>1
      <4>2. Denial.key # k /\ Brings(Denial, k) = 0
        BY DenialParts, CppAssumption
      <4> QED BY <4>1, <4>2 DEF Without
    <3> QED BY <1>2, <1>3, <3>1, <3>2, WithoutConcat
  <2> QED BY <1>6, <1>11, <2>1 DEF Entitled
<1>16. Sound(d, w, c, l)
  BY <1>1, <1>6, <1>12, <1>14, <1>15 DEF Sound
<1> QED BY <1>1, <1>6, <1>16

\* The filter is set: what is on its way was allowed before, and nothing newer is missing.
Filtered(b, g, l) == [b EXCEPT !.symbols = g, !.granted = b.granted \cup g, !.since = l]

\* It leaves the subscriber sound, and all it may now see is the newest.
LEMMA FilteredKeeps ==
    ASSUME NEW b \in SubState, NEW w \in Seq(Piece), NEW c \in ReaderState, NEW g \in SUBSET Key,
           NEW l \in [Key -> Nat], Sound(b, w, c, l)
    PROVE  /\ Sound(Filtered(b, g, l), w, c, l) /\ Filtered(b, g, l) \in SubState
           /\ Newest(Filtered(b, g, l), Tape(Filtered(b, g, l), w), c, l)
           /\ Filtered(b, g, l).queue = b.queue /\ Filtered(b, g, l).dropped = b.dropped
           /\ Filtered(b, g, l).state = b.state
<1>1. PICK d, q : d = Filtered(b, g, l) /\ q = b.granted \cup g
  OBVIOUS
<1>2. q \in SUBSET Key
  BY <1>1, SubParts
<1>3. d = [b EXCEPT !.symbols = g, !.granted = q, !.since = l]
  BY <1>1 DEF Filtered
<1>4. /\ d.symbols = g /\ d.granted = q /\ d.since = l
      /\ d.queue = b.queue /\ d.pending = b.pending /\ d.out = b.out /\ d.lost = b.lost
      /\ d.dropped = b.dropped /\ d.state = b.state /\ d.wbuf = b.wbuf /\ d.conflate = b.conflate
  BY <1>3 DEF SubState
<1>5. d \in SubState
  BY <1>2, <1>3 DEF SubState
<1>6. PICK u : u = Tape(b, w)
  OBVIOUS
<1>7. Tape(d, w) = u
  BY <1>4, <1>6 DEF Tape
<1>8. Rising(u, c, b.out) /\ Balanced(u, c, b.out, b.lost) /\ Forward(u, c, l) /\ Merged(b, u, c, l) /\ Entitled(b, w, c)
  BY <1>6 DEF Sound
<1>9. Merged(d, u, c, l)
  BY <1>4, <1>8 DEF Merged
<1>10. Entitled(d, w, c)
  <2>1. g \subseteq q /\ Key \ q \subseteq Key \ b.granted
    BY <1>1
  <2> QED BY <1>4, <1>8, <2>1 DEF Entitled
<1>11. Newest(d, u, c, l)
  <2>1. \A k \in g : ~(l[k] > l[k])
    <3>1. \A k \in g : l[k] \in Nat
      OBVIOUS
    <3> QED BY <3>1
  <2> QED BY <1>4, <2>1 DEF Newest
<1>12. Sound(d, w, c, l)
  BY <1>4, <1>7, <1>8, <1>9, <1>10 DEF Sound
<1> QED BY <1>1, <1>4, <1>5, <1>7, <1>11, <1>12

\* What a token may see are keys.
LEMMA GrantKeys ==
    ASSUME NEW t \in Token \cup {None}, NEW want \in SUBSET Key PROVE Grant(t, want) \in SUBSET Key
<1>1. \A x \in Token : AllowedKeys[x] \subseteq Key
  BY CppAssumption
<1>2. t # None => t \in Token
  OBVIOUS
<1> QED BY <1>1, <1>2 DEF Grant

\* A subscriber is its fields.
LEMMA SubEqual ==
    ASSUME NEW s \in SubState, NEW r \in SubState,
           s.state = r.state, s.symbols = r.symbols, s.conflate = r.conflate, s.queue = r.queue,
           s.pending = r.pending, s.wbuf = r.wbuf, s.out = r.out, s.dropped = r.dropped,
           s.armed = r.armed, s.granted = r.granted, s.lost = r.lost, s.since = r.since
    PROVE  s = r
<1>1. s = [state |-> s.state, symbols |-> s.symbols, conflate |-> s.conflate, queue |-> s.queue, pending |-> s.pending, wbuf |-> s.wbuf,
           out |-> s.out, dropped |-> s.dropped, armed |-> s.armed, granted |-> s.granted, lost |-> s.lost, since |-> s.since]
  BY DEF SubState
<1>2. r = [state |-> r.state, symbols |-> r.symbols, conflate |-> r.conflate, queue |-> r.queue, pending |-> r.pending, wbuf |-> r.wbuf,
           out |-> r.out, dropped |-> r.dropped, armed |-> r.armed, granted |-> r.granted, lost |-> r.lost, since |-> r.since]
  BY DEF SubState
<1> QED BY <1>1, <1>2

\* apply_subscribe is the three in turn.
LEMMA AppliedIs ==
    ASSUME NEW b \in SubState, NEW t \in Token \cup {None}, NEW want \in SUBSET Key, NEW conflate \in BOOLEAN,
           last_ \in [Key -> Nat]
    PROVE  LET d == IF conflate # b.conflate THEN Switched(b) ELSE b
               e == IF Denied(t, want) THEN Told(d) ELSE d
           IN  Applied(b, t, want, conflate) = Filtered(e, Grant(t, want), last_)
<1>1. PICK g, q : g = Grant(t, want) /\ q = b.granted \cup g
  OBVIOUS
<1>2. /\ b.conflate \in BOOLEAN /\ b.wbuf \in Seq(Piece) /\ b.queue \in Seq(Waiting) /\ b.lost \in Nat
      /\ b.pending \in [Key -> Nat] /\ Len(b.queue) \in Nat /\ q \in SUBSET Key /\ g \in SUBSET Key
  BY <1>1, SubParts, LenProperties, GrantKeys
<1>3. PICK s, y, u, p, o :
         /\ s = Applied(b, t, want, conflate)
         /\ y = IF Denied(t, want) THEN Append(b.wbuf, Denial) ELSE b.wbuf
         /\ u = IF conflate # b.conflate THEN <<>> ELSE b.queue
         /\ p = IF conflate # b.conflate THEN NoValues ELSE b.pending
         /\ o = IF conflate # b.conflate /\ ~b.conflate THEN b.lost + Len(b.queue) ELSE b.lost
  OBVIOUS
<1>4. s = [b EXCEPT !.symbols = g, !.granted = q, !.since = last_, !.wbuf = y,
                    !.conflate = conflate, !.queue = u, !.pending = p, !.lost = o]
  BY <1>1, <1>3 DEF Applied, SubState
<1>5. y \in Seq(Piece) /\ u \in Seq(Waiting) /\ p \in [Key -> Nat] /\ o \in Nat
  <2>1. Append(b.wbuf, Denial) \in Seq(Piece)
    BY <1>2, DenialParts, AppendProperties
  <2>2. NoValues \in [Key -> Nat] /\ <<>> \in Seq(Waiting)
    BY DEF NoValues
  <2> QED BY <1>2, <1>3, <2>1, <2>2
<1>6. /\ s.symbols = g /\ s.granted = q /\ s.since = last_ /\ s.wbuf = y
      /\ s.conflate = conflate /\ s.queue = u /\ s.pending = p /\ s.lost = o
      /\ s.state = b.state /\ s.out = b.out /\ s.dropped = b.dropped /\ s.armed = b.armed
  BY <1>4 DEF SubState
<1>7. s \in SubState
  BY <1>2, <1>4, <1>5 DEF SubState
<1>8. PICK d : d = IF conflate # b.conflate THEN Switched(b) ELSE b
  OBVIOUS
<1>9. /\ d \in SubState /\ d.conflate = conflate /\ d.queue = u /\ d.pending = p /\ d.lost = o
      /\ d.state = b.state /\ d.symbols = b.symbols /\ d.wbuf = b.wbuf /\ d.out = b.out
      /\ d.dropped = b.dropped /\ d.armed = b.armed /\ d.granted = b.granted /\ d.since = b.since
  <2>1. CASE conflate # b.conflate
    <3>1. /\ d \in SubState
          /\ d.queue = <<>> /\ d.conflate = ~b.conflate /\ d.pending = NoValues
          /\ d.lost = (IF b.conflate THEN b.lost ELSE b.lost + Len(b.queue))
          /\ d.out = b.out /\ d.dropped = b.dropped /\ d.wbuf = b.wbuf /\ d.armed = b.armed
          /\ d.state = b.state /\ d.symbols = b.symbols
          /\ d.granted = b.granted /\ d.since = b.since
      <4>1. d = Switched(b)
        BY <1>8, <2>1
      <4> QED BY <4>1, SwitchedFields
    <3>2. (~b.conflate) = conflate
      BY <1>2, <2>1
    <3>3. o = IF b.conflate THEN b.lost ELSE b.lost + Len(b.queue)
      BY <1>3, <2>1
    <3> QED BY <1>3, <2>1, <3>1, <3>2, <3>3
  <2>2. CASE conflate = b.conflate
    BY <1>3, <1>8, <2>2
  <2> QED BY <2>1, <2>2
<1>10. PICK e : e = IF Denied(t, want) THEN Told(d) ELSE d
  OBVIOUS
<1>11. e = [d EXCEPT !.wbuf = y]
  <2>1. CASE Denied(t, want)
    BY <1>3, <1>9, <1>10, <2>1 DEF Told
  <2>2. CASE ~Denied(t, want)
    <3>1. y = d.wbuf /\ e = d
      BY <1>3, <1>9, <1>10, <2>2
    <3> QED BY <1>9, <3>1 DEF SubState
  <2> QED BY <2>1, <2>2
<1>12. /\ e.conflate = conflate /\ e.queue = u /\ e.pending = p /\ e.lost = o /\ e.wbuf = y
       /\ e.state = d.state /\ e.symbols = d.symbols /\ e.out = d.out
       /\ e.dropped = d.dropped /\ e.armed = d.armed /\ e.granted = d.granted /\ e.since = d.since
  BY <1>9, <1>11 DEF SubState
<1>13. e \in SubState
  BY <1>5, <1>9, <1>11 DEF SubState
<1>14. PICK r : r = Filtered(e, g, last_)
  OBVIOUS
<1>15. r = [e EXCEPT !.symbols = g, !.granted = q, !.since = last_]
  BY <1>1, <1>9, <1>12, <1>14 DEF Filtered
<1>16. /\ r.conflate = conflate /\ r.queue = u /\ r.pending = p /\ r.lost = o /\ r.wbuf = y
       /\ r.symbols = g /\ r.granted = q /\ r.since = last_
       /\ r.state = e.state /\ r.out = e.out /\ r.dropped = e.dropped /\ r.armed = e.armed
  BY <1>12, <1>13, <1>15 DEF SubState
<1>17. r \in SubState
  BY <1>2, <1>13, <1>15 DEF SubState
<1>18. s = r
  BY <1>6, <1>7, <1>9, <1>12, <1>16, <1>17, SubEqual
<1> QED BY <1>1, <1>3, <1>8, <1>10, <1>14, <1>18

\* A request leaves the subscriber healthy.
LEMMA AppliedWrites ==
    ASSUME NEW b, NEW w, NEW c, last_ \in [Key -> Nat], NEW n, NEW closing,
           Writes(b, w, c, last_, n, closing),
           NEW t \in Token \cup {None}, NEW want \in SUBSET Key, NEW conflate \in BOOLEAN
    PROVE  Writes(Applied(b, t, want, conflate), w, c, last_, n, closing)
<1>1. /\ b \in SubState /\ b.state = "on" /\ Len(b.queue) <= client_queue
      /\ w \in Seq(Piece) /\ Len(w) <= SockBuf /\ c \in ReaderState
      /\ (Doomed(b) => closing)
      /\ Sound(b, w, c, last_)
  BY DEF Writes
<1>2. PICK g, l : g = Grant(t, want) /\ l = last_ /\ g \in SUBSET Key /\ l \in [Key -> Nat]
  BY GrantKeys
<1>3. PICK d : d = IF conflate # b.conflate THEN Switched(b) ELSE b
  OBVIOUS
<1>4. PICK e : e = IF Denied(t, want) THEN Told(d) ELSE d
  OBVIOUS
<1>5. PICK f : f = Filtered(e, g, l)
  OBVIOUS
<1>6. Applied(b, t, want, conflate) = f
  BY <1>1, <1>2, <1>3, <1>4, <1>5, AppliedIs
<1>7. client_queue \in Nat /\ Len(<<>>) = 0
  BY CppAssumption
<1>8. d \in SubState /\ d.state = "on" /\ Len(d.queue) <= client_queue /\ d.dropped = b.dropped /\ Sound(d, w, c, l)
  <2>1. CASE conflate # b.conflate
    <3>1. d = Switched(b)
      BY <1>3, <2>1
    <3>2. d \in SubState /\ d.state = b.state /\ d.queue = <<>> /\ d.dropped = b.dropped
      BY <1>1, <3>1, SwitchedFields
    <3>3. Sound(d, w, c, l)
      BY <1>1, <1>2, <3>1, SwitchedKeeps
    <3> QED BY <1>1, <1>7, <3>2, <3>3
  <2>2. CASE ~(conflate # b.conflate)
    BY <1>1, <1>2, <1>3, <2>2
  <2> QED BY <2>1, <2>2
<1>9. e \in SubState /\ e.state = "on" /\ Len(e.queue) <= client_queue /\ e.dropped = b.dropped /\ Sound(e, w, c, l)
  BY <1>1, <1>2, <1>4, <1>8, ToldKeeps
<1>10. f \in SubState /\ f.state = "on" /\ Len(f.queue) <= client_queue /\ f.dropped = b.dropped
       /\ Sound(f, w, c, l) /\ Newest(f, Tape(f, w), c, l)
  <2>1. /\ Sound(f, w, c, l) /\ f \in SubState /\ Newest(f, Tape(f, w), c, l)
        /\ f.queue = e.queue /\ f.dropped = e.dropped /\ f.state = e.state
    BY <1>1, <1>2, <1>5, <1>9, FilteredKeeps
  <2> QED BY <1>9, <2>1
<1>11. Doomed(f) <=> Doomed(b)
  BY <1>10 DEF Doomed
<1>12. Writes(f, w, c, l, n, closing)
  BY <1>1, <1>10, <1>11 DEF Writes
<1> QED BY <1>2, <1>6, <1>12

-----------------------------------------------------------------------------
(* Reading.                                                                *)

\* The greater of two numbers.
LEMMA GreaterOf ==
    ASSUME NEW i \in Nat, NEW j \in Nat
    PROVE  Max({i, j}) \in Nat /\ Max({i, j}) >= i /\ Max({i, j}) >= j /\ (Max({i, j}) = i \/ Max({i, j}) = j)
<1>1. PICK T : T = {i, j}
  OBVIOUS
<1>2. \E x \in T : \A y \in T : x >= y
  BY <1>1
<1>3. Max(T) \in T /\ \A y \in T : Max(T) >= y
  BY <1>2 DEF Max
<1> QED BY <1>1, <1>3

\* What reader c has become in d by reading f.
Shows(c, f, d) ==
    /\ d \in ReaderState
    /\ f.num = None => /\ d.next = c.next /\ d.gaps = c.gaps
                       /\ \A k \in Key : /\ d.view[k] >= c.view[k] /\ d.view[k] >= Brings(f, k)
                                         /\ d.view[k] = c.view[k] \/ d.view[k] = Brings(f, k)
    /\ f.num # None => /\ d.next = f.num + 1 /\ d.gaps = c.gaps + f.num - c.next
                       /\ \A k \in Key : d.view[k] = IF k = f.key THEN f.ver ELSE c.view[k]

\* This is what reading does.
LEMMA SeenShows ==
    ASSUME NEW c \in ReaderState, NEW f \in Piece
    PROVE  Shows(c, f, Seen(c, f))
<1>1. c.next \in Nat /\ c.gaps \in Int /\ c.view \in [Key -> Nat]
  BY DEF ReaderState
<1>2. PICK d : d = Seen(c, f)
  OBVIOUS
<1>3. CASE f.num = None
  <2>1. f.ver \in [Key -> Nat]
    BY <1>3, PieceParts
  <2>2. PICK v : v = [k \in Key |-> Max({c.view[k], f.ver[k]})]
    OBVIOUS
  <2>3. ASSUME NEW k \in Key
        PROVE  /\ v[k] \in Nat /\ v[k] >= c.view[k] /\ v[k] >= f.ver[k]
               /\ v[k] = c.view[k] \/ v[k] = f.ver[k]
    <3>1. PICK x, y : x = c.view[k] /\ y = f.ver[k] /\ x \in Nat /\ y \in Nat
      BY <1>1, <2>1
    <3>2. v[k] = Max({x, y})
      BY <2>2, <3>1
    <3>3. PICK z : z = Max({x, y})
      OBVIOUS
    <3>4. z \in Nat /\ z >= x /\ z >= y /\ (z = x \/ z = y)
      BY <3>1, <3>3, GreaterOf
    <3> QED BY <3>1, <3>2, <3>3, <3>4
  <2>4. v \in [Key -> Nat]
    <3>1. v = [k \in Key |-> v[k]]
      BY <2>2
    <3> QED BY <2>3, <3>1
  <2>5. d = [c EXCEPT !.view = v]
    BY <1>2, <1>3, <2>2 DEF Seen
  <2>6. d.next = c.next /\ d.gaps = c.gaps /\ d.view = v
    BY <2>5 DEF ReaderState
  <2>7. d \in ReaderState
    BY <2>4, <2>5 DEF ReaderState
  <2>8. \A k \in Key : Brings(f, k) = f.ver[k]
    BY <1>3 DEF Brings
  <2> QED BY <1>2, <1>3, <2>3, <2>6, <2>7, <2>8 DEF Shows
<1>4. CASE f.num # None
  <2>1. f.num \in Nat /\ f.ver \in Nat /\ f.key \in Key \cup {None}
    BY <1>4, PieceParts
  <2>2. PICK v : v = IF f.key = None THEN c.view ELSE [c.view EXCEPT ![f.key] = f.ver]
    OBVIOUS
  <2>3. v \in [Key -> Nat] /\ \A k \in Key : v[k] = IF k = f.key THEN f.ver ELSE c.view[k]
    BY <1>1, <2>1, <2>2, CppAssumption
  <2>4. d = [next |-> f.num + 1, gaps |-> c.gaps + f.num - c.next, view |-> v]
    BY <1>2, <1>4, <2>2 DEF Seen
  <2>5. d.next = f.num + 1 /\ d.gaps = c.gaps + f.num - c.next /\ d.view = v
    BY <2>4
  <2>6. f.num + 1 \in Nat /\ c.gaps + f.num - c.next \in Int
    BY <1>1, <2>1
  <2>7. d \in ReaderState
    BY <2>3, <2>4, <2>6 DEF ReaderState
  <2> QED BY <1>2, <1>4, <2>3, <2>5, <2>7 DEF Shows
<1> QED BY <1>3, <1>4

\* The first piece of a stream and the rest.
FirstOf(u, f, v) ==
    /\ v \in Seq(Piece) /\ u[1] = f /\ 1 \in DOMAIN u
    /\ \A i \in DOMAIN v : i + 1 \in DOMAIN u /\ v[i] = u[i + 1] /\ 1 < i + 1
    /\ \A i \in DOMAIN u : i = 1 \/ (i - 1 \in DOMAIN v /\ u[i] = v[i - 1])
    /\ Cardinality(WithNumber(u)) = Cardinality(WithNumber(v)) + (IF f.num = None THEN 0 ELSE 1)
    /\ Cardinality(WithNumber(v)) \in Nat

\* Sequences with the same pieces are equal.
LEMMA PieceEqual ==
    ASSUME NEW u \in Seq(Piece), NEW v \in Seq(Piece), Len(u) = Len(v),
           \A i \in 1 .. Len(u) : u[i] = v[i]
    PROVE  u = v
  BY SeqEqual

\* What is read first is the first of what is under way.
LEMMA FirstOfTape ==
    ASSUME NEW b \in SubState, NEW w \in Seq(Piece), w # <<>>
    PROVE  FirstOf(Tape(b, w), Head(w), Tape(b, Tail(w)))
<1>1. PICK t, f, e, u, v : t = Tail(w) /\ f = Head(w) /\ e = <<f>> /\ u = Tape(b, w) /\ v = Tape(b, t)
  OBVIOUS
<1>2. /\ f \in Piece /\ t \in Seq(Piece) /\ Len(t) = Len(w) - 1 /\ Len(w) \in Nat \ {0} /\ f = w[1]
      /\ \A i \in 1 .. Len(t) : t[i] = w[i + 1]
  <2>1. Len(w) \in Nat \ {0}
    BY EmptySeq
  <2>2. f \in Piece /\ t \in Seq(Piece) /\ Len(t) = Len(w) - 1 /\ \A i \in 1 .. Len(t) : t[i] = w[i + 1]
    BY <1>1, HeadTailProperties
  <2> QED BY <1>1, <2>1, <2>2
<1>3. e \in Seq(Piece) /\ Len(e) = 1 /\ e[1] = f /\ DOMAIN e = {1}
  BY <1>1, <1>2
<1>4. w = e \o t
  <2>1. e \o t \in Seq(Piece) /\ Len(e \o t) = Len(w)
        /\ \A i \in 1 .. Len(w) : (e \o t)[i] = IF i <= 1 THEN e[i] ELSE t[i - 1]
    <3>1. /\ e \o t \in Seq(Piece) /\ Len(e \o t) = Len(e) + Len(t)
          /\ \A i \in 1 .. Len(e) + Len(t) : (e \o t)[i] = IF i <= Len(e) THEN e[i] ELSE t[i - Len(e)]
      <4>1. e \in Seq(Piece) /\ t \in Seq(Piece)
        BY <1>2, <1>3
      <4> QED BY <4>1, ConcatProperties
    <3>2. Len(e) + Len(t) = Len(w) /\ Len(e) = 1
      BY <1>2, <1>3
    <3> QED BY <3>1, <3>2
  <2>2. ASSUME NEW i \in 1 .. Len(w) PROVE (e \o t)[i] = w[i]
    <3>1. CASE i = 1
      BY <1>2, <1>3, <2>1, <3>1
    <3>2. CASE i # 1
      <4>1. ~(i <= 1) /\ i - 1 \in 1 .. Len(t) /\ (i - 1) + 1 = i
        BY <1>2, <3>2
      <4> QED BY <1>2, <2>1, <4>1
    <3> QED BY <3>1, <3>2
  <2>3. PICK v1 : v1 = e \o t
    OBVIOUS
  <2>4. /\ v1 \in Seq(Piece) /\ w \in Seq(Piece) /\ Len(v1) = Len(w)
        /\ \A i \in 1 .. Len(v1) : v1[i] = w[i]
    BY <2>1, <2>2, <2>3
  <2>5. v1 = w
    BY <2>4, PieceEqual
  <2> QED BY <2>3, <2>5
<1>5. u = e \o v /\ v \in Seq(Piece)
  <2>1. PICK a, q : a = b.wbuf /\ q = b.queue /\ a \in Seq(Piece) /\ q \in Seq(Piece)
    BY SubParts
  <2>2. v \in Seq(Piece) /\ (b.conflate => u = w \o a /\ v = t \o a)
        /\ (~b.conflate => u = (w \o a) \o q /\ v = (t \o a) \o q)
    BY <1>1, <1>2, <2>1, TapeParts
  <2>3. t \o a \in Seq(Piece)
    BY <1>2, <2>1, ConcatProperties
  <2>4. (e \o t) \o a = e \o (t \o a)
    BY <1>2, <1>3, <2>1, PieceAssoc
  <2>5. (e \o (t \o a)) \o q = e \o ((t \o a) \o q)
    <3>1. e \in Seq(Piece) /\ q \in Seq(Piece)
      BY <1>3, <2>1
    <3>2. PICK y \in Seq(Piece) : y = t \o a
      BY <2>3
    <3>3. (e \o y) \o q = e \o (y \o q)
      BY <3>1, Zenon, PieceAssoc
    <3> QED BY <3>2, <3>3
  <2> QED BY <1>4, <2>2, <2>4, <2>5
<1>6. PICK n : n = Len(v) /\ n \in Nat
  BY <1>5, LenProperties
<1>7. /\ DOMAIN v = 1 .. n /\ DOMAIN u = 1 .. 1 + n
      /\ \A i \in 1 .. 1 + n : u[i] = IF i <= 1 THEN e[i] ELSE v[i - 1]
  <2>1. PICK a : a = Len(e)
    OBVIOUS
  <2>2. e \in Seq(Piece) /\ v \in Seq(Piece) /\ n = Len(v) /\ u = e \o v
    BY <1>3, <1>5, <1>6
  <2>3. /\ DOMAIN v = 1 .. n /\ DOMAIN u = 1 .. a + n
        /\ \A i \in 1 .. a + n : u[i] = IF i <= a THEN e[i] ELSE v[i - a]
    BY <2>1, <2>2, ConcatPlaces
  <2>4. a = 1
    BY <1>3, <2>1
  <2> QED BY <2>3, <2>4
<1>8. 1 \in DOMAIN u /\ u[1] = f
  BY <1>3, <1>6, <1>7
<1>9. ASSUME NEW i \in DOMAIN v PROVE i + 1 \in DOMAIN u /\ v[i] = u[i + 1] /\ 1 < i + 1
  <2>1. i + 1 \in 1 .. 1 + n /\ ~(i + 1 <= 1) /\ (i + 1) - 1 = i /\ 1 < i + 1
    <3>1. i \in 1 .. n /\ n \in Int
      BY <1>6, <1>7
    <3> QED BY <3>1
  <2> QED BY <1>7, <2>1
<1>10. ASSUME NEW i \in DOMAIN u, i # 1 PROVE i - 1 \in DOMAIN v /\ u[i] = v[i - 1]
  <2>1. i \in 1 .. 1 + n /\ ~(i <= 1) /\ i - 1 \in 1 .. n
    BY <1>6, <1>7, <1>10
  <2> QED BY <1>7, <2>1
<1>11. /\ Cardinality(WithNumber(u)) = Cardinality(WithNumber(v)) + (IF f.num = None THEN 0 ELSE 1)
       /\ Cardinality(WithNumber(v)) \in Nat
  <2>1. Cardinality(WithNumber(e \o v)) = Cardinality(WithNumber(e)) + Cardinality(WithNumber(v))
    BY <1>3, <1>5, CountConcat
  <2>2. Cardinality(WithNumber(e)) = IF f.num = None THEN 0 ELSE 1
    BY <1>1, <1>2, CountOne
  <2>3. Cardinality(WithNumber(v)) \in Nat
    BY <1>5, CountFinite
  <2> QED BY <1>5, <2>1, <2>2, <2>3
<1>12. FirstOf(u, f, v)
  BY <1>5, <1>8, <1>9, <1>10, <1>11 DEF FirstOf
<1> QED BY <1>1, <1>12

\* What a piece of a stream brings, in the stream with it and without it.
LEMMA FirstBrings ==
    ASSUME NEW u \in Seq(Piece), NEW f \in Piece, NEW v, FirstOf(u, f, v), NEW k \in Key
    PROVE  /\ Brings(f, k) = Brings(u[1], k) /\ 1 \in DOMAIN u /\ Brings(f, k) \in Nat
           /\ \A i \in DOMAIN v : /\ i \in Nat /\ i + 1 \in DOMAIN u /\ Brings(v[i], k) = Brings(u[i + 1], k)
                                  /\ Brings(v[i], k) \in Nat
  BY PieceSeq, PieceParts DEF FirstOf

\* A reader has the newer of what it had and what it read.
LEMMA SeenNewer ==
    ASSUME NEW u \in Seq(Piece), NEW f \in Piece, NEW v, FirstOf(u, f, v),
           NEW c \in ReaderState, NEW d, Shows(c, f, d), NEW l, Forward(u, c, l), NEW k \in Key
    PROVE  /\ d.view[k] \in Nat /\ c.view[k] \in Nat
           /\ d.view[k] >= c.view[k] /\ d.view[k] >= Brings(f, k)
           /\ d.view[k] = c.view[k] \/ d.view[k] = Brings(f, k)
<1>1. d.view[k] \in Nat /\ c.view[k] \in Nat /\ Brings(f, k) \in Nat
  BY PieceParts DEF Shows, ReaderState
<1>2. CASE f.num = None
  BY <1>1, <1>2 DEF Shows
<1>3. CASE f.num # None
  <2>1. d.view[k] = IF k = f.key THEN f.ver ELSE c.view[k]
    BY <1>3 DEF Shows
  <2>2. Brings(f, k) = IF f.key = k THEN f.ver ELSE 0
    BY <1>3 DEF Brings
  <2>3. CASE k = f.key
    <3>1. 1 \in WithNumber(u) /\ u[1] = f
      BY <1>3 DEF FirstOf, WithNumber
    <3>2. f.key # None
      BY <2>3, CppAssumption
    <3>3. c.view[k] <= f.ver
      BY <2>3, <3>1, <3>2 DEF Forward
    <3> QED BY <1>1, <2>1, <2>2, <2>3, <3>3
  <2>4. CASE k # f.key
    BY <1>1, <2>1, <2>2, <2>4
  <2> QED BY <2>3, <2>4
<1> QED BY <1>2, <1>3

\* A frame that is read is no longer under way.
LEMMA CountedOn ==
    ASSUME NEW x \in Int, NEW g \in Int, NEW m \in Int, NEW n \in Int, NEW o \in Int
    PROVE  x - g + (n + 1) + o = (m + 1) - (g + m - x) + n + o
  OBVIOUS

\* Reading leaves no number unaccounted for.
LEMMA SeenCounts ==
    ASSUME NEW u \in Seq(Piece), NEW f \in Piece, NEW v, FirstOf(u, f, v),
           NEW c \in ReaderState, NEW d, Shows(c, f, d), NEW out \in Nat, NEW missed \in Nat,
           Rising(u, c, out), Balanced(u, c, out, missed)
    PROVE  Rising(v, d, out) /\ Balanced(v, d, out, missed)
<1>1. c.next \in Nat /\ c.gaps \in Int /\ d \in ReaderState /\ d.next \in Nat /\ d.gaps \in Int
  BY DEF Shows, ReaderState
<1>2. ASSUME NEW i \in WithNumber(v)
      PROVE  i + 1 \in WithNumber(u) /\ v[i] = u[i + 1] /\ 1 < i + 1 /\ i \in Nat /\ u[i + 1].num \in Nat
  <2>1. i \in DOMAIN v /\ v[i].num # None /\ v \in Seq(Piece)
    BY DEF WithNumber, FirstOf
  <2>2. i + 1 \in DOMAIN u /\ v[i] = u[i + 1] /\ 1 < i + 1
    BY <2>1 DEF FirstOf
  <2>3. i + 1 \in WithNumber(u) /\ i \in Nat
    BY <2>1, <2>2, PieceSeq DEF WithNumber
  <2> QED BY <2>2, <2>3, PieceSeq
<1>3. PICK n : n = Cardinality(WithNumber(v)) /\ n \in Nat
  BY DEF FirstOf
<1>4. c.next <= out /\ out = c.next - c.gaps + Cardinality(WithNumber(u)) + missed
  BY DEF Rising, Balanced
<1>5. CASE f.num = None
  <2>1. d.next = c.next /\ d.gaps = c.gaps
    BY <1>5 DEF Shows
  <2>2. Cardinality(WithNumber(u)) = n
    <3>1. Cardinality(WithNumber(u)) = n + (IF f.num = None THEN 0 ELSE 1)
      BY <1>3 DEF FirstOf
    <3> QED BY <1>3, <1>5, <3>1
  <2>3. Balanced(v, d, out, missed)
    BY <1>3, <1>4, <2>1, <2>2 DEF Balanced
  <2>4. \A i \in WithNumber(v) : d.next <= v[i].num /\ v[i].num < out
    BY <1>2, <2>1 DEF Rising
  <2>5. ASSUME NEW i \in WithNumber(v), NEW j \in WithNumber(v), i < j PROVE v[i].num < v[j].num
    <3>1. i + 1 < j + 1
      BY <1>2, <2>5
    <3> QED BY <1>2, <3>1 DEF Rising
  <2> QED BY <1>4, <2>1, <2>3, <2>4, <2>5 DEF Rising
<1>6. CASE f.num # None
  <2>1. 1 \in WithNumber(u) /\ u[1] = f /\ f.num \in Nat
    BY <1>6, PieceParts DEF FirstOf, WithNumber
  <2>2. d.next = f.num + 1 /\ d.gaps = c.gaps + f.num - c.next
    BY <1>6 DEF Shows
  <2>3. Cardinality(WithNumber(u)) = n + 1
    <3>1. Cardinality(WithNumber(u)) = n + (IF f.num = None THEN 0 ELSE 1)
      BY <1>3 DEF FirstOf
    <3> QED BY <1>3, <1>6, <3>1
  <2>4. out = d.next - d.gaps + n + missed
    <3>1. PICK x \in Int, g \in Int, m \in Int : x = c.next /\ g = c.gaps /\ m = f.num
      BY <1>1, <2>1
    <3>2. n \in Int /\ missed \in Int
      BY <1>3
    <3>3. x - g + (n + 1) + missed = (m + 1) - (g + m - x) + n + missed
      BY <3>2, CountedOn
    <3>4. out = x - g + (n + 1) + missed
      BY <1>4, <2>3, <3>1
    <3> QED BY <2>2, <3>1, <3>3, <3>4
  <2>5. Balanced(v, d, out, missed)
    BY <1>3, <2>4 DEF Balanced
  <2>6. d.next <= out
    <3>1. f.num < out
      BY <2>1 DEF Rising
    <3> QED BY <2>1, <2>2, <3>1
  <2>7. ASSUME NEW i \in WithNumber(v) PROVE d.next <= v[i].num /\ v[i].num < out
    <3>1. f.num < u[i + 1].num /\ u[i + 1].num < out
      BY <1>2, <2>1 DEF Rising
    <3> QED BY <1>2, <2>1, <2>2, <3>1
  <2>8. ASSUME NEW i \in WithNumber(v), NEW j \in WithNumber(v), i < j PROVE v[i].num < v[j].num
    <3>1. i + 1 < j + 1
      BY <1>2, <2>8
    <3> QED BY <1>2, <3>1 DEF Rising
  <2> QED BY <2>5, <2>6, <2>7, <2>8 DEF Rising
<1> QED BY <1>5, <1>6

\* No value goes back.
LEMMA SeenForward ==
    ASSUME NEW u \in Seq(Piece), NEW f \in Piece, NEW v, FirstOf(u, f, v),
           NEW c \in ReaderState, NEW d, Shows(c, f, d), NEW l \in [Key -> Nat], Forward(u, c, l)
    PROVE  Forward(v, d, l)
<1>1. ASSUME NEW k \in Key
      PROVE  d.view[k] <= l[k] /\ \A i \in DOMAIN v : Brings(v[i], k) <= l[k]
  <2>1. c.view[k] <= l[k] /\ \A i \in DOMAIN u : Brings(u[i], k) <= l[k]
    BY DEF Forward
  <2>2. d.view[k] = c.view[k] \/ d.view[k] = Brings(f, k)
    BY SeenNewer
  <2> QED BY <2>1, <2>2, FirstBrings
<1>2. ASSUME NEW i \in WithNumber(v), v[i].key # None
      PROVE  /\ d.view[v[i].key] <= v[i].ver
             /\ \A j \in DOMAIN v : j < i => Brings(v[j], v[i].key) <= v[i].ver
  <2>1. v \in Seq(Piece) /\ i \in DOMAIN v /\ v[i].num # None
    BY DEF WithNumber, FirstOf
  <2>2. PICK k \in Key : k = v[i].key
    BY <1>2, <2>1, PieceSeq
  <2>3. i + 1 \in WithNumber(u) /\ v[i] = u[i + 1] /\ 1 < i + 1 /\ i \in Nat
    <3>1. i + 1 \in DOMAIN u /\ v[i] = u[i + 1] /\ 1 < i + 1
      BY <2>1 DEF FirstOf
    <3> QED BY <2>1, <3>1, PieceSeq DEF WithNumber
  <2>4. c.view[k] <= v[i].ver /\ \A j \in DOMAIN u : j < i + 1 => Brings(u[j], k) <= v[i].ver
    <3>1. u[i + 1].key = k /\ u[i + 1].key # None
      BY <1>2, <2>2, <2>3
    <3> QED BY <2>3, <3>1 DEF Forward
  <2>5. d.view[k] <= v[i].ver
    <3>1. Brings(f, k) <= v[i].ver
      BY <2>3, <2>4, FirstBrings
    <3>2. d.view[k] = c.view[k] \/ d.view[k] = Brings(f, k)
      BY SeenNewer
    <3> QED BY <2>4, <3>1, <3>2
  <2>6. ASSUME NEW j \in DOMAIN v, j < i PROVE Brings(v[j], k) <= v[i].ver
    <3>1. j \in Nat /\ j + 1 \in DOMAIN u /\ Brings(v[j], k) = Brings(u[j + 1], k)
      BY FirstBrings
    <3>2. j + 1 < i + 1
      BY <2>3, <2>6, <3>1
    <3> QED BY <2>4, <3>1, <3>2
  <2> QED BY <2>2, <2>5, <2>6
<1> QED BY <1>1, <1>2 DEF Forward

\* Reading leaves a subscriber sound.
LEMMA ReadKeeps ==
    ASSUME NEW b \in SubState, NEW w \in Seq(Piece), w # <<>>, NEW c \in ReaderState,
           NEW l \in [Key -> Nat], Sound(b, w, c, l), NEW d, Shows(c, Head(w), d)
    PROVE  /\ Sound(b, Tail(w), d, l)
           /\ Newest(b, Tape(b, w), c, l) => Newest(b, Tape(b, Tail(w)), d, l)
<1>1. PICK u, v, f, t : u = Tape(b, w) /\ f = Head(w) /\ t = Tail(w) /\ v = Tape(b, t)
  OBVIOUS
<1>2. /\ u \in Seq(Piece) /\ f \in Piece /\ FirstOf(u, f, v) /\ t \in Seq(Piece) /\ Shows(c, f, d)
      /\ b.out \in Nat /\ b.lost \in Nat
  <2>1. u \in Seq(Piece)
    BY <1>1, TapeParts
  <2>2. FirstOf(u, f, v)
    BY <1>1, FirstOfTape
  <2>3. f \in Piece /\ t \in Seq(Piece)
    BY <1>1, HeadTailProperties
  <2> QED BY <1>1, <2>1, <2>2, <2>3, SubParts
<1>3. Rising(u, c, b.out) /\ Balanced(u, c, b.out, b.lost) /\ Forward(u, c, l) /\ Merged(b, u, c, l) /\ Entitled(b, w, c)
  BY <1>1 DEF Sound
<1>4. Rising(v, d, b.out) /\ Balanced(v, d, b.out, b.lost)
  BY <1>2, <1>3, SeenCounts
<1>5. Forward(v, d, l)
  BY <1>2, <1>3, SeenForward
<1>6. \A k \in Key : /\ d.view[k] \in Nat /\ c.view[k] \in Nat
                     /\ d.view[k] >= c.view[k] /\ d.view[k] >= Brings(f, k)
                     /\ d.view[k] = c.view[k] \/ d.view[k] = Brings(f, k)
  BY <1>2, <1>3, SeenNewer
<1>7. \A k \in Key : Brings(f, k) = Brings(u[1], k) /\ 1 \in DOMAIN u
                     /\ \A i \in DOMAIN v : i + 1 \in DOMAIN u /\ Brings(v[i], k) = Brings(u[i + 1], k)
  BY <1>2, FirstBrings
<1>8. Merged(b, v, d, l)
  <2> SUFFICES ASSUME NEW k \in Key, b.pending[k] # 0
               PROVE  d.view[k] <= b.pending[k] /\ \A i \in DOMAIN v : Brings(v[i], k) <= b.pending[k]
    BY <1>3 DEF Merged
  <2>1. c.view[k] <= b.pending[k] /\ \A i \in DOMAIN u : Brings(u[i], k) <= b.pending[k]
    BY <1>3 DEF Merged
  <2>2. Brings(f, k) <= b.pending[k]
    BY <1>7, <2>1
  <2>3. d.view[k] <= b.pending[k]
    BY <1>6, <2>1, <2>2
  <2>4. \A i \in DOMAIN v : Brings(v[i], k) <= b.pending[k]
    BY <1>7, <2>1
  <2> QED BY <2>3, <2>4
<1>9. Entitled(b, t, d)
  <2> SUFFICES ASSUME NEW k \in Key \ b.granted
               PROVE  d.view[k] = 0 /\ Without(t, k)
    BY <1>3 DEF Entitled
  <2>1. c.view[k] = 0 /\ Without(w, k)
    BY <1>3 DEF Entitled
  <2>2. Len(w) \in Nat \ {0} /\ f = w[1] /\ DOMAIN w = 1 .. Len(w)
    <3>1. Len(w) \in Nat \ {0}
      BY EmptySeq
    <3> QED BY <1>1, <3>1
  <2>3. 1 \in DOMAIN w
    BY <2>2
  <2>4. Brings(f, k) = 0
    BY <2>1, <2>2, <2>3 DEF Without
  <2>5. d.view[k] = 0
    BY <1>6, <2>1, <2>4
  <2>6. ASSUME NEW i \in DOMAIN t PROVE i + 1 \in DOMAIN w /\ t[i] = w[i + 1]
    <3>1. DOMAIN t = 1 .. Len(t) /\ Len(t) = Len(w) - 1 /\ \A n \in 1 .. Len(t) : t[n] = w[n + 1]
      BY <1>1, <1>2, HeadTailProperties, LenProperties
    <3>2. i \in 1 .. Len(t)
      BY <3>1
    <3>3. i + 1 \in 1 .. Len(w)
      BY <2>2, <3>1, <3>2
    <3> QED BY <2>2, <3>1, <3>2, <3>3
  <2>7. Without(t, k)
    BY <2>1, <2>6 DEF Without
  <2> QED BY <2>5, <2>7
<1>10. ASSUME Newest(b, u, c, l) PROVE Newest(b, v, d, l)
  <2> SUFFICES ASSUME NEW k \in b.symbols, b.dropped = 0, l[k] > b.since[k]
               PROVE  d.view[k] = l[k] \/ b.pending[k] = l[k] \/ Carries(v, k, l[k])
    BY DEF Newest
  <2>1. k \in Key /\ l[k] \in Nat
    BY SubParts
  <2>2. d.view[k] <= l[k]
    BY <1>5, <2>1 DEF Forward
  <2>3. c.view[k] = l[k] \/ b.pending[k] = l[k] \/ Carries(u, k, l[k])
    BY <1>10 DEF Newest
  <2>4. CASE c.view[k] = l[k]
    BY <1>6, <2>1, <2>2, <2>4
  <2>5. CASE Carries(u, k, l[k])
    <3>1. PICK i \in DOMAIN u : Brings(u[i], k) = l[k]
      BY <2>5 DEF Carries
    <3>2. CASE i = 1
      <4>1. Brings(f, k) = l[k]
        BY <1>7, <2>1, <3>1, <3>2
      <4> QED BY <1>6, <2>1, <2>2, <4>1
    <3>3. CASE i # 1
      <4>1. i - 1 \in DOMAIN v /\ u[i] = v[i - 1]
        BY <1>2, <3>3 DEF FirstOf
      <4> QED BY <3>1, <4>1 DEF Carries
    <3> QED BY <3>2, <3>3
  <2> QED BY <2>3, <2>4, <2>5
<1> QED BY <1>1, <1>4, <1>5, <1>8, <1>9, <1>10 DEF Sound

-----------------------------------------------------------------------------
(* The subscriber from its first state to its last.                        *)

\* A subscriber that is not there is healthy.
LEMMA NewHealthy ==
    ASSUME NEW l \in [Key -> Nat], NEW n \in Nat
    PROVE  /\ NewSub \in SubState /\ Unread \in ReaderState
           /\ Healthy(NewSub, <<>>, Unread, l, n, FALSE)
<1>1. PICK S : S = IF Enabled THEN {} ELSE Key
  OBVIOUS
<1>2. NoValues \in [Key -> Nat] /\ \A k \in Key : NoValues[k] = 0
  BY DEF NoValues
<1>3. PICK b : b = NewSub
  OBVIOUS
<1>4. b = [state |-> "new", symbols |-> S, conflate |-> FALSE, queue |-> <<>>, pending |-> NoValues, wbuf |-> <<>>,
           out |-> 0, dropped |-> 0, armed |-> FALSE, granted |-> S, lost |-> 0, since |-> NoValues]
  BY <1>1, <1>3 DEF NewSub
<1>5. b \in SubState
  BY <1>1, <1>2, <1>4 DEF SubState
<1>6. Unread \in ReaderState
  BY <1>2 DEF Unread, ReaderState
<1>7. ~ Doomed(b)
  BY <1>4, CppAssumption DEF Doomed
<1>8. Len(b.queue) <= client_queue /\ Len(<<>>) <= SockBuf
  BY <1>4, CppAssumption
<1>9. \A k \in Key : b.pending[k] <= n
  BY <1>2, <1>4
<1> QED BY <1>3, <1>4, <1>5, <1>6, <1>7, <1>8, <1>9 DEF Healthy

\* So is one that is gone.
LEMMA GoneHealthy ==
    ASSUME NEW w \in Seq(Piece), Len(w) <= SockBuf, NEW c, NEW l, NEW n \in Nat
    PROVE  /\ [NewSub EXCEPT !.state = "gone"] \in SubState
           /\ Healthy([NewSub EXCEPT !.state = "gone"], w, c, l, n, FALSE)
<1>1. PICK S : S = IF Enabled THEN {} ELSE Key
  OBVIOUS
<1>2. NoValues \in [Key -> Nat] /\ \A k \in Key : NoValues[k] = 0
  BY DEF NoValues
<1>3. PICK b : b = [NewSub EXCEPT !.state = "gone"]
  OBVIOUS
<1>4. b = [state |-> "gone", symbols |-> S, conflate |-> FALSE, queue |-> <<>>, pending |-> NoValues, wbuf |-> <<>>,
           out |-> 0, dropped |-> 0, armed |-> FALSE, granted |-> S, lost |-> 0, since |-> NoValues]
  BY <1>1, <1>3 DEF NewSub
<1>5. b \in SubState
  BY <1>1, <1>2, <1>4 DEF SubState
<1>6. ~ Doomed(b)
  BY <1>4, CppAssumption DEF Doomed
<1>7. Len(b.queue) <= client_queue
  BY <1>4, CppAssumption
<1>8. \A k \in Key : b.pending[k] <= n
  BY <1>2, <1>4
<1> QED BY <1>3, <1>4, <1>5, <1>6, <1>7, <1>8 DEF Healthy

\* A subscriber as accept_sub starts it.
Accepted == [NewSub EXCEPT !.state = "on", !.wbuf = <<SnapshotOf(NewSub)>>]

\* Its snapshot brings it the newest value of every key that it may see.
LEMMA AcceptedWrites ==
    ASSUME last_ \in [Key -> Nat], NEW n
    PROVE  Writes(Accepted, <<>>, Unread, last_, n, FALSE)
<1>1. PICK S : S = (IF Enabled THEN {} ELSE Key) /\ S \subseteq Key
  OBVIOUS
<1>2. NoValues \in [Key -> Nat] /\ \A k \in Key : NoValues[k] = 0
  BY DEF NoValues
<1>3. PICK f : f = SnapshotOf(NewSub)
  OBVIOUS
<1>4. f = [num |-> None, key |-> None, ver |-> [k \in Key |-> IF k \in S THEN last_[k] ELSE 0]]
  BY <1>1, <1>3 DEF SnapshotOf, NewSub
<1>5. /\ f \in Piece /\ f.num = None /\ f.key = None
      /\ \A k \in Key : Brings(f, k) = IF k \in S THEN last_[k] ELSE 0
  <2>1. [k \in Key |-> IF k \in S THEN last_[k] ELSE 0] \in [Key -> Nat]
    OBVIOUS
  <2> QED BY <1>4, <2>1 DEF Piece, Notice, Brings
<1>6. PICK b : b = Accepted
  OBVIOUS
<1>7. b = [state |-> "on", symbols |-> S, conflate |-> FALSE, queue |-> <<>>, pending |-> NoValues, wbuf |-> <<f>>,
           out |-> 0, dropped |-> 0, armed |-> FALSE, granted |-> S, lost |-> 0, since |-> NoValues]
  BY <1>1, <1>3, <1>6 DEF Accepted, NewSub
<1>8. PICK u : u = <<f>>
  OBVIOUS
<1>9. u \in Seq(Piece) /\ DOMAIN u = {1} /\ u[1] = f
  BY <1>5, <1>8
<1>10. b \in SubState
  BY <1>1, <1>2, <1>7, <1>8, <1>9 DEF SubState
<1>11. Tape(b, <<>>) = u
  <2>1. <<>> \o u = u /\ u \o <<>> = u
    BY <1>9, ConcatEmptySeq
  <2>2. Tape(b, <<>>) = <<>> \o u \o <<>>
    BY <1>7, <1>8 DEF Tape
  <2> QED BY <2>1, <2>2
<1>12. WithNumber(u) = {} /\ Cardinality(WithNumber(u)) = 0
  <2>1. WithNumber(u) = {}
    BY <1>5, <1>9 DEF WithNumber
  <2> QED BY <2>1, FS_EmptySet
<1>13. Unread \in ReaderState /\ Unread.next = 0 /\ Unread.gaps = 0 /\ \A k \in Key : Unread.view[k] = 0
  BY <1>2 DEF Unread, ReaderState
<1>14. \A k \in Key : last_[k] \in Nat
  OBVIOUS
<1>15. Sound(b, <<>>, Unread, last_)
  <2>1. Rising(u, Unread, b.out)
    BY <1>7, <1>12, <1>13 DEF Rising
  <2>2. Balanced(u, Unread, b.out, b.lost)
    BY <1>7, <1>12, <1>13 DEF Balanced
  <2>3. Forward(u, Unread, last_)
    BY <1>5, <1>9, <1>12, <1>13, <1>14 DEF Forward
  <2>4. Merged(b, u, Unread, last_)
    BY <1>2, <1>7, <1>14 DEF Merged
  <2>5. Entitled(b, <<>>, Unread)
    <3>1. \A k \in Key \ S : Without(u, k)
      BY <1>5, <1>9, CppAssumption DEF Without
    <3>2. \A k \in Key : Without(<<>>, k)
      BY DEF Without
    <3> QED BY <1>2, <1>7, <1>8, <1>13, <3>1, <3>2 DEF Entitled
  <2> QED BY <1>11, <2>1, <2>2, <2>3, <2>4, <2>5 DEF Sound
<1>16. Newest(b, u, Unread, last_)
  <2>1. \A k \in S : Carries(u, k, last_[k])
    BY <1>1, <1>5, <1>9 DEF Carries
  <2> QED BY <1>7, <2>1 DEF Newest
<1>17. ~ Doomed(b)
  BY <1>7, CppAssumption DEF Doomed
<1>18. Len(b.queue) <= client_queue /\ Len(<<>>) <= SockBuf /\ <<>> \in Seq(Piece)
  BY <1>7, CppAssumption
<1>19. b.state = "on"
  BY <1>7
<1>20. Writes(b, <<>>, Unread, last_, n, FALSE)
  BY <1>10, <1>11, <1>13, <1>15, <1>16, <1>17, <1>18, <1>19 DEF Writes
<1> QED BY <1>6, <1>20

\* A subscriber that is on is one that can be written to.
LEMMA HealthyWrites ==
    ASSUME NEW b \in SubState, NEW w \in Seq(Piece), NEW c \in ReaderState, NEW l, NEW n, NEW closing,
           Healthy(b, w, c, l, n, closing), b.state = "on"
    PROVE  Writes(b, w, c, l, n, closing)
  BY DEF Healthy, Writes

\* What is read does not harm it.
LEMMA HealthyRead ==
    ASSUME NEW b \in SubState, NEW w \in Seq(Piece), w # <<>>, NEW c \in ReaderState,
           NEW l \in [Key -> Nat], NEW n, NEW closing, Healthy(b, w, c, l, n, closing)
    PROVE  /\ Seen(c, Head(w)) \in ReaderState /\ Tail(w) \in Seq(Piece)
           /\ Healthy(b, Tail(w), Seen(c, Head(w)), l, n, closing)
<1>1. PICK f, t, d : f = Head(w) /\ t = Tail(w) /\ d = Seen(c, f)
  OBVIOUS
<1>2. f \in Piece /\ t \in Seq(Piece) /\ Len(t) = Len(w) - 1 /\ Len(w) \in Nat /\ SockBuf \in Nat
  BY <1>1, HeadTailProperties, LenProperties, CppAssumption
<1>3. Shows(c, f, d) /\ d \in ReaderState
  <2>1. Shows(c, f, d)
    BY <1>1, <1>2, SeenShows
  <2> QED BY <2>1 DEF Shows
<1>4. Len(t) <= SockBuf
  <2>1. Len(w) <= SockBuf
    BY DEF Healthy
  <2> QED BY <1>2, <2>1
<1>5. ASSUME b.state = "on"
      PROVE  Sound(b, t, d, l) /\ (~closing => Newest(b, Tape(b, t), d, l))
  <2>1. Sound(b, w, c, l) /\ (~closing => Newest(b, Tape(b, w), c, l))
    BY <1>5 DEF Healthy
  <2>2. Sound(b, t, d, l) /\ (Newest(b, Tape(b, w), c, l) => Newest(b, Tape(b, t), d, l))
    BY <1>1, <1>3, <2>1, ReadKeeps
  <2> QED BY <2>1, <2>2
<1>6. b.state # "new"
  BY DEF Healthy
<1>7. Healthy(b, t, d, l, n, closing)
  BY <1>4, <1>5, <1>6 DEF Healthy
<1> QED BY <1>1, <1>2, <1>3, <1>7

-----------------------------------------------------------------------------
(* The steps.                                                              *)

\* The parts of the invariant that speak of one subscriber.
LEMMA InvParts ==
    ASSUME CppInv, NEW s \in Sub
    PROVE  /\ subs[s] \in SubState /\ wire[s] \in Seq(Piece) /\ reader[s] \in ReaderState
           /\ last_ \in [Key -> Nat] /\ frames_in \in Nat /\ \A k \in Key : last_[k] <= frames_in
           /\ Healthy(subs[s], wire[s], reader[s], last_, frames_in, s \in toClose)
           /\ Len(wire[s]) <= SockBuf
           /\ s \in toClose => subs[s].state = "on"
  BY DEF CppInv, Healthy

\* The invariant holds at first.
LEMMA InitSound == CppInit => CppInv
<1> SUFFICES ASSUME CppInit PROVE CppInv
  OBVIOUS
<1>1. last_ = NoValues /\ last_ \in [Key -> Nat] /\ frames_in = 0 /\ \A k \in Key : last_[k] <= frames_in
  BY DEF CppInit, NoValues
<1>2. NewSub \in SubState /\ Unread \in ReaderState /\ Healthy(NewSub, <<>>, Unread, last_, frames_in, FALSE)
  BY <1>1, NewHealthy
<1>3. /\ subs = [s \in Sub |-> NewSub] /\ wire = [s \in Sub |-> <<>>] /\ reader = [s \in Sub |-> Unread]
      /\ toClose = {}
  BY DEF CppInit, Unread
<1>4. subs \in [Sub -> SubState] /\ wire \in [Sub -> Seq(Piece)] /\ reader \in [Sub -> ReaderState]
  BY <1>2, <1>3
<1>5. \A s \in Sub : Healthy(subs[s], wire[s], reader[s], last_, frames_in, s \in toClose)
  BY <1>2, <1>3 DEF Healthy
<1> QED BY <1>1, <1>3, <1>4, <1>5 DEF CppInv, CppInit

\* The values that concern every subscriber.
Around ==
    /\ at \in {"body", "wait", "exited"} /\ listening \in {"armed", "backoff", "closed"}
    /\ bus \in {"down", "connecting", "up"} /\ frames_in \in Nat
    /\ last_ \in [Key -> Nat] /\ \A k \in Key : last_[k] <= frames_in
    /\ toClose \subseteq Sub /\ (at # "wait" => toClose = {}) /\ unsent \subseteq Sub

\* A step that touches no subscriber.
LEMMA NobodyChanges ==
    ASSUME CppInv, Around', UNCHANGED <<subs, wire, reader, last_, frames_in, toClose>>
    PROVE  CppInv'
  BY DEF CppInv, Around

\* A step that touches one subscriber.
LEMMA OneChanges ==
    ASSUME CppInv, Around', NEW s \in Sub, NEW b \in SubState, NEW w \in Seq(Piece), NEW c \in ReaderState,
           subs' = [subs EXCEPT ![s] = b], wire' = [wire EXCEPT ![s] = w], reader' = [reader EXCEPT ![s] = c],
           last_' = last_, frames_in' = frames_in, toClose' = toClose,
           Healthy(b, w, c, last_, frames_in, s \in toClose)
    PROVE  CppInv'
<1>1. subs \in [Sub -> SubState] /\ wire \in [Sub -> Seq(Piece)] /\ reader \in [Sub -> ReaderState]
  BY DEF CppInv
<1>2. subs' \in [Sub -> SubState] /\ wire' \in [Sub -> Seq(Piece)] /\ reader' \in [Sub -> ReaderState]
  BY <1>1
<1>3. ASSUME NEW t \in Sub
      PROVE  Healthy(subs'[t], wire'[t], reader'[t], last_', frames_in', t \in toClose')
  <2>1. CASE t = s
    <3>1. subs'[t] = b /\ wire'[t] = w /\ reader'[t] = c
      BY <1>1, <2>1
    <3> QED BY <2>1, <3>1
  <2>2. CASE t # s
    <3>1. subs'[t] = subs[t] /\ wire'[t] = wire[t] /\ reader'[t] = reader[t]
      BY <1>1, <2>2
    <3>2. Healthy(subs[t], wire[t], reader[t], last_, frames_in, t \in toClose)
      BY DEF CppInv
    <3> QED BY <3>1, <3>2
  <2> QED BY <2>1, <2>2
<1> QED BY <1>2, <1>3 DEF CppInv, Around

\* A request.
LEMMA SubscribeKeeps ==
    ASSUME CppInv, NEW s \in Sub, NEW t \in Token \cup {None}, NEW want \in SUBSET Key,
           NEW conflate \in BOOLEAN, Subscribe(s, t, want, conflate)
    PROVE  CppInv'
<1>1. PICK b, w, c, z : /\ b = subs[s] /\ w = wire[s] /\ c = reader[s] /\ z = (s \in toClose)
  OBVIOUS
<1>2. /\ b \in SubState /\ w \in Seq(Piece) /\ c \in ReaderState
      /\ last_ \in [Key -> Nat] /\ frames_in \in Nat /\ \A k \in Key : last_[k] <= frames_in
      /\ Healthy(b, w, c, last_, frames_in, z)
  BY <1>1, InvParts
<1>3. b.state = "on"
  BY <1>1 DEF Subscribe, Open
<1>4. Writes(b, w, c, last_, frames_in, z)
  BY <1>2, <1>3, HealthyWrites
<1>5. PICK d : d = Arm(Applied(b, t, want, conflate))
  OBVIOUS
<1>6. Writes(Applied(b, t, want, conflate), w, c, last_, frames_in, z)
  BY <1>2, <1>4, AppliedWrites
<1>7. Writes(d, w, c, last_, frames_in, z)
  BY <1>5, <1>6, ArmWrites
<1>8. Healthy(d, w, c, last_, frames_in, z) /\ d \in SubState
  <2>1. Healthy(d, w, c, last_, frames_in, z)
    BY <1>2, <1>7, WritesHealthy
  <2> QED BY <1>7, <2>1 DEF Writes
<1>9. subs \in [Sub -> SubState] /\ wire \in [Sub -> Seq(Piece)] /\ reader \in [Sub -> ReaderState]
  BY DEF CppInv
<1>10. /\ subs' = [subs EXCEPT ![s] = d] /\ wire' = [wire EXCEPT ![s] = w]
       /\ reader' = [reader EXCEPT ![s] = c]
       /\ last_' = last_ /\ frames_in' = frames_in /\ toClose' = toClose
  <2>1. subs' = [subs EXCEPT ![s] = Arm(Applied(@, t, want, conflate))] /\ UNCHANGED <<wire, reader, last_, frames_in, toClose>>
    BY DEF Subscribe
  <2> QED BY <1>1, <1>5, <1>9, <2>1
<1>11. Around'
  BY <1>10 DEF Subscribe, CppInv, Around, loop
<1> QED BY <1>1, <1>2, <1>8, <1>10, <1>11, OneChanges

\* Writing to a subscriber.
LEMMA FlushArmKeeps ==
    ASSUME CppInv, Around', NEW s \in Sub, NEW b, FlushArm(s, b),
           Writes(b, wire[s], reader[s], last_, frames_in, s \in toClose),
           UNCHANGED <<reader, last_, frames_in, toClose>>
    PROVE  CppInv'
<1>1. PICK w, c, z : w = wire[s] /\ c = reader[s] /\ z = (s \in toClose)
  OBVIOUS
<1>2. /\ w \in Seq(Piece) /\ c \in ReaderState
      /\ last_ \in [Key -> Nat] /\ frames_in \in Nat /\ \A k \in Key : last_[k] <= frames_in
      /\ Writes(b, w, c, last_, frames_in, z)
  BY <1>1, InvParts
<1>3. PICK r : /\ r = Flush(b, SockBuf - Len(w))
               /\ subs' = [subs EXCEPT ![s] = Arm(r.b)]
               /\ wire' = [wire EXCEPT ![s] = w \o r.sent]
  BY <1>1 DEF FlushArm, SockRoom
<1>4. Writes(r.b, w \o r.sent, c, last_, frames_in, z)
  BY <1>2, <1>3, FlushWrites
<1>5. PICK d, x : d = Arm(r.b) /\ x = w \o r.sent
  OBVIOUS
<1>6. Writes(d, x, c, last_, frames_in, z)
  BY <1>4, <1>5, ArmWrites
<1>7. Healthy(d, x, c, last_, frames_in, z) /\ d \in SubState /\ x \in Seq(Piece)
  <2>1. Healthy(d, x, c, last_, frames_in, z)
    BY <1>2, <1>6, WritesHealthy
  <2> QED BY <1>6, <2>1 DEF Writes
<1>8. reader' = [reader EXCEPT ![s] = c]
  <2>1. reader \in [Sub -> ReaderState]
    BY DEF CppInv
  <2> QED BY <1>1, <2>1
<1>9. subs' = [subs EXCEPT ![s] = d] /\ wire' = [wire EXCEPT ![s] = x]
  BY <1>3, <1>5
<1> QED BY <1>1, <1>2, <1>7, <1>8, <1>9, OneChanges

\* A subscriber that takes data again.
LEMMA WritableKeeps ==
    ASSUME CppInv, NEW s \in Sub, Writable(s)
    PROVE  CppInv'
<1>1. Writes(subs[s], wire[s], reader[s], last_, frames_in, s \in toClose)
  <2>1. /\ subs[s] \in SubState /\ wire[s] \in Seq(Piece) /\ reader[s] \in ReaderState
        /\ Healthy(subs[s], wire[s], reader[s], last_, frames_in, s \in toClose)
    BY InvParts
  <2>2. subs[s].state = "on"
    BY DEF Writable, Open
  <2> QED BY <2>1, <2>2, HealthyWrites
<1>2. FlushArm(s, subs[s]) /\ UNCHANGED <<reader, last_, frames_in, toClose>>
  BY DEF Writable
<1>3. Around'
  BY DEF Writable, CppInv, Around, loop
<1> QED BY <1>1, <1>2, <1>3, FlushArmKeeps

\* A new subscriber.
LEMMA AcceptKeeps ==
    ASSUME CppInv, NEW s \in Sub, AcceptSub(s)
    PROVE  CppInv'
<1>1. Healthy(subs[s], wire[s], reader[s], last_, frames_in, s \in toClose) /\ last_ \in [Key -> Nat]
  BY InvParts
<1>2. subs[s].state = "new"
  BY DEF AcceptSub
<1>3. wire[s] = <<>> /\ reader[s] = Unread /\ (s \in toClose) = FALSE
  BY <1>1, <1>2 DEF Healthy
<1>4. Writes(Accepted, <<>>, Unread, last_, frames_in, FALSE)
  BY <1>1, AcceptedWrites
<1>5. Writes(Accepted, wire[s], reader[s], last_, frames_in, s \in toClose)
  BY <1>3, <1>4
<1>6. FlushArm(s, Accepted) /\ UNCHANGED <<reader, last_, frames_in, toClose>>
  BY DEF AcceptSub, Accepted
<1>7. Around'
  BY DEF AcceptSub, CppInv, Around, loop
<1> QED BY <1>5, <1>6, <1>7, FlushArmKeeps

\* A subscriber reads.
LEMMA ReadStep ==
    ASSUME CppInv, NEW s \in Sub, Read(s)
    PROVE  CppInv'
<1>1. PICK b, w, c, z : b = subs[s] /\ w = wire[s] /\ c = reader[s] /\ z = (s \in toClose)
  OBVIOUS
<1>2. /\ b \in SubState /\ w \in Seq(Piece) /\ c \in ReaderState
      /\ last_ \in [Key -> Nat] /\ Healthy(b, w, c, last_, frames_in, z)
  BY <1>1, InvParts
<1>3. w # <<>>
  BY <1>1 DEF Read
<1>4. PICK d, x : d = Seen(c, Head(w)) /\ x = Tail(w)
  OBVIOUS
<1>5. d \in ReaderState /\ x \in Seq(Piece) /\ Healthy(b, x, d, last_, frames_in, z)
  BY <1>2, <1>3, <1>4, HealthyRead
<1>6. subs \in [Sub -> SubState] /\ wire \in [Sub -> Seq(Piece)] /\ reader \in [Sub -> ReaderState]
  BY DEF CppInv
<1>7. wire' = [wire EXCEPT ![s] = x] /\ UNCHANGED <<loop, frames_in, last_, subs, toClose, unsent>>
  BY <1>1, <1>4, <1>6 DEF Read
<1>8. reader' = [reader EXCEPT ![s] = d]
  <2>1. reader' = [reader EXCEPT ![s] = Seen(reader[s], Head(wire[s]))]
    BY DEF Read
  <2> QED BY <1>1, <1>4, <2>1
<1>9. subs' = [subs EXCEPT ![s] = b]
  BY <1>1, <1>6, <1>7
<1>10. Around'
  BY <1>7 DEF CppInv, Around, loop
<1> QED BY <1>1, <1>2, <1>5, <1>7, <1>8, <1>9, <1>10, OneChanges

\* Frames that arrive are nothing to a subscriber that is not there.
LEMMA HealthyApart ==
    ASSUME NEW b \in SubState, NEW w, NEW c, NEW l, NEW q, NEW n \in Nat, NEW m \in Nat, n <= m,
           NEW z, NEW y, z \/ ~y, Healthy(b, w, c, l, n, z), b.state # "on"
    PROVE  Healthy(b, w, c, q, m, y)
<1>1. ~z
  BY DEF Healthy
<1>2. \A k \in Key : b.pending[k] <= m
  <2>1. \A k \in Key : b.pending[k] \in Nat /\ b.pending[k] <= n
    BY SubParts DEF Healthy
  <2> QED BY <2>1
<1> QED BY <1>1, <1>2 DEF Healthy

\* A batch of the bus, for one subscriber that is there.
LEMMA BusOne ==
    ASSUME CppInv, NEW n \in Nat, NEW keys \in [1 .. n -> Key \cup {None}],
           NEW batch, Len(batch) = n, \A i \in 1 .. n : batch[i] = Frame(0, keys[i], frames_in + i),
           NEW s \in Open, NEW q, q = LastAt(keys, frames_in, last_, n), NEW m, m = frames_in + n,
           NEW g, g = FanoutAll(s, batch), NEW r, r = Flush(g, SockRoom(s)),
           NEW y, y = (s \in toClose \/ Doomed(g))
    PROVE  /\ Arm(r.b) \in SubState /\ wire[s] \o r.sent \in Seq(Piece)
           /\ Healthy(Arm(r.b), wire[s] \o r.sent, reader[s], q, m, y)
           /\ g \in SubState /\ Healthy(g, wire[s], reader[s], q, m, y)
<1>1. s \in Sub /\ subs[s].state = "on"
  BY DEF Open
<1>2. PICK b, w, c, z : b = subs[s] /\ w = wire[s] /\ c = reader[s] /\ z = (s \in toClose)
  OBVIOUS
<1>z. z \in BOOLEAN
  BY <1>2
<1>3. /\ b \in SubState /\ w \in Seq(Piece) /\ c \in ReaderState
      /\ last_ \in [Key -> Nat] /\ frames_in \in Nat /\ \A k \in Key : last_[k] <= frames_in
      /\ Healthy(b, w, c, last_, frames_in, z)
  BY <1>1, <1>2, InvParts
<1>4. Writes(b, w, c, last_, frames_in, z)
  BY <1>1, <1>2, <1>3, HealthyWrites
<1>5. Served(b, w, c, last_, z)
  BY <1>4 DEF Writes, Served
<1>6. g = Chained(b, z, batch)[n]
  BY <1>2, FanoutAllIs
<1>7. Served(g, w, c, q, z) /\ g.state = "on"
  <2>1. /\ Served(Chained(b, z, batch)[n], w, c, LastAt(keys, frames_in, last_, n), z)
        /\ Chained(b, z, batch)[n].state = b.state
    <3>1. Batched(batch, n, keys, frames_in)
      BY DEF Batched
    <3>2. ServedAs(b, Chained(b, z, batch)[n], w, c, LastAt(keys, frames_in, last_, n), z)
      BY <1>3, <1>5, <1>z, <3>1, BatchKeeps
    <3> QED BY <3>2 DEF ServedAs
  <2> QED BY <1>1, <1>2, <1>6, <2>1
<1>8. q \in [Key -> Nat] /\ m \in Nat /\ \A k \in Key : q[k] <= m
  <2>1. n \in 0 .. n
    OBVIOUS
  <2>2. /\ LastAt(keys, frames_in, last_, n) \in [Key -> Nat]
        /\ \A k \in Key : LastAt(keys, frames_in, last_, n)[k] <= frames_in + n
    BY <1>3, <2>1, LastTypes
  <2>3. frames_in + n \in Nat /\ frames_in <= frames_in + n
    BY <1>3
  <2> QED BY <1>3, <2>2, <2>3
<1>9. Writes(g, w, c, q, m, y)
  BY <1>2, <1>4, <1>7 DEF Writes, Served
<1>10. r = Flush(g, SockBuf - Len(w))
  BY <1>2 DEF SockRoom
<1>11. Writes(r.b, w \o r.sent, c, q, m, y)
  BY <1>8, <1>9, <1>10, FlushWrites
<1>12. Writes(Arm(r.b), w \o r.sent, c, q, m, y)
  BY <1>11, ArmWrites
<1>13. Healthy(Arm(r.b), w \o r.sent, c, q, m, y) /\ Healthy(g, w, c, q, m, y)
  BY <1>8, <1>9, <1>12, WritesHealthy
<1> QED BY <1>2, <1>9, <1>12, <1>13 DEF Writes

\* A batch of the bus, written to the subscribers or left with them.
LEMMA BatchKeepsInv ==
    ASSUME CppInv, NEW keys \in Batches, Arrive(keys), NEW cut \in BOOLEAN,
           NEW full, full = [s \in Open |-> FanoutAll(s, BatchOf(keys))],
           NEW r, r = [s \in Open |-> Flush(full[s], SockRoom(s))],
           subs' = [s \in Sub |-> IF s \in Open THEN IF cut THEN full[s] ELSE Arm(r[s].b)
                                  ELSE subs[s]],
           wire' = [s \in Sub |-> IF s \in Open /\ ~cut THEN wire[s] \o r[s].sent ELSE wire[s]],
           toClose' = toClose \cup {s \in Open : Doomed(full[s])}, unsent' \subseteq Sub,
           reader' = reader, at' = at, at = "wait", listening' = listening,
           bus' \in {"down", "connecting", "up"}
    PROVE  CppInv'
<1>1. PICK n \in Nat : keys \in [1 .. n -> Key \cup {None}]
  <2>1. PICK x \in 1 .. MaxBatch : keys \in [1 .. x -> Key \cup {None}]
    BY DEF Batches
  <2> QED BY <2>1
<1>2. keys \in Seq(Key \cup {None}) /\ Len(keys) = n /\ DOMAIN keys = 1 .. n
  BY <1>1
<1>3. PICK batch : batch = [i \in DOMAIN keys |-> Frame(0, keys[i], frames_in + i)]
  OBVIOUS
<1>4. Len(batch) = n /\ \A i \in 1 .. n : batch[i] = Frame(0, keys[i], frames_in + i)
  <2>1. batch = [i \in 1 .. n |-> Frame(0, keys[i], frames_in + i)]
    BY <1>2, <1>3
  <2> QED BY <1>1, <2>1
<1>5. PICK q, m : q = LastAt(keys, frames_in, last_, n) /\ m = frames_in + n
  OBVIOUS
<1>6. last_' = q /\ frames_in' = m
  <2>1. last_' = [k \in Key |-> IF {i \in DOMAIN keys : keys[i] = k} = {} THEN last_[k]
                                ELSE frames_in + Max({i \in DOMAIN keys : keys[i] = k})]
    BY DEF Arrive
  <2>2. last_' = [k \in Key |-> IF {i \in 1 .. n : keys[i] = k} = {} THEN last_[k]
                                ELSE frames_in + Max({i \in 1 .. n : keys[i] = k})]
    BY <1>2, <2>1
  <2> QED BY <1>2, <1>5, <2>2 DEF Arrive, LastAt
<1>7. full = [s \in Open |-> FanoutAll(s, batch)]
  BY <1>3 DEF BatchOf
<1>8. listening \in {"armed", "backoff", "closed"}
  BY DEF CppInv
<1>9. /\ last_ \in [Key -> Nat] /\ frames_in \in Nat /\ (\A k \in Key : last_[k] <= frames_in)
      /\ toClose \subseteq Sub /\ reader \in [Sub -> ReaderState]
  BY DEF CppInv
<1>10. q \in [Key -> Nat] /\ m \in Nat /\ frames_in <= m /\ \A k \in Key : q[k] <= m
  <2>1. n \in 0 .. n
    OBVIOUS
  <2>2. /\ LastAt(keys, frames_in, last_, n) \in [Key -> Nat]
        /\ \A k \in Key : LastAt(keys, frames_in, last_, n)[k] <= frames_in + n
    BY <1>1, <1>5, <1>9, <2>1, LastTypes
  <2>3. frames_in + n \in Nat /\ frames_in <= frames_in + n
    BY <1>1, <1>5, <1>9
  <2> QED BY <1>1, <1>5, <1>9, <2>2, <2>3
<1>11. ASSUME NEW s \in Sub
       PROVE  /\ subs'[s] \in SubState /\ wire'[s] \in Seq(Piece)
              /\ Healthy(subs'[s], wire'[s], reader[s], q, m, s \in toClose')
  <2>1. CASE s \in Open
    <3>1. PICK g, f, y : g = full[s] /\ f = r[s] /\ y = (s \in toClose \/ Doomed(g))
      OBVIOUS
    <3>2. g = FanoutAll(s, batch) /\ f = Flush(g, SockRoom(s))
      BY <1>7, <2>1, <3>1
    <3>3. /\ Arm(f.b) \in SubState /\ wire[s] \o f.sent \in Seq(Piece)
          /\ Healthy(Arm(f.b), wire[s] \o f.sent, reader[s], q, m, y)
          /\ g \in SubState /\ Healthy(g, wire[s], reader[s], q, m, y)
      BY <1>1, <1>4, <1>5, <2>1, <3>1, <3>2, BusOne, SMTT(60)
    <3>W. wire[s] \in Seq(Piece)
      BY InvParts
    <3>5. (s \in toClose') = y
      BY <2>1, <3>1
    <3>6. CASE cut
      <4>1. subs'[s] = g /\ wire'[s] = wire[s]
        BY <2>1, <3>1, <3>6
      <4> QED BY <3>3, <3>5, <3>W, <4>1
    <3>7. CASE ~cut
      <4>1. subs'[s] = Arm(f.b) /\ wire'[s] = wire[s] \o f.sent
        BY <2>1, <3>1, <3>7
      <4> QED BY <3>3, <3>5, <4>1
    <3> QED BY <3>6, <3>7
  <2>2. CASE s \notin Open
    <3>1. subs'[s] = subs[s] /\ wire'[s] = wire[s] /\ (s \in toClose') = (s \in toClose)
      BY <2>2
    <3>2. subs[s].state # "on"
      BY <2>2 DEF Open
    <3>3. /\ subs[s] \in SubState /\ wire[s] \in Seq(Piece)
          /\ Healthy(subs[s], wire[s], reader[s], last_, frames_in, s \in toClose)
      BY InvParts
    <3>4. Healthy(subs[s], wire[s], reader[s], q, m, s \in toClose)
      BY <1>9, <1>10, <3>2, <3>3, HealthyApart
    <3> QED BY <3>1, <3>3, <3>4
  <2> QED BY <2>1, <2>2
<1>12. subs' \in [Sub -> SubState] /\ wire' \in [Sub -> Seq(Piece)]
  <2>1. subs' = [s \in Sub |-> subs'[s]] /\ wire' = [s \in Sub |-> wire'[s]]
    OBVIOUS
  <2> QED BY <1>11, <2>1
<1>13. toClose' \subseteq Sub
  BY <1>9 DEF Open
<1> QED BY <1>6, <1>8, <1>9, <1>10, <1>11, <1>12, <1>13 DEF CppInv

\* A batch that is fanned out and written.
LEMMA OnBusKeeps ==
    ASSUME CppInv, NEW keys \in Batches, OnBus(keys)
    PROVE  CppInv'
<1>1. PICK full, r :
        /\ full = [s \in Open |-> FanoutAll(s, BatchOf(keys))]
        /\ r = [s \in Open |-> Flush(full[s], SockRoom(s))]
        /\ subs' = [s \in Sub |-> IF s \in Open THEN Arm(r[s].b) ELSE subs[s]]
        /\ wire' = [s \in Sub |-> IF s \in Open THEN wire[s] \o r[s].sent ELSE wire[s]]
        /\ toClose' = toClose \cup {s \in Open : Doomed(full[s])}
  BY DEF OnBus
<1>2. PICK cut \in BOOLEAN : cut = FALSE
  OBVIOUS
<1>3. /\ subs' = [s \in Sub |-> IF s \in Open THEN IF cut THEN full[s] ELSE Arm(r[s].b) ELSE subs[s]]
      /\ wire' = [s \in Sub |-> IF s \in Open /\ ~cut THEN wire[s] \o r[s].sent ELSE wire[s]]
  BY <1>1, <1>2
<1>4. /\ Arrive(keys) /\ unsent' \subseteq Sub /\ reader' = reader /\ at' = at /\ at = "wait"
      /\ listening' = listening /\ bus' \in {"down", "connecting", "up"}
  <2>1. bus' = bus /\ unsent' = {} /\ bus \in {"down", "connecting", "up"}
    BY DEF OnBus, loop, CppInv
  <2> QED BY <2>1 DEF OnBus, loop
<1>5. /\ full = [s \in Open |-> FanoutAll(s, BatchOf(keys))]
      /\ r = [s \in Open |-> Flush(full[s], SockRoom(s))]
      /\ toClose' = toClose \cup {s \in Open : Doomed(full[s])}
  BY <1>1
<1> QED BY <1>3, <1>4, <1>5, BatchKeepsInv

\* A batch behind which the bus breaks off.
LEMMA OnBusCutKeeps ==
    ASSUME CppInv, NEW keys \in Batches, OnBusCut(keys)
    PROVE  CppInv'
<1>1. PICK full :
        /\ full = [s \in Open |-> FanoutAll(s, BatchOf(keys))]
        /\ subs' = [s \in Sub |-> IF s \in Open THEN full[s] ELSE subs[s]]
        /\ toClose' = toClose \cup {s \in Open : Doomed(full[s])}
        /\ unsent' = unsent \cup {s \in Open : Backlog(full[s]) /\ ~full[s].armed}
  BY DEF OnBusCut
<1>2. PICK cut \in BOOLEAN : cut = TRUE
  OBVIOUS
<1>3. PICK r : r = [s \in Open |-> Flush(full[s], SockRoom(s))]
  OBVIOUS
<1>4. wire \in [Sub -> Seq(Piece)] /\ wire' = wire /\ unsent \subseteq Sub
  BY DEF OnBusCut, CppInv
<1>5. /\ subs' = [s \in Sub |-> IF s \in Open THEN IF cut THEN full[s] ELSE Arm(r[s].b) ELSE subs[s]]
      /\ wire' = [s \in Sub |-> IF s \in Open /\ ~cut THEN wire[s] \o r[s].sent ELSE wire[s]]
      /\ unsent' \subseteq Sub
  BY <1>1, <1>2, <1>4 DEF Open
<1>6. /\ Arrive(keys) /\ reader' = reader /\ at' = at /\ at = "wait"
      /\ listening' = listening /\ bus' \in {"down", "connecting", "up"}
  BY DEF OnBusCut
<1> QED BY <1>1, <1>3, <1>5, <1>6, BatchKeepsInv

\* A subscriber that hangs up.
LEMMA HangUpKeeps ==
    ASSUME CppInv, NEW s \in Sub, HangUp(s)
    PROVE  CppInv'
<1>1. /\ s \in Open /\ at = "wait" /\ toClose' = toClose \cup {s}
      /\ UNCHANGED <<at, listening, bus, frames_in, last_, subs, wire, reader>>
  BY DEF HangUp, loop
<1>2. ASSUME NEW t \in Sub
      PROVE  Healthy(subs[t], wire[t], reader[t], last_, frames_in, t \in toClose')
  <2>1. Healthy(subs[t], wire[t], reader[t], last_, frames_in, t \in toClose)
    BY InvParts
  <2>2. CASE t = s
    <3>1. subs[t].state = "on"
      BY <1>1, <2>2 DEF Open
    <3>2. (t \in toClose') = TRUE
      BY <1>1, <2>2
    <3>3. Healthy(subs[t], wire[t], reader[t], last_, frames_in, TRUE)
      BY <2>1, <3>1 DEF Healthy
    <3> QED BY <3>2, <3>3
  <2>3. CASE t # s
    <3>1. (t \in toClose') = (t \in toClose)
      BY <1>1, <2>3
    <3> QED BY <2>1, <3>1
  <2> QED BY <2>2, <2>3
<1>3. toClose' \subseteq Sub
  BY <1>1 DEF CppInv
<1>4. unsent' = unsent
  BY DEF HangUp
<1> QED BY <1>1, <1>2, <1>3, <1>4 DEF CppInv

\* Subscribers that go, all that were to go among them.
LEMMA GoneKeeps ==
    ASSUME CppInv, NEW S, toClose \subseteq S, subs' = Gone(S), toClose' = {}, Around',
           UNCHANGED <<wire, reader, last_, frames_in>>
    PROVE  CppInv'
<1>1. subs' = [s \in Sub |-> IF s \in S THEN [NewSub EXCEPT !.state = "gone"] ELSE subs[s]]
  BY DEF Gone
<1>2. ASSUME NEW s \in Sub
      PROVE  subs'[s] \in SubState /\ Healthy(subs'[s], wire[s], reader[s], last_, frames_in, s \in toClose')
  <2>1. /\ subs[s] \in SubState /\ wire[s] \in Seq(Piece) /\ frames_in \in Nat
        /\ Healthy(subs[s], wire[s], reader[s], last_, frames_in, s \in toClose)
        /\ Len(wire[s]) <= SockBuf
    BY InvParts
  <2>2. (s \in toClose') = FALSE
    OBVIOUS
  <2>3. CASE s \in S
    <3>1. PICK b : b = [NewSub EXCEPT !.state = "gone"]
      OBVIOUS
    <3>2. b \in SubState /\ Healthy(b, wire[s], reader[s], last_, frames_in, FALSE)
      BY <2>1, <3>1, GoneHealthy
    <3>3. subs'[s] = b
      BY <1>1, <2>3, <3>1
    <3> QED BY <2>2, <3>2, <3>3
  <2>4. CASE s \notin S
    <3>1. subs'[s] = subs[s] /\ (s \in toClose) = FALSE
      BY <1>1, <2>4
    <3> QED BY <2>1, <2>2, <3>1
  <2> QED BY <2>3, <2>4
<1>3. subs' \in [Sub -> SubState]
  <2>1. subs' = [s \in Sub |-> subs'[s]]
    BY <1>1
  <2> QED BY <1>2, <2>1
<1> QED BY <1>2, <1>3 DEF CppInv, Around

\* The subscribers that are to go are there.
LEMMA ToCloseOpen == CppInv => toClose \subseteq Open
<1> SUFFICES ASSUME CppInv, NEW s \in toClose PROVE s \in Open
  OBVIOUS
<1>1. s \in Sub
  BY DEF CppInv
<1>2. subs[s].state = "on"
  BY <1>1, InvParts
<1> QED BY <1>1, <1>2 DEF Open

\* The end of an iteration.
LEMMA EndWaitKeeps == CppInv /\ EndWait => CppInv'
<1> SUFFICES ASSUME CppInv, EndWait PROVE CppInv'
  OBVIOUS
<1>1. PICK S : S = IF g_stop /\ ~draining THEN Open ELSE toClose
  OBVIOUS
<1>2. toClose \subseteq S
  BY <1>1, ToCloseOpen
<1>3. subs' = Gone(S) /\ toClose' = {} /\ UNCHANGED <<wire, reader, last_, frames_in>>
  BY <1>1 DEF EndWait
<1>4. Around'
  BY DEF EndWait, CppInv, Around
<1> QED BY <1>2, <1>3, <1>4, GoneKeeps

\* The top of an iteration.
LEMMA LoopBodyKeeps == CppInv /\ LoopBody => CppInv'
<1> SUFFICES ASSUME CppInv, LoopBody PROVE CppInv'
  OBVIOUS
<1>1. toClose = {} /\ UNCHANGED <<wire, reader, last_, frames_in, toClose>>
  BY DEF LoopBody, CppInv
<1>2. Around'
  BY <1>1 DEF LoopBody, CppInv, Around
<1>3. CASE subs' = subs
  BY <1>1, <1>2, <1>3, NobodyChanges
<1>4. CASE subs' = Gone(Open)
  BY <1>1, <1>2, <1>4, GoneKeeps
<1> QED BY <1>3, <1>4 DEF LoopBody

\* Every step keeps the invariant.
LEMMA NextSound == CppInv /\ [CppNext]_cppVars => CppInv'
<1> SUFFICES ASSUME CppInv, [CppNext]_cppVars PROVE CppInv'
  OBVIOUS
<1>1. ASSUME UNCHANGED <<subs, wire, reader, last_, frames_in, toClose>>, Around' PROVE CppInv'
  BY <1>1, NobodyChanges
<1>2. CASE ConnectBus
  <2>1. Around'
    BY <1>2 DEF ConnectBus, CppInv, Around
  <2> QED BY <1>1, <1>2, <2>1 DEF ConnectBus
<1>3. CASE BusFails
  <2>1. Around'
    BY <1>3 DEF BusFails, CppInv, Around
  <2> QED BY <1>1, <1>3, <2>1 DEF BusFails
<1>4. CASE AcceptFails
  <2>1. Around'
    BY <1>4 DEF AcceptFails, CppInv, Around
  <2> QED BY <1>1, <1>4, <2>1 DEF AcceptFails
<1>5. CASE Signal
  <2>1. Around'
    BY <1>5 DEF Signal, CppInv, Around
  <2> QED BY <1>1, <1>5, <2>1 DEF Signal
<1>6. CASE DrainTimePasses
  <2>1. Around'
    BY <1>6 DEF DrainTimePasses, CppInv, Around
  <2> QED BY <1>1, <1>6, <2>1 DEF DrainTimePasses
<1>7. CASE UNCHANGED cppVars
  <2>1. Around'
    BY <1>7 DEF cppVars, loop, CppInv, Around
  <2> QED BY <1>1, <1>7, <2>1 DEF cppVars
<1>8. CASE \E keys \in Batches : OnBus(keys) \/ OnBusCut(keys)
  BY <1>8, OnBusKeeps, OnBusCutKeeps
<1>9. CASE EndWait
  BY <1>9, EndWaitKeeps
<1>10. CASE LoopBody
  BY <1>10, LoopBodyKeeps
<1>11. ASSUME NEW s \in Sub,
              \/ AcceptSub(s) \/ Writable(s) \/ HangUp(s) \/ Read(s)
              \/ \E t \in Token \cup {None}, want \in SUBSET Key, c \in BOOLEAN : Subscribe(s, t, want, c)
       PROVE  CppInv'
  <2>1. CASE AcceptSub(s)
    BY <2>1, AcceptKeeps
  <2>2. CASE Writable(s)
    BY <2>2, WritableKeeps
  <2>3. CASE HangUp(s)
    BY <2>3, HangUpKeeps
  <2>4. CASE Read(s)
    BY <2>4, ReadStep
  <2>5. CASE \E t \in Token \cup {None}, want \in SUBSET Key, c \in BOOLEAN : Subscribe(s, t, want, c)
    BY <2>5, SubscribeKeeps
  <2> QED BY <1>11, <2>1, <2>2, <2>3, <2>4, <2>5
<1> QED BY <1>2, <1>3, <1>4, <1>5, <1>6, <1>7, <1>8, <1>9, <1>10, <1>11 DEF CppNext

\* cpp/src/tcp_gateway.cpp: the inductive invariant of the subscribers' queues and sockets.
THEOREM CppInvariant == CppSpec => []CppInv
  BY InitSound, NextSound, PTL DEF CppSpec

-----------------------------------------------------------------------------
(* What the invariant promises.                                            *)

\* A subscriber that is there is sound, and has its newest values unless it is to go.
LEMMA OpenSound ==
    ASSUME CppInv, NEW s \in Open
    PROVE  /\ s \in Sub /\ subs[s] \in SubState /\ wire[s] \in Seq(Piece) /\ reader[s] \in ReaderState
           /\ Sound(subs[s], wire[s], reader[s], last_)
           /\ s \notin toClose => Newest(subs[s], Tape(subs[s], wire[s]), reader[s], last_)
           /\ UnderWay(s) = Tape(subs[s], wire[s])
<1>1. s \in Sub /\ subs[s].state = "on"
  BY DEF Open
<1>2. /\ subs[s] \in SubState /\ wire[s] \in Seq(Piece) /\ reader[s] \in ReaderState
      /\ Healthy(subs[s], wire[s], reader[s], last_, frames_in, s \in toClose)
  BY <1>1, InvParts
<1>3. UnderWay(s) = Tape(subs[s], wire[s])
  BY DEF UnderWay, Tape
<1> QED BY <1>1, <1>2, <1>3 DEF Healthy

\* The types and the bounds.
LEMMA InvTypes == CppInv => CppTypes
<1> SUFFICES ASSUME CppInv PROVE CppTypes
  OBVIOUS
<1>1. last_ \in [Key -> 0 .. frames_in]
  BY DEF CppInv
<1>2. ASSUME NEW s \in Sub
      PROVE  /\ subs[s].state \in {"new", "on", "gone"} /\ subs[s].symbols \subseteq Key
             /\ Len(subs[s].queue) <= client_queue /\ Len(wire[s]) <= SockBuf
             /\ subs[s].pending \in [Key -> 0 .. frames_in]
             /\ Doomed(subs[s]) => s \in toClose
  <2>1. PICK b : b = subs[s]
    OBVIOUS
  <2>2. b \in SubState /\ frames_in \in Nat /\ Healthy(b, wire[s], reader[s], last_, frames_in, s \in toClose)
    BY <2>1, InvParts
  <2>3. b.state \in {"new", "on", "gone"} /\ b.symbols \subseteq Key /\ b.pending \in [Key -> Nat]
    BY <2>2, SubParts
  <2>4. b.pending \in [Key -> 0 .. frames_in]
    BY <2>2, <2>3 DEF Healthy
  <2> QED BY <2>1, <2>2, <2>3, <2>4 DEF Healthy
<1>3. toClose \subseteq Open
  BY ToCloseOpen
<1> QED BY <1>1, <1>2, <1>3 DEF CppTypes, CppInv

\* The numbers.
LEMMA InvNumbers == CppInv => NumbersAccounted
<1> SUFFICES ASSUME CppInv, NEW s \in Open
             PROVE  LET u == UnderWay(s)
                    IN  /\ \A i \in WithNumber(u) : u[i].num >= reader[s].next /\ u[i].num < subs[s].out
                        /\ \A i, j \in WithNumber(u) : i < j => u[i].num < u[j].num
                        /\ subs[s].out = reader[s].next - reader[s].gaps + Cardinality(WithNumber(u)) + subs[s].lost
  BY DEF NumbersAccounted
<1>1. PICK u, b, c : u = UnderWay(s) /\ b = subs[s] /\ c = reader[s]
  OBVIOUS
<1>2. Rising(u, c, b.out) /\ Balanced(u, c, b.out, b.lost) /\ u \in Seq(Piece) /\ c.next \in Nat
  <2>1. Sound(b, wire[s], c, last_) /\ u = Tape(b, wire[s]) /\ b \in SubState /\ wire[s] \in Seq(Piece) /\ c \in ReaderState
    BY <1>1, OpenSound
  <2>2. u \in Seq(Piece)
    BY <2>1, TapeParts
  <2> QED BY <2>1, <2>2 DEF Sound, ReaderState
<1>3. \A i \in WithNumber(u) : u[i].num >= c.next /\ u[i].num < b.out
  <2>1. \A i \in WithNumber(u) : u[i].num \in Nat
    BY <1>2, PieceSeq
  <2> QED BY <1>2, <2>1 DEF Rising
<1>4. \A i, j \in WithNumber(u) : i < j => u[i].num < u[j].num
  BY <1>2 DEF Rising
<1>5. b.out = c.next - c.gaps + Cardinality(WithNumber(u)) + b.lost
  BY <1>2 DEF Balanced
<1> QED BY <1>1, <1>3, <1>4, <1>5

\* The places in a queue.
LEMMA InvPlaces == CppInv => OneWaitingPerKey
<1> SUFFICES ASSUME CppInv, NEW s \in Open, NEW k \in Key, subs[s].conflate
             PROVE  Cardinality({i \in DOMAIN subs[s].queue : subs[s].queue[i].key = k}) =
                        IF subs[s].pending[k] = 0 THEN 0 ELSE 1
  BY DEF OneWaitingPerKey
<1>1. PICK b, T : b = subs[s] /\ T = {i \in DOMAIN b.queue : b.queue[i].key = k}
  OBVIOUS
<1>2. PICK u : Merged(b, u, reader[s], last_)
  <2>1. Sound(b, wire[s], reader[s], last_)
    BY <1>1, OpenSound
  <2> QED BY <2>1 DEF Sound
<1>3. CASE b.pending[k] = 0
  <2>1. T = {}
    BY <1>1, <1>2, <1>3 DEF Merged
  <2>2. Cardinality(T) = 0
    BY <2>1, FS_EmptySet
  <2> QED BY <1>1, <1>3, <2>2
<1>4. CASE b.pending[k] # 0
  <2>1. PICK i \in DOMAIN b.queue : \A j \in DOMAIN b.queue : b.queue[j].key = k <=> j = i
    BY <1>2, <1>4 DEF Merged
  <2>2. T = {i}
    BY <1>1, <2>1
  <2>3. Cardinality(T) = 1
    BY <2>2, FS_Singleton
  <2> QED BY <1>1, <1>4, <2>3
<1> QED BY <1>3, <1>4

\* The newest values.
LEMMA InvNewest == CppInv => NewestIsUnderWay
<1> SUFFICES ASSUME CppInv, NEW s \in Open \ toClose, NEW k \in subs[s].symbols,
                    subs[s].dropped = 0, last_[k] > subs[s].since[k]
             PROVE  \/ reader[s].view[k] = last_[k] \/ subs[s].pending[k] = last_[k]
                    \/ \E i \in DOMAIN UnderWay(s) : Brings(UnderWay(s)[i], k) = last_[k]
  BY DEF NewestIsUnderWay
<1>1. Newest(subs[s], UnderWay(s), reader[s], last_)
  BY OpenSound
<1> QED BY <1>1 DEF Newest, Carries

\* The rights.
LEMMA InvRights == CppInv => EntitledOnly
<1> SUFFICES ASSUME CppInv, NEW s \in Open, NEW k \in Key \ subs[s].granted
             PROVE  /\ reader[s].view[k] = 0 /\ subs[s].pending[k] = 0
                    /\ \A f \in Range(wire[s] \o subs[s].wbuf \o subs[s].queue) :
                          f.key # k /\ (f.num = None => f.ver[k] = 0)
  BY DEF EntitledOnly
<1>1. PICK w, x, q : w = wire[s] /\ x = subs[s].wbuf /\ q = subs[s].queue
  OBVIOUS
<1>2. /\ reader[s].view[k] = 0 /\ subs[s].pending[k] = 0
      /\ Without(w, k) /\ Without(x, k) /\ Without(q, k)
  <2>1. Entitled(subs[s], wire[s], reader[s])
    BY OpenSound DEF Sound
  <2> QED BY <1>1, <2>1 DEF Entitled
<1>3. w \in Seq(Piece) /\ x \in Seq(Piece) /\ q \in Seq(Piece)
  <2>1. subs[s] \in SubState /\ wire[s] \in Seq(Piece)
    BY OpenSound
  <2> QED BY <1>1, <2>1, SubParts
<1>4. PICK y, z : y = w \o x /\ z = y \o q
  OBVIOUS
<1>5. y \in Seq(Piece) /\ Without(y, k)
  <2>1. y \in Seq(Piece)
    BY <1>3, <1>4, ConcatProperties
  <2>2. Without(w \o x, k)
    BY <1>2, <1>3, WithoutConcat
  <2> QED BY <1>4, <2>1, <2>2
<1>6. Without(z, k)
  BY <1>2, <1>3, <1>4, <1>5, WithoutConcat
<1>7. ASSUME NEW f \in Range(z) PROVE f.key # k /\ (f.num = None => f.ver[k] = 0)
  <2>1. PICK i \in DOMAIN z : f = z[i]
    BY DEF Range
  <2>2. f.key # k /\ Brings(f, k) = 0
    BY <1>6, <2>1 DEF Without
  <2> QED BY <2>2 DEF Brings
<1> QED BY <1>1, <1>2, <1>4, <1>7

\* cpp/src/tcp_gateway.cpp: whatever is fanned out, merged, thrown away, cut off, granted or
\* refused, what each subscriber reads and is about to read is accounted for.
THEOREM SubscribersStaySound == CppSpec => []SubscribersAreSound
<1>1. CppInv => SubscribersAreSound
  BY InvTypes, InvNumbers, InvPlaces, InvNewest, InvRights DEF SubscribersAreSound
<1> QED BY <1>1, CppInvariant, PTL
=============================================================================
