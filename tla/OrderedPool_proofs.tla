------------------------- MODULE OrderedPool_proofs -------------------------
(***************************************************************************)
(* for_each_ordered emits every result in order, for every number of       *)
(* indices and workers.                                                    *)
(***************************************************************************)
EXTENDS OrderedPool, TLAPS

InChannel(i) == \E k \in 1..Len(channel) : channel[k].idx = i
Holds(w, i) == worker[w].pc = "job" /\ worker[w].idx = i

\* The receiver lives exactly as long as the loop over it.
MainOK ==
  /\ receiver <=> main \in {"spawn", "recv", "drain"}
  /\ main \in {"recv", "drain", "join", "returned"} => \A w \in Workers : worker[w].pc # "unborn"
  /\ main \in {"spawn", "recv", "join", "returned"} => ~HasNext
  /\ main \in {"join", "returned"} => channel = <<>> /\ \A w \in Workers : Gone(w)
  /\ main = "returned" => \A w \in Workers : worker[w].pc # "died"
  /\ main = "panicked" => \A w \in Workers : ~Live(w)

\* What is on its way carries its job's result and was not emitted yet.
PendingOK == \A i \in Indices : pending[i] # None => i >= want /\ pending[i] = result[i]
ChannelOK ==
  /\ \A k \in 1..Len(channel) :
       /\ channel[k].idx >= want
       /\ channel[k].val = result[channel[k].idx]
       /\ pending[channel[k].idx] = None
  /\ \A k, l \in 1..Len(channel) : channel[k].idx = channel[l].idx => k = l

\* An index belongs to one worker, and has no result while it does.
ClaimOK ==
  /\ \A w \in Workers, i \in Indices : Holds(w, i) => i < next /\ result[i] = None
  /\ \A v, w \in Workers, i \in Indices : Holds(v, i) /\ Holds(w, i) => v = w
  /\ \A i \in Indices : i >= next => result[i] = None
  /\ \A w \in Workers : worker[w].pc = "exited" =>
       next >= Count \/ main \in {"unwinding", "panicked"}

\* Nothing is lost: a claimed index is done, being worked on, or its worker
\* died; a result was emitted, waits its turn, or is in the channel.
Conserved ==
  /\ \A i \in Indices : i < next =>
       result[i] # None \/ (\E w \in Workers : Holds(w, i)) \/ (\E w \in Workers : worker[w].pc = "died")
  /\ main \notin {"unwinding", "panicked"} =>
       \A i \in Indices : result[i] # None => i < want \/ pending[i] # None \/ InChannel(i)

IInv == TypeOK /\ EmittedInOrder /\ MainOK /\ PendingOK /\ ChannelOK /\ ClaimOK /\ Conserved

---------------------------------------------------------------------------
(* The channel as a sequence. *)

\* What receiving leaves in the channel.
LEMMA TailOfChannel ==
  ASSUME channel \in Seq(Message), channel # <<>>
  PROVE  /\ Len(channel) \in Nat \ {0}
         /\ Head(channel) = channel[1] /\ channel[1] \in Message
         /\ Tail(channel) \in Seq(Message)
         /\ Len(Tail(channel)) = Len(channel) - 1
         /\ \A k \in 1..(Len(channel) - 1) : Tail(channel)[k] = channel[k + 1]
  OBVIOUS

\* What sending leaves in the channel.
LEMMA AppendToChannel ==
  ASSUME channel \in Seq(Message), NEW m \in Message
  PROVE  /\ Append(channel, m) \in Seq(Message)
         /\ Len(Append(channel, m)) = Len(channel) + 1 /\ Len(channel) \in Nat
         /\ \A k \in 1..Len(channel) : Append(channel, m)[k] = channel[k]
         /\ Append(channel, m)[Len(channel) + 1] = m
  OBVIOUS

\* Messages carry an index and a result.
LEMMA MessageInChannel ==
  ASSUME channel \in Seq(Message), NEW k \in 1..Len(channel)
  PROVE  channel[k].idx \in Indices /\ channel[k].val \in Results
<1>1. channel[k] \in Message
  OBVIOUS
<1>2. QED
  BY <1>1 DEF Message

\* A worker that runs a job holds one index.
LEMMA JobHasIndex ==
  ASSUME TypeOK, NEW w \in Workers, worker[w].pc = "job"
  PROVE  worker[w].idx \in Indices /\ Holds(w, worker[w].idx)
  BY DEF TypeOK, WorkerStates, Simple, Running, Holds

---------------------------------------------------------------------------
(* One lemma per action: the calling thread. *)

\* The call starts with nothing spawned, claimed or emitted.
LEMMA InitStep == Init => IInv
  BY CountAssumption DEF Init, IInv, TypeOK, WorkerStates, Simple, Running, EmittedInOrder, MainOK,
     HasNext, Gone, PendingOK, ChannelOK, ClaimOK, Holds, Conserved, Indices, Message

\* s.spawn starts a worker that holds no index.
LEMMA SpawnStep ==
  ASSUME IInv, NEW x \in Workers, Spawn(x) PROVE IInv'
<1> USE DEF IInv, Spawn, Simple
<1>1. TypeOK'
  BY DEF TypeOK, WorkerStates
<1>2. MainOK'
  BY DEF MainOK, HasNext, Gone, Live, TypeOK
<1>3. ClaimOK' /\ Conserved'
  BY DEF ClaimOK, Conserved, Holds, InChannel, TypeOK
<1>4. EmittedInOrder' /\ PendingOK' /\ ChannelOK'
  BY DEF EmittedInOrder, PendingOK, ChannelOK
<1>5. QED
  BY <1>1, <1>2, <1>3, <1>4

\* A spawn that panics drops the receiver and unwinds the scope.
LEMMA SpawnFailsStep ==
  ASSUME IInv, SpawnFails PROVE IInv'
<1> USE DEF IInv, SpawnFails
<1>1. TypeOK'
  BY DEF TypeOK
<1>2. MainOK' /\ ClaimOK' /\ Conserved'
  BY DEF MainOK, HasNext, Gone, Live, ClaimOK, Conserved, Holds, InChannel
<1>3. EmittedInOrder' /\ PendingOK' /\ ChannelOK'
  BY DEF EmittedInOrder, PendingOK, ChannelOK
<1>4. QED
  BY <1>1, <1>2, <1>3

\* drop(send) changes nothing the workers or the results depend on.
LEMMA DropSendStep ==
  ASSUME IInv, DropSend PROVE IInv'
<1> USE DEF IInv, DropSend
<1>1. TypeOK'
  BY DEF TypeOK
<1>2. MainOK' /\ ClaimOK' /\ Conserved'
  BY DEF MainOK, HasNext, Gone, Live, ClaimOK, Conserved, Holds, InChannel
<1>3. EmittedInOrder' /\ PendingOK' /\ ChannelOK'
  BY DEF EmittedInOrder, PendingOK, ChannelOK
<1>4. QED
  BY <1>1, <1>2, <1>3

\* A received message moves from the channel to pending.
LEMMA ReceiveStep ==
  ASSUME IInv, Receive PROVE IInv'
<1> DEFINE i == channel[1].idx
<1>1. /\ channel \in Seq(Message) /\ channel # <<>>
      /\ pending \in [Indices -> Results \cup {None}]
      /\ pending' = [pending EXCEPT ![Head(channel).idx] = Head(channel).val]
      /\ channel' = Tail(channel)
      /\ main = "recv" /\ main' = "drain"
      /\ UNCHANGED <<next, worker, receiver, want, emitted, result>>
  BY DEF IInv, TypeOK, Receive
<1>2. /\ Len(channel) \in Nat \ {0} /\ Head(channel) = channel[1]
      /\ i \in Indices /\ channel[1].val \in Results
      /\ channel' \in Seq(Message) /\ Len(channel') = Len(channel) - 1
      /\ \A k \in 1..Len(channel') : channel'[k] = channel[k + 1]
  BY <1>1, TailOfChannel DEF Message
<1>3. /\ pending'[i] = channel[1].val
      /\ \A j \in Indices : j # i => pending'[j] = pending[j]
      /\ pending' \in [Indices -> Results \cup {None}]
  BY <1>1, <1>2
<1>4. /\ i >= want /\ channel[1].val = result[i] /\ pending[i] = None
      /\ \A k \in 2..Len(channel) : channel[k].idx # i
  BY <1>2 DEF IInv, ChannelOK
<1> HIDE DEF i
<1>5. TypeOK'
  BY <1>1, <1>2, <1>3 DEF IInv, TypeOK
<1>6. EmittedInOrder' /\ MainOK' /\ ClaimOK'
  BY <1>1 DEF IInv, EmittedInOrder, MainOK, Gone, Live, ClaimOK, Holds
<1>7. PendingOK'
  BY <1>1, <1>3, <1>4 DEF IInv, PendingOK
<1>8. ChannelOK'
  <2> SUFFICES ASSUME NEW k \in 1..Len(channel')
               PROVE  /\ channel'[k].idx >= want
                      /\ channel'[k].val = result[channel'[k].idx]
                      /\ pending'[channel'[k].idx] = None
                      /\ \A l \in 1..Len(channel') : channel'[k].idx = channel'[l].idx => k = l
    BY <1>1 DEF ChannelOK
  <2>1. /\ k + 1 \in 1..Len(channel) /\ channel'[k] = channel[k + 1]
        /\ channel[k + 1].idx # i /\ channel[k + 1].idx \in Indices
    <3>1. k + 1 \in 2..Len(channel) /\ channel'[k] = channel[k + 1]
      BY <1>2
    <3>2. k + 1 \in 1..Len(channel)
      BY <3>1, <1>2
    <3>3. QED
      BY <3>1, <3>2, <1>1, <1>4, MessageInChannel
  <2>2. \A l \in 1..Len(channel') : l + 1 \in 1..Len(channel) /\ channel'[l] = channel[l + 1]
    BY <1>2
  <2>3. /\ channel[k + 1].idx >= want
        /\ channel[k + 1].val = result[channel[k + 1].idx]
        /\ pending'[channel[k + 1].idx] = None
    BY <2>1, <1>3 DEF IInv, ChannelOK
  <2>4. \A l \in 1..Len(channel') : channel[k + 1].idx = channel[l + 1].idx => k + 1 = l + 1
    BY <2>1, <2>2 DEF IInv, ChannelOK
  <2>5. \A l \in 1..Len(channel') : channel'[k].idx = channel'[l].idx => k = l
    BY <2>1, <2>2, <2>4, <1>2
  <2>6. QED
    BY <2>1, <2>3, <2>5
<1>9. Conserved'
  <2>1. ASSUME NEW j \in Indices, InChannel(j), j # i PROVE InChannel(j)'
    <3>1. PICK k \in 1..Len(channel) : channel[k].idx = j
      BY <2>1 DEF InChannel
    <3>2. k # 1 /\ k - 1 \in 1..Len(channel') /\ channel'[k - 1] = channel[k]
      BY <3>1, <2>1, <1>2 DEF i
    <3>3. QED
      BY <3>1, <3>2 DEF InChannel
  <2>2. pending'[i] # None
    BY <1>2, <1>3, CountAssumption
  <2>3. QED
    BY <2>1, <2>2, <1>1, <1>3 DEF IInv, Conserved, Holds
<1>10. QED
  BY <1>5, <1>6, <1>7, <1>8, <1>9 DEF IInv

\* The next pending result is emitted and want advances past it.
LEMMA EmitStep ==
  ASSUME IInv, Emit PROVE IInv'
<1> USE DEF IInv, Emit
<1>0. want \in Indices /\ pending[want] \in Results /\ pending[want] = result[want]
  BY CountAssumption DEF TypeOK, HasNext, Indices, PendingOK
<1> DEFINE call == [idx |-> want, val |-> pending[want]]
<1>1. TypeOK'
  <2>1. emitted' \in Seq(Message)
    <3>1. call \in Message
      BY <1>0 DEF Message
    <3>2. QED
      BY <3>1 DEF TypeOK
  <2>2. QED
    BY <1>0, <2>1, CountAssumption DEF TypeOK, Indices
<1>2. EmittedInOrder'
  <2>1. /\ Len(emitted) = want /\ want \in Nat /\ Len(emitted') = want + 1
        /\ emitted'[want + 1] = call /\ \A k \in 1..want : emitted'[k] = emitted[k]
    BY <1>0 DEF TypeOK, EmittedInOrder, Indices
  <2>2. call.idx = (want + 1) - 1 /\ call.val = result[(want + 1) - 1]
    BY <1>0, <2>1
  <2>3. \A k \in 1..Len(emitted') : k \in 1..want \/ k = want + 1
    BY <2>1
  <2> HIDE DEF call
  <2>4. QED
    BY <2>1, <2>2, <2>3 DEF EmittedInOrder
<1>3. MainOK' /\ ClaimOK'
  BY DEF MainOK, ClaimOK, Holds, Gone, Live
<1>4. PendingOK'
  BY <1>0 DEF TypeOK, PendingOK, Indices
<1>5. ChannelOK'
  <2> SUFFICES ASSUME NEW k \in 1..Len(channel)
               PROVE  channel[k].idx >= want' /\ pending'[channel[k].idx] = None
    BY DEF ChannelOK
  <2>1. /\ channel[k].idx \in Indices /\ channel[k].idx >= want
        /\ pending[channel[k].idx] = None
    BY MessageInChannel DEF ChannelOK, TypeOK
  <2>2. channel[k].idx # want
    BY <2>1, <1>0 DEF HasNext
  <2>3. QED
    BY <2>1, <2>2, <1>0 DEF TypeOK, Indices
<1>6. Conserved'
  BY <1>0 DEF TypeOK, Conserved, Holds, InChannel, Indices
<1>7. QED
  BY <1>1, <1>2, <1>3, <1>4, <1>5, <1>6

\* A panic of emit drops the receiver with everything under way.
LEMMA EmitPanicsStep ==
  ASSUME IInv, EmitPanics PROVE IInv'
<1> USE DEF IInv, EmitPanics
<1>1. TypeOK'
  BY DEF TypeOK, HasNext
<1>2. EmittedInOrder' /\ MainOK' /\ ClaimOK' /\ Conserved'
  BY DEF EmittedInOrder, MainOK, ClaimOK, Conserved, Holds, Gone, Live
<1>3. PendingOK' /\ ChannelOK'
  BY MessageInChannel DEF TypeOK, PendingOK, ChannelOK
<1>4. QED
  BY <1>1, <1>2, <1>3

\* The inner loop ends when the next index is not pending.
LEMMA DrainedStep ==
  ASSUME IInv, Drained PROVE IInv'
<1> USE DEF IInv, Drained
<1>1. TypeOK'
  BY DEF TypeOK
<1>2. MainOK' /\ ClaimOK' /\ Conserved'
  BY DEF MainOK, HasNext, Gone, Live, ClaimOK, Conserved, Holds, InChannel
<1>3. EmittedInOrder' /\ PendingOK' /\ ChannelOK'
  BY DEF EmittedInOrder, PendingOK, ChannelOK
<1>4. QED
  BY <1>1, <1>2, <1>3

\* The channel is empty and every sender is gone.
LEMMA DisconnectStep ==
  ASSUME IInv, Disconnect PROVE IInv'
<1> USE DEF IInv, Disconnect
<1>1. TypeOK'
  BY DEF TypeOK
<1>2. MainOK' /\ ClaimOK' /\ Conserved'
  BY DEF MainOK, HasNext, Gone, Live, ClaimOK, Conserved, Holds, InChannel
<1>3. EmittedInOrder' /\ PendingOK' /\ ChannelOK'
  BY DEF EmittedInOrder, PendingOK, ChannelOK
<1>4. QED
  BY <1>1, <1>2, <1>3

\* The scope joins every worker, and panics if one of them did.
LEMMA JoinStep ==
  ASSUME IInv, Join PROVE IInv'
<1> USE DEF IInv, Join
<1>1. TypeOK'
  BY DEF TypeOK
<1>2. MainOK' /\ ClaimOK' /\ Conserved'
  BY DEF MainOK, HasNext, Gone, Live, ClaimOK, Conserved, Holds, InChannel
<1>3. EmittedInOrder' /\ PendingOK' /\ ChannelOK'
  BY DEF EmittedInOrder, PendingOK, ChannelOK
<1>4. QED
  BY <1>1, <1>2, <1>3

---------------------------------------------------------------------------
(* One lemma per action: a worker. *)

\* fetch_add hands an index to one worker, or sends it home.
LEMMA ClaimStep ==
  ASSUME IInv, NEW x \in Workers, Claim(x) PROVE IInv'
<1> USE DEF IInv, Claim
<1>1. TypeOK'
  BY CountAssumption DEF TypeOK, WorkerStates, Simple, Running, Indices
<1>2. MainOK'
  BY DEF MainOK, HasNext, Gone, Live, Simple, Running, TypeOK
<1>3. ClaimOK'
  BY CountAssumption DEF ClaimOK, MainOK, Holds, Gone, Live, Simple, Running, Indices, TypeOK
<1>4. Conserved'
  <2>1. \A w \in Workers : w # x => worker'[w] = worker[w]
    BY DEF TypeOK
  <2>2. \A w \in Workers, i \in Indices : Holds(w, i) => Holds(w, i)'
    BY <2>1 DEF Holds
  <2>3. \A w \in Workers : worker[w].pc = "died" => worker'[w].pc = "died"
    BY <2>1
  <2>4. next < Count => \A i \in Indices : i = next => Holds(x, i)'
    BY CountAssumption DEF Holds, Running, TypeOK
  <2>5. \A i \in Indices : i < next' => i < next \/ (i = next /\ next < Count)
    BY CountAssumption DEF Indices, TypeOK
  <2>6. \A i \in Indices : i < next' => \/ result[i] # None
                                        \/ \E w \in Workers : Holds(w, i)'
                                        \/ \E w \in Workers : worker'[w].pc = "died"
    BY <2>2, <2>3, <2>4, <2>5 DEF Conserved
  <2>7. QED
    BY <2>6 DEF Conserved, InChannel
<1>5. EmittedInOrder' /\ PendingOK' /\ ChannelOK'
  BY DEF EmittedInOrder, PendingOK, ChannelOK
<1>6. QED
  BY <1>1, <1>2, <1>3, <1>4, <1>5

\* A finished job sends its result, if the receiver is still there.
LEMMA FinishStep ==
  ASSUME IInv, NEW x \in Workers, NEW v \in Results, Finish(x, v) PROVE IInv'
<1> DEFINE i == worker[x].idx
           m == [idx |-> i, val |-> v]
<1>1. i \in Indices /\ Holds(x, i) /\ result[i] = None /\ i < next /\ m \in Message
  BY JobHasIndex DEF IInv, Finish, ClaimOK, Message
<1>2. i >= want /\ pending[i] = None /\ ~InChannel(i)
  <2>1. i >= want
    <3> SUFFICES ASSUME i < want PROVE FALSE
      BY <1>1 DEF IInv, TypeOK, Indices
    <3>1. i + 1 \in 1..Len(emitted) /\ (i + 1) - 1 = i
      BY <1>1, CountAssumption DEF IInv, TypeOK, EmittedInOrder, Indices
    <3>2. emitted[i + 1] \in Message /\ emitted[i + 1].val = result[i]
      BY <3>1 DEF IInv, TypeOK, EmittedInOrder
    <3>3. QED
      BY <3>2, <1>1, CountAssumption DEF Message
  <2>2. pending[i] = None
    BY <1>1 DEF IInv, PendingOK
  <2>3. ~InChannel(i)
    BY <1>1, CountAssumption, MessageInChannel DEF IInv, InChannel, ChannelOK, TypeOK
  <2>4. QED
    BY <2>1, <2>2, <2>3
<1>3. /\ result' = [result EXCEPT ![i] = v]
      /\ result'[i] = v /\ v # None
      /\ \A j \in Indices : j # i => result'[j] = result[j]
      /\ channel' = IF receiver THEN Append(channel, m) ELSE channel
      /\ worker' = [worker EXCEPT ![x] = Simple(IF receiver THEN "claim" ELSE "exited")]
      /\ UNCHANGED <<next, receiver, pending, want, main, emitted>>
  BY <1>1, CountAssumption DEF IInv, TypeOK, Finish
<1>4. /\ channel' \in Seq(Message) /\ Len(channel) \in Nat /\ channel \in Seq(Message)
      /\ \A k \in 1..Len(channel) : channel'[k] = channel[k]
      /\ receiver => Len(channel') = Len(channel) + 1 /\ channel'[Len(channel) + 1] = m
      /\ ~receiver => Len(channel') = Len(channel)
  BY <1>1, <1>3, AppendToChannel DEF IInv, TypeOK
<1> HIDE DEF i
<1>5. TypeOK'
  BY <1>1, <1>3, <1>4 DEF IInv, TypeOK, WorkerStates, Simple
<1>6. EmittedInOrder'
  BY <1>1, <1>2, <1>3, CountAssumption DEF IInv, EmittedInOrder, TypeOK, Indices
<1>7. MainOK'
  <2>1. worker[x].pc = "job" /\ main \notin {"join", "returned"}
    BY DEF IInv, MainOK, Gone, Live, Finish
  <2>2. QED
    BY <1>3, <2>1 DEF IInv, MainOK, HasNext, Gone, Live, Simple, TypeOK
<1>8. PendingOK'
  BY <1>2, <1>3 DEF IInv, PendingOK
<1>9. ChannelOK'
  <2>1. \A k \in 1..Len(channel) : channel[k].idx \in Indices /\ channel[k].idx # i
    BY <1>2, <1>4, MessageInChannel DEF InChannel
  <2>2. CASE receiver
    <3>1. \A k \in 1..Len(channel') : k \in 1..Len(channel) \/ (k = Len(channel) + 1 /\ channel'[k] = m)
      BY <2>2, <1>4
    <3>2. m.idx = i /\ m.val = v
      OBVIOUS
    <3>3. \A k \in 1..Len(channel') :
            /\ channel'[k].idx >= want'
            /\ channel'[k].val = result'[channel'[k].idx]
            /\ pending'[channel'[k].idx] = None
      BY <3>1, <3>2, <2>1, <1>1, <1>2, <1>3, <1>4 DEF IInv, ChannelOK
    <3>4. \A k, l \in 1..Len(channel') : channel'[k].idx = channel'[l].idx => k = l
      BY <3>1, <3>2, <2>1, <1>4 DEF IInv, ChannelOK
    <3>5. QED
      BY <3>3, <3>4 DEF ChannelOK
  <2>3. CASE ~receiver
    BY <2>3, <2>1, <1>3, <1>4 DEF IInv, ChannelOK
  <2>4. QED
    BY <2>2, <2>3
<1>10. ClaimOK'
  <2>1. \A w \in Workers : w # x => worker'[w] = worker[w]
    BY <1>3 DEF IInv, TypeOK
  <2>2. worker'[x].pc \in {"claim", "exited"} /\ (worker'[x].pc = "exited" => ~receiver)
    BY <1>3 DEF IInv, TypeOK, Simple
  <2>3. main \notin {"join", "returned"}
    BY DEF IInv, MainOK, Gone, Live, Finish
  <2>4. \A w \in Workers, j \in Indices : Holds(w, j)' => Holds(w, j) /\ j # i
    BY <2>1, <2>2, <1>1 DEF IInv, ClaimOK, Holds
  <2>5. \A w \in Workers : worker'[w].pc = "exited" => next >= Count \/ main \in {"unwinding", "panicked"}
    BY <2>1, <2>2, <2>3 DEF IInv, ClaimOK, MainOK, TypeOK
  <2>6. QED
    BY <2>4, <2>5, <1>1, <1>3 DEF IInv, ClaimOK, TypeOK, Indices
<1>11. Conserved'
  <2>1. \A j \in Indices : j # i /\ (\E w \in Workers : Holds(w, j)) => \E w \in Workers : Holds(w, j)'
    BY <1>3 DEF IInv, TypeOK, Holds, Simple, i
  <2>2. \A w \in Workers : worker[w].pc = "died" => worker'[w].pc = "died"
    BY <1>1, <1>3 DEF IInv, TypeOK, Holds, Simple
  <2>3. \A j \in Indices : InChannel(j) => InChannel(j)'
    BY <1>4 DEF InChannel
  <2>4. receiver => \A j \in Indices : j = i => InChannel(j)'
    <3>1. m.idx = i
      OBVIOUS
    <3>2. receiver => Len(channel) + 1 \in 1..Len(channel')
      BY <1>4
    <3>3. QED
      BY <3>1, <3>2, <1>4 DEF InChannel
  <2>5. main' \notin {"unwinding", "panicked"} => receiver
    BY <1>1, <1>3 DEF IInv, MainOK, TypeOK, Holds, Gone, Live
  <2>6. QED
    <3>1. \A j \in Indices : j < next => \/ result'[j] # None
                                         \/ \E w \in Workers : Holds(w, j)'
                                         \/ \E w \in Workers : worker'[w].pc = "died"
      BY <2>1, <2>2, <1>3 DEF IInv, Conserved
    <3>2. ASSUME main' \notin {"unwinding", "panicked"}, NEW j \in Indices, result'[j] # None
          PROVE  j < want \/ pending[j] # None \/ InChannel(j)'
      BY <3>2, <2>3, <2>4, <2>5, <1>3 DEF IInv, Conserved
    <3>3. QED
      BY <3>1, <3>2, <1>3 DEF Conserved
<1>12. QED
  BY <1>5, <1>6, <1>7, <1>8, <1>9, <1>10, <1>11 DEF IInv

\* A job that panics takes its worker and its index with it.
LEMMA JobPanicsStep ==
  ASSUME IInv, NEW x \in Workers, JobPanics(x) PROVE IInv'
<1> USE DEF IInv, JobPanics, Simple
<1>1. TypeOK'
  BY DEF TypeOK, WorkerStates
<1>2. MainOK'
  BY DEF MainOK, HasNext, Gone, Live, TypeOK
<1>3. ClaimOK' /\ Conserved'
  BY DEF ClaimOK, Conserved, Holds, InChannel, TypeOK
<1>4. EmittedInOrder' /\ PendingOK' /\ ChannelOK'
  BY DEF EmittedInOrder, PendingOK, ChannelOK
<1>5. QED
  BY <1>1, <1>2, <1>3, <1>4

---------------------------------------------------------------------------
\* The invariant holds in every reachable state, for any number of indices
\* and of workers.
THEOREM Invariance == Spec => []IInv
<1>1. IInv /\ [Next]_vars => IInv'
  <2> SUFFICES ASSUME IInv, [Next]_vars PROVE IInv'
    OBVIOUS
  <2>1. CASE UNCHANGED vars
    BY <2>1 DEF vars, IInv, TypeOK, EmittedInOrder, MainOK, HasNext, Gone, Live, PendingOK, ChannelOK,
       ClaimOK, Holds, Conserved, InChannel
  <2>2. CASE MainStep
    BY <2>2, SpawnStep, SpawnFailsStep, DropSendStep, ReceiveStep, EmitStep, EmitPanicsStep,
       DrainedStep, DisconnectStep, JoinStep DEF MainStep
  <2>3. CASE \E w \in Workers : WorkerStep(w)
    BY <2>3, ClaimStep, FinishStep, JobPanicsStep DEF WorkerStep
  <2>4. QED
    BY <2>1, <2>2, <2>3 DEF Next
<1>2. QED
  BY InitStep, <1>1, PTL DEF Spec

\* The state of for_each_ordered stays within its types: in particular no
\* worker ever runs an index past the end, and want never passes count.
THEOREM TypeCorrect == Spec => []TypeOK
  BY Invariance, PTL DEF IInv

\* Whatever the interleaving of the workers, emit sees the results of job 0,
\* job 1, ... in this order and each of them once.
THEOREM Ordered == Spec => []EmittedInOrder
  BY Invariance, PTL DEF IInv

\* for_each_ordered never returns normally with a result missing, whichever
\* workers panicked.
THEOREM Complete == Spec => []ReturnedComplete
<1>1. IInv => ReturnedComplete
  <2> SUFFICES ASSUME IInv, main = "returned" PROVE Len(emitted) = Count
    BY DEF ReturnedComplete
  <2>1. \A w \in Workers : worker[w].pc = "exited"
    BY DEF IInv, MainOK, Gone, Live
  <2>2. next >= Count
    BY <2>1, CountAssumption DEF IInv, ClaimOK
  <2>3. ASSUME want < Count PROVE FALSE
    <3>1. want \in Indices /\ want < next
      BY <2>2, <2>3, CountAssumption DEF IInv, TypeOK, Indices
    <3>2. result[want] # None
      BY <3>1, <2>1 DEF IInv, Conserved, Holds
    <3>3. ~InChannel(want) /\ pending[want] = None
      BY <2>3 DEF IInv, MainOK, HasNext, InChannel
    <3>4. QED
      BY <3>1, <3>2, <3>3 DEF IInv, Conserved, TypeOK
  <2>4. QED
    BY <2>3, CountAssumption DEF IInv, TypeOK, EmittedInOrder
<1>2. QED
  BY <1>1, Invariance, PTL

\* The calling thread never waits for a message while the next result has
\* already been computed.
THEOREM Prompt == Spec => []NeverBlocksOnReady
<1>1. IInv => NeverBlocksOnReady
  BY CountAssumption DEF IInv, NeverBlocksOnReady, MainOK, HasNext, Conserved, InChannel, TypeOK, Indices
<1>2. QED
  BY <1>1, Invariance, PTL

\* for_each_ordered with any number of workers does what the loop of one
\* thread does: it runs each job once and calls emit with (0, job(0)),
\* (1, job(1)), ... in this order, and returns only after the last of them.
THEOREM Refinement == Spec => Implements
<1> DEFINE ended == IF Ended THEN main ELSE "no"
<1>1. Init => Promise!LoopInit
  BY DEF Init, Promise!LoopInit, Ended, Indices
<1>2. ASSUME IInv, ReturnedComplete', [Next]_vars
      PROVE  [Promise!LoopNext]_<<result, emitted, ended>>
  <2>1. CASE Emit
    <3>1. /\ want \in Indices /\ want = Len(emitted) /\ want < Count
          /\ pending[want] = result[want] /\ result[want] # None
      BY <1>2, <2>1, CountAssumption DEF Emit, IInv, TypeOK, HasNext, Indices, EmittedInOrder, PendingOK
    <3>2. ~Ended /\ ~Ended' /\ result' = result
          /\ emitted' = Append(emitted, [idx |-> Len(emitted), val |-> result[Len(emitted)]])
      BY <2>1, <3>1 DEF Emit, Ended
    <3>3. QED
      BY <3>1, <3>2 DEF Promise!LoopNext, Promise!Step
  <2>2. CASE Join
    <3>1. ~Ended /\ Ended' /\ emitted' = emitted /\ result' = result
      BY <2>2 DEF Join, Ended
    <3>2. main' = "panicked" \/ (main' = "returned" /\ Len(emitted) = Count)
      BY <1>2, <2>2, <3>1 DEF Join, ReturnedComplete
    <3>3. QED
      BY <3>1, <3>2 DEF Promise!LoopNext, Promise!Return, Promise!Panic
  <2>3. ASSUME NEW w \in Workers, NEW v \in Results, Finish(w, v)
        PROVE  Promise!LoopNext
    <3>1. worker[w].idx \in Indices /\ result[worker[w].idx] = None
      BY <1>2, <2>3, JobHasIndex DEF IInv, Finish, ClaimOK
    <3>2. ~Ended /\ ~Ended'
      BY <1>2, <2>3 DEF Finish, IInv, MainOK, Ended, Gone, Live
    <3>3. QED
      BY <2>3, <3>1, <3>2 DEF Finish, Indices, Promise!LoopNext, Promise!RunJob
  <2>4. CASE UNCHANGED <<emitted, main, result>>
    BY <2>4 DEF Ended
  <2>5. CASE UNCHANGED <<emitted, result>> /\ ~Ended /\ ~Ended'
    BY <2>5
  <2>6. SpawnFails \/ DropSend \/ Receive \/ EmitPanics \/ Drained \/ Disconnect
          => UNCHANGED <<emitted, result>> /\ ~Ended /\ ~Ended'
    BY DEF SpawnFails, DropSend, Receive, EmitPanics, Drained, Disconnect, Ended
  <2>7. /\ \A w \in Workers : Spawn(w) \/ Claim(w) \/ JobPanics(w) => UNCHANGED <<emitted, main, result>>
        /\ UNCHANGED vars => UNCHANGED <<emitted, main, result>>
    BY DEF Spawn, Claim, JobPanics, vars
  <2>8. \/ Emit \/ Join \/ UNCHANGED <<emitted, main, result>>
        \/ UNCHANGED <<emitted, result>> /\ ~Ended /\ ~Ended'
        \/ \E w \in Workers, v \in Results : Finish(w, v)
    BY <1>2, <2>6, <2>7 DEF Next, MainStep, WorkerStep
  <2>9. QED
    BY <2>1, <2>2, <2>3, <2>4, <2>5, <2>8
<1>3. QED
  BY <1>1, <1>2, Invariance, Complete, PTL DEF Spec, Implements, Promise!LoopSpec
=============================================================================
