------------------------- MODULE ChunkStreamProofs -------------------------
(***************************************************************************)
(* Lemmas about one step of a stream, for the modules that read streams:   *)
(* what it does to the types, and that it loses nothing.                   *)
(***************************************************************************)
EXTENDS ChunkStream, TLAPS

-----------------------------------------------------------------------------
(* Types.                                                                  *)

\* A step of a producer keeps the streams in their types.
LEMMA ProduceType ==
    ASSUME StreamTypeOK, NEW s \in Streams, Produce(s)
    PROVE  StreamTypeOK'
<1> USE DEF StreamTypeOK, ProducerAt, Ending
<1>1. CASE ScanChunk(s)
  <2>1. PICK tokens \in Chunks[s] : offer' = [offer EXCEPT ![s] = tokens]
    BY <1>1 DEF ScanChunk
  <2>2. tokens \in Seq(Nat)
    BY StreamAssumption
  <2> QED
    BY <1>1, <2>1, <2>2 DEF ScanChunk
<1>2. CASE ScanEnd(s)
  BY <1>2 DEF ScanEnd, StopScanning
<1>3. CASE ScanFault(s)
  BY <1>3 DEF ScanFault, StopScanning
<1>4. CASE SendChunk(s)
  <2>1. ChunkItem(offer[s]) \in Item
    BY DEF ChunkItem, Item
  <2>2. Append(channel[s], ChunkItem(offer[s])) \in Seq(Item)
    BY <2>1
  <2> QED
    BY <1>4, <2>2 DEF SendChunk
<1>5. CASE DropChunk(s)
  BY <1>5 DEF DropChunk, StopScanning
<1>6. CASE SendFault(s)
  <2>1. ErrItem \in Item
    BY DEF ErrItem, Item
  <2>2. Append(channel[s], ErrItem) \in Seq(Item)
    BY <2>1
  <2> QED
    BY <1>6, <2>2 DEF SendFault
<1> QED
  BY <1>1, <1>2, <1>3, <1>4, <1>5, <1>6 DEF Produce, Scan

\* So does a receive, and what it receives is an item.
LEMMA ReceiveType ==
    ASSUME StreamTypeOK, NEW s \in Streams, Receive(s),
           cancelled' \in [Streams -> BOOLEAN]
    PROVE  StreamTypeOK' /\ Received(s) \in Item
<1>1. channel[s] \in Seq(Item) /\ channel[s] # << >>
  BY DEF Receive, StreamTypeOK
<1>2. Tail(channel[s]) \in Seq(Item) /\ Head(channel[s]) \in Item
  BY <1>1
<1> QED
  BY <1>2 DEF Receive, Received, StreamTypeOK

\* And the opening of a stream.
LEMMA OpenType ==
    ASSUME StreamTypeOK, NEW s \in Streams, Open(s), UNCHANGED cancelled
    PROVE  StreamTypeOK'
BY DEF Open, StreamTypeOK, ProducerAt, Ending

\* A goroutine that was started never becomes idle again, and an idle one does
\* nothing.
LEMMA ProduceIdle ==
    ASSUME StreamTypeOK, NEW s \in Streams, Produce(s)
    PROVE  /\ \A t \in Streams : producer'[t] = "idle" <=> producer[t] = "idle"
           /\ UNCHANGED cancelled
<1> USE DEF StreamTypeOK
<1>1. CASE ScanChunk(s)
  BY <1>1 DEF ScanChunk
<1>2. CASE ScanEnd(s)
  BY <1>2 DEF ScanEnd, StopScanning
<1>3. CASE ScanFault(s)
  BY <1>3 DEF ScanFault, StopScanning
<1>4. CASE SendChunk(s)
  BY <1>4 DEF SendChunk
<1>5. CASE DropChunk(s)
  BY <1>5 DEF DropChunk, StopScanning
<1>6. CASE SendFault(s)
  BY <1>6 DEF SendFault
<1> QED
  BY <1>1, <1>2, <1>3, <1>4, <1>5, <1>6 DEF Produce, Scan

-----------------------------------------------------------------------------
(* Nothing of a stream is lost.                                            *)

\* A goroutine and the reason it stopped agree.
EndingInv ==
    \A s \in Streams :
        /\ ending[s] = "open" <=> producer[s] \in {"idle", "scan", "offer"}
        /\ producer[s] = "fault" => ending[s] = "fault"

\* What is in the channel, or parsed and unsent, less what was parsed: minus
\* the number of chunks received.
Balance(s) == Len(channel[s]) + Unsent(s) - read[s] - ErrSent(s)

\* An error that was sent is still the last item of the channel.
ErrWaits(s) ==
    ErrSent(s) = 1 => Len(channel[s]) > 0 /\ channel[s][Len(channel[s])].err

LEMMA AppendFacts ==
    ASSUME NEW T, NEW q \in Seq(T), NEW x \in T
    PROVE  /\ Len(Append(q, x)) = Len(q) + 1
           /\ Append(q, x)[Len(Append(q, x))] = x
OBVIOUS

LEMMA TailFacts ==
    ASSUME NEW T, NEW q \in Seq(T), q # << >>
    PROVE  /\ Len(Tail(q)) = Len(q) - 1
           /\ Len(q) \in Nat \ {0}
           /\ Len(q) = 1 => Head(q) = q[Len(q)]
           /\ Len(q) > 1 => Len(Tail(q)) > 0 /\ Tail(q)[Len(Tail(q))] = q[Len(q)]
<1>1. Len(q) \in Nat \ {0} /\ Len(Tail(q)) = Len(q) - 1
  OBVIOUS
<1>2. \A i \in 1..Len(q) - 1 : Tail(q)[i] = q[i + 1]
  OBVIOUS
<1>3. Tail(q) \in Seq(T)
  OBVIOUS
<1>4. ASSUME Len(q) > 1
      PROVE  Len(Tail(q)) > 0 /\ Tail(q)[Len(Tail(q))] = q[Len(q)]
  <2>1. Len(Tail(q)) \in 1..Len(q) - 1
    BY <1>1, <1>4
  <2>2. Tail(q)[Len(Tail(q))] = q[Len(Tail(q)) + 1]
    BY <1>2, <2>1
  <2>3. Len(Tail(q)) + 1 = Len(q)
    BY <1>1
  <2>4. Len(Tail(q)) > 0
    BY <1>1, <1>4
  <2> QED
    BY <2>2, <2>3, <2>4
<1>5. Len(q) = 1 => Head(q) = q[Len(q)]
  OBVIOUS
<1> QED
  BY <1>1, <1>4, <1>5

\* A step of a producer leaves the balance of every stream as it is.
LEMMA ProduceBalance ==
    ASSUME StreamTypeOK, EndingInv, NEW s \in Streams, Produce(s)
    PROVE  /\ EndingInv'
           /\ \A t \in Streams : Balance(t)' = Balance(t)
           /\ \A t \in Streams : ErrWaits(t) => ErrWaits(t)'
           /\ producer[s] # "ended"
           /\ \A t \in Streams \ {s} : UNCHANGED <<producer[t], ending[t], read[t]>>
<1>t. /\ producer \in [Streams -> ProducerAt]
      /\ channel \in [Streams -> Seq(Item)]
      /\ read \in [Streams -> Nat]
      /\ ending \in [Streams -> Ending]
  BY DEF StreamTypeOK
<1>l. \A t \in Streams : Len(channel[t]) \in Nat
  BY <1>t
<1> USE <1>t, <1>l DEF EndingInv, Balance, ErrWaits, Unsent, ErrSent
<1>1. CASE ScanChunk(s)
  BY <1>1 DEF ScanChunk
<1>2. CASE ScanEnd(s)
  BY <1>2 DEF ScanEnd, StopScanning
<1>3. CASE ScanFault(s)
  BY <1>3 DEF ScanFault, StopScanning
<1>4. CASE SendChunk(s)
  <2>1. ChunkItem(offer[s]) \in Item
    BY DEF StreamTypeOK, ChunkItem, Item
  <2> DEFINE c == Append(channel[s], ChunkItem(offer[s]))
  <2>2. Len(c) = Len(channel[s]) + 1
    BY <2>1, AppendFacts
  <2> HIDE DEF c
  <2>3. channel' = [channel EXCEPT ![s] = c]
    BY <1>4 DEF SendChunk, c
  <2> QED
    BY <1>4, <2>2, <2>3 DEF SendChunk
<1>5. CASE DropChunk(s)
  BY <1>5 DEF DropChunk, StopScanning
<1>6. CASE SendFault(s)
  <2>1. ErrItem \in Item /\ ErrItem.err
    BY DEF ErrItem, Item
  <2>2. channel[s] \in Seq(Item)
    OBVIOUS
  <2> DEFINE c == Append(channel[s], ErrItem)
  <2>3. Len(c) = Len(channel[s]) + 1 /\ c[Len(c)] = ErrItem
    BY <2>1, <2>2, AppendFacts
  <2> HIDE DEF c
  <2>4. /\ channel' = [channel EXCEPT ![s] = c]
        /\ producer[s] = "fault"
        /\ producer' = [producer EXCEPT ![s] = "ended"]
        /\ UNCHANGED <<offer, read, ending, cancelled>>
    BY <1>6 DEF SendFault, c
  <2>5. channel'[s] = c /\ \A t \in Streams \ {s} : channel'[t] = channel[t]
    BY <2>4
  <2>6. ErrWaits(s)' /\ \A t \in Streams \ {s} : ErrWaits(t) => ErrWaits(t)'
    BY <2>1, <2>3, <2>4, <2>5
  <2>7. \A t \in Streams : Balance(t)' = Balance(t)
    BY <2>3, <2>4, <2>5
  <2> QED
    BY <2>4, <2>6, <2>7
<1> QED
  BY <1>1, <1>2, <1>3, <1>4, <1>5, <1>6 DEF Produce, Scan

\* Receiving an item takes one off the balance; an error that waited behind the
\* item still waits.
LEMMA ReceiveBalance ==
    ASSUME StreamTypeOK, EndingInv, NEW s \in Streams, Receive(s)
    PROVE  /\ EndingInv'
           /\ Balance(s)' = Balance(s) - 1
           /\ \A t \in Streams \ {s} : Balance(t)' = Balance(t)
           /\ \A t \in Streams \ {s} : ErrWaits(t)' = ErrWaits(t)
           /\ ErrWaits(s) /\ ~Received(s).err => ErrWaits(s)'
           /\ UNCHANGED <<producer, ending, read>>
<1>1. channel[s] \in Seq(Item) /\ channel[s] # << >>
  BY DEF StreamTypeOK, Receive
<1>2. /\ Len(Tail(channel[s])) = Len(channel[s]) - 1
      /\ Len(channel[s]) \in Nat
      /\ Len(channel[s]) > 1 =>
           /\ Len(Tail(channel[s])) > 0
           /\ Tail(channel[s])[Len(Tail(channel[s]))] = channel[s][Len(channel[s])]
      /\ Len(channel[s]) = 1 => Head(channel[s]) = channel[s][Len(channel[s])]
      /\ Len(channel[s]) # 0
  BY <1>1, TailFacts
<1>3. /\ channel' = [channel EXCEPT ![s] = Tail(channel[s])]
      /\ UNCHANGED <<producer, offer, read, ending>>
  BY DEF Receive
<1>t. channel \in [Streams -> Seq(Item)] /\ read \in [Streams -> Nat]
  BY DEF StreamTypeOK
<1>4. channel'[s] = Tail(channel[s]) /\ \A t \in Streams \ {s} : channel'[t] = channel[t]
  BY <1>3, <1>t
<1>5. UNCHANGED <<Unsent(s), ErrSent(s)>>
  BY <1>3 DEF Unsent, ErrSent
<1>6. Balance(s)' = Balance(s) - 1
  BY <1>2, <1>3, <1>4, <1>t DEF Balance, Unsent, ErrSent
<1>7. \A t \in Streams \ {s} : Balance(t)' = Balance(t) /\ ErrWaits(t)' = ErrWaits(t)
  BY <1>3, <1>4 DEF Balance, ErrWaits, Unsent, ErrSent
<1>8. ErrWaits(s) /\ ~Received(s).err => ErrWaits(s)'
  BY <1>2, <1>4, <1>5 DEF ErrWaits, Received
<1>9. EndingInv'
  BY <1>3 DEF EndingInv
<1> QED
  BY <1>3, <1>6, <1>7, <1>8, <1>9

LEMMA BalanceType ==
    ASSUME StreamTypeOK, NEW s \in Streams
    PROVE  /\ Len(channel[s]) \in Nat /\ read[s] \in Nat
           /\ Unsent(s) \in Nat /\ ErrSent(s) \in Nat
           /\ Balance(s) \in Int
<1>1. Len(channel[s]) \in Nat /\ read[s] \in Nat
  BY DEF StreamTypeOK
<1>2. Unsent(s) \in Nat /\ ErrSent(s) \in Nat
  BY DEF Unsent, ErrSent
<1> QED
  BY <1>1, <1>2 DEF Balance

\* The balance depends on the streams only.
LEMMA StreamsUnchanged ==
    ASSUME UNCHANGED <<producer, channel, read, ending>>
    PROVE  /\ EndingInv' <=> EndingInv
           /\ \A s \in Streams : Balance(s)' = Balance(s)
           /\ \A s \in Streams : ErrWaits(s)' <=> ErrWaits(s)
BY DEF EndingInv, Balance, ErrWaits, Unsent, ErrSent
=============================================================================
