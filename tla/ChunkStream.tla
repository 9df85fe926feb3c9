---------------------------- MODULE ChunkStream ----------------------------
(***************************************************************************)
(* Upstream token streams, pkg/llm/openai_compat.go Stream.                *)
(*                                                                         *)
(* A successful Stream call starts a goroutine that scans the SSE body and *)
(* sends what it parses into a buffered channel until [DONE], the end of   *)
(* the body, a broken line or the cancellation of its context; then it     *)
(* closes the channel.  This module has the goroutines and their channels; *)
(* the modules that extend it own the contexts and receive from them.      *)
(***************************************************************************)
EXTENDS Integers, Sequences

CONSTANTS
    Streams,    \* the streams of one request
    Cap,        \* capacity of a channel: 16 in the code
    Chunks,     \* Chunks[s]: the chunks s may send, each the sequence of its
                \* token entropies (ExtractTokenEntropy: none, one or several)
    MaxChunks   \* bound: chunks in the body of a stream

ASSUME StreamAssumption ==
    /\ Cap \in Nat \ {0}
    /\ Chunks \in [Streams -> SUBSET Seq(Nat)]
    /\ MaxChunks \in Nat

VARIABLES
    producer,   \* where the goroutine of a stream is
    channel,    \* items sent and not yet received
    offer,      \* the chunk a goroutine holds in its select
    read,       \* chunks parsed so far
    ending,     \* why the goroutine stopped scanning
    cancelled   \* the context of a stream is cancelled

streamVars == <<producer, channel, offer, read, ending, cancelled>>

\* llm.StreamChunk: a chunk, or an error.
Item == [err : BOOLEAN, tokens : Seq(Nat)]
ChunkItem(tokens) == [err |-> FALSE, tokens |-> tokens]
ErrItem == [err |-> TRUE, tokens |-> << >>]

\* "idle": Stream was not called; "scan": in scanner.Scan or parsing;
\* "offer": in the select that sends a chunk; "fault": sending an error;
\* "ended": returned, with the channel closed.
ProducerAt == {"idle", "scan", "offer", "fault", "ended"}
Ending == {"open", "done", "eof", "fault", "cancelled"}

StreamTypeOK ==
    /\ producer \in [Streams -> ProducerAt]
    /\ channel \in [Streams -> Seq(Item)]
    /\ offer \in [Streams -> Seq(Nat)]
    /\ read \in [Streams -> Nat]
    /\ ending \in [Streams -> Ending]
    /\ cancelled \in [Streams -> BOOLEAN]

\* Mutant of Closed: the channel is closed at [DONE] and not by a defer.
ClosedAtDone(s) ==
    producer[s] = "ended" /\ channel[s] = << >> /\ ending[s] = "done"

\* A receive from channel s reports that it is closed.
Closed(s) == producer[s] = "ended" /\ channel[s] = << >>

\* The next item a receive from channel s returns.
Received(s) == Head(channel[s])

\* Stream s succeeded: a fresh channel and its goroutine.
Open(s) ==
    /\ producer' = [producer EXCEPT ![s] = "scan"]
    /\ channel' = [channel EXCEPT ![s] = << >>]
    /\ offer' = [offer EXCEPT ![s] = << >>]
    /\ read' = [read EXCEPT ![s] = 0]
    /\ ending' = [ending EXCEPT ![s] = "open"]

\* The goroutine stops scanning for the given reason, and goes on at pc.
StopScanning(s, reason, pc) ==
    /\ producer' = [producer EXCEPT ![s] = pc]
    /\ ending' = [ending EXCEPT ![s] = reason]

\* A data line parses as a chunk.
ScanChunk(s) ==
    /\ producer[s] = "scan"
    /\ read[s] < MaxChunks
    /\ \E tokens \in Chunks[s] : offer' = [offer EXCEPT ![s] = tokens]
    /\ producer' = [producer EXCEPT ![s] = "offer"]
    /\ read' = [read EXCEPT ![s] = @ + 1]
    /\ UNCHANGED <<channel, ending, cancelled>>

\* The line is [DONE], or the body ends without it: both close the channel
\* and the receiver cannot tell them apart.
ScanEnd(s) ==
    /\ producer[s] = "scan"
    /\ \E reason \in {"done", "eof"} : StopScanning(s, reason, "ended")
    /\ UNCHANGED <<channel, offer, read, cancelled>>

\* Mutant of ScanFault: scanner.Err is not looked at.
ScanFaultUnseen(s) ==
    /\ producer[s] = "scan"
    /\ StopScanning(s, "fault", "ended")
    /\ UNCHANGED <<channel, offer, read, cancelled>>

\* A data line that does not parse, or an error of the scanner: a broken
\* connection, a line beyond its buffer, the client timeout, a cancelled
\* context.
ScanFault(s) ==
    /\ producer[s] = "scan"
    /\ StopScanning(s, "fault", "fault")
    /\ UNCHANGED <<channel, offer, read, cancelled>>

\* Mutant of SendChunk: a send with a default branch, lossy on a full channel.
SendChunkOrDrop(s) ==
    /\ producer[s] = "offer"
    /\ channel' = [channel EXCEPT ![s] =
                     IF Len(@) < Cap THEN Append(@, ChunkItem(offer[s])) ELSE @]
    /\ producer' = [producer EXCEPT ![s] = "scan"]
    /\ UNCHANGED <<offer, read, ending, cancelled>>

\* The select sends the chunk ...
SendChunk(s) ==
    /\ producer[s] = "offer"
    /\ Len(channel[s]) < Cap
    /\ channel' = [channel EXCEPT ![s] = Append(@, ChunkItem(offer[s]))]
    /\ producer' = [producer EXCEPT ![s] = "scan"]
    /\ UNCHANGED <<offer, read, ending, cancelled>>

\* Mutant of DropChunk: the send has no ctx.Done branch.
DropChunkNever(s) == FALSE /\ UNCHANGED streamVars

\* ... or finds the context done and drops it, without an error item.  When
\* both are ready, either may be taken.
DropChunk(s) ==
    /\ producer[s] = "offer"
    /\ cancelled[s]
    /\ StopScanning(s, "cancelled", "ended")
    /\ UNCHANGED <<channel, offer, read, cancelled>>

\* The error is sent outside any select: it waits for room, whatever happens
\* to the context.
SendFault(s) ==
    /\ producer[s] = "fault"
    /\ Len(channel[s]) < Cap
    /\ channel' = [channel EXCEPT ![s] = Append(@, ErrItem)]
    /\ producer' = [producer EXCEPT ![s] = "ended"]
    /\ UNCHANGED <<offer, read, ending, cancelled>>

\* Where the scanner goes on to from "scan".
Scan(s) == ScanChunk(s) \/ ScanEnd(s) \/ ScanFault(s)

Produce(s) == Scan(s) \/ SendChunk(s) \/ DropChunk(s) \/ SendFault(s)

\* Somebody receives the first item of channel s.
Receive(s) ==
    /\ channel[s] # << >>
    /\ channel' = [channel EXCEPT ![s] = Tail(@)]
    /\ UNCHANGED <<producer, offer, read, ending>>

\* What a goroutine parsed and did not send: the chunk it offers, or the one it
\* dropped.  An error it sent takes a place in the channel.
Unsent(s) == IF producer[s] = "offer" \/ ending[s] = "cancelled" THEN 1 ELSE 0
ErrSent(s) == IF producer[s] = "ended" /\ ending[s] = "fault" THEN 1 ELSE 0

\* The goroutine waits for room in a full channel and no context can free it.
StuckOnFault(s) == producer[s] = "fault" /\ Len(channel[s]) = Cap
=============================================================================
