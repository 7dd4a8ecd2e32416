----------------------------- MODULE StreamMode -----------------------------
(***************************************************************************)
(* Piped input relayed to the server (stream_stdin, cli/mod.rs): the       *)
(* thread that reads stdin, the bounded channel, the loop that owns the    *)
(* transport, its translation of line ends, and the drain that a first     *)
(* Ctrl+C starts.                                                          *)
(*                                                                         *)
(* A byte is CR, LF or any other.  A call of the transport is one step: it *)
(* returns in bounded time (Transport), with an error only when the room   *)
(* was claimed by another password.                                        *)
(***************************************************************************)
EXTENDS Naturals, Sequences, SequencesExt, Signals

CONSTANTS
    Inputs,         \* what one read of stdin may return
    Reads,          \* bound: reads that return something
    ChannelCap,     \* the bound of the sync_channel
    RoomMayBeLost   \* TRUE: the room may be claimed by another password

Byte == {"CR", "LF", "x"}

ASSUME StreamBounds == Reads \in Nat /\ ChannelCap \in Nat \ {0} /\ RoomMayBeLost \in BOOLEAN
ASSUME InputsTyped == Inputs \subseteq Seq(Byte)

VARIABLES
    taken,          \* the chunks read from stdin, in order
    reader,         \* where the reading thread is
    channel,        \* chunks on their way to the loop
    loop,           \* where stream_stdin is
    prevWasCr,
    relayed         \* the bytes handed to the transport

streamVars == <<taken, reader, channel, loop, prevWasCr, relayed>>

-----------------------------------------------------------------------------
(* lf_to_crlf: the bytes to broadcast, and whether the last one was a CR.  *)
LfToCrlf(chunk, cr) ==
    LET after[n \in 0 .. Len(chunk)] ==
          IF n = 0 THEN [out |-> <<>>, cr |-> cr]
          ELSE LET b == chunk[n]
                   before == after[n - 1]
               IN  [out |-> before.out \o (IF b = "LF" /\ ~before.cr THEN <<"CR", b>>
                                           ELSE <<b>>),
                    cr  |-> b = "CR"]
    IN  after[Len(chunk)]

-----------------------------------------------------------------------------
StreamInit ==
    /\ taken = <<>> /\ reader = "read" /\ channel = <<>>
    /\ loop = "check" /\ prevWasCr = FALSE /\ relayed = <<>>

(* The loop has returned, and its end of the channel with it.              *)
StreamOver == loop \in {"lost", "over"}

(* The thread reads a chunk, and echoes it whether or not stdout takes it. *)
ReadStdin ==
    /\ reader = "read" /\ Len(taken) < Reads
    /\ \E chunk \in Inputs : taken' = Append(taken, chunk)
    /\ reader' = "send"
    /\ UNCHANGED <<channel, loop, prevWasCr, relayed>>

(* End of file, or an error: the thread ends and drops its sender.         *)
StdinEnds ==
    /\ reader = "read"
    /\ reader' = "done"
    /\ UNCHANGED <<taken, channel, loop, prevWasCr, relayed>>

(* Fault: the channel has no bound.                                        *)
QueueUnbounded ==
    /\ reader = "send"
    /\ channel' = IF StreamOver THEN channel ELSE Append(channel, Last(taken))
    /\ reader' = IF StreamOver THEN "done" ELSE "read"
    /\ UNCHANGED <<taken, loop, prevWasCr, relayed>>

(* The thread blocks while the channel is full, and ends when its other    *)
(* end is gone.                                                            *)
Queue ==
    /\ reader = "send" /\ (StreamOver \/ Len(channel) < ChannelCap)
    /\ channel' = IF StreamOver THEN channel ELSE Append(channel, Last(taken))
    /\ reader' = IF StreamOver THEN "done" ELSE "read"
    /\ UNCHANGED <<taken, loop, prevWasCr, relayed>>

(* Fault: the first Ctrl+C ends the loop.                                  *)
StreamCheckRunning ==
    /\ loop = "check"
    /\ loop' = IF ~running THEN "shutdown" ELSE "recv"
    /\ UNCHANGED <<taken, reader, channel, prevWasCr, relayed>>

(* The top of the loop: only a forced exit leaves early.                   *)
StreamCheck ==
    /\ loop = "check"
    /\ loop' = IF forced THEN "shutdown" ELSE "recv"
    /\ UNCHANGED <<taken, reader, channel, prevWasCr, relayed>>

(* A call of the transport returns.                                        *)
StreamReturns == loop' = "check" \/ (RoomMayBeLost /\ loop' = "lost")

(* recv_timeout returns a chunk; the transport sends it.                   *)
Relay ==
    LET translated == LfToCrlf(Head(channel), prevWasCr)
    IN  /\ loop = "recv" /\ channel # <<>>
        /\ channel' = Tail(channel)
        /\ relayed' = relayed \o translated.out
        /\ prevWasCr' = translated.cr
        /\ StreamReturns
        /\ UNCHANGED <<taken, reader>>

(* recv_timeout times out; the transport ticks.                            *)
StreamIdle ==
    /\ loop = "recv" /\ channel = <<>> /\ reader # "done"
    /\ StreamReturns
    /\ UNCHANGED <<taken, reader, channel, prevWasCr, relayed>>

(* recv_timeout finds the channel drained and its sender gone.             *)
StreamDrained ==
    /\ loop = "recv" /\ channel = <<>> /\ reader = "done"
    /\ loop' = "shutdown"
    /\ UNCHANGED <<taken, reader, channel, prevWasCr, relayed>>

(* Transport::shutdown.                                                    *)
StreamShutdown ==
    /\ loop = "shutdown"
    /\ loop' = "over"
    /\ UNCHANGED <<taken, reader, channel, prevWasCr, relayed>>

StreamLoop == StreamCheck \/ Relay \/ StreamIdle \/ StreamDrained \/ StreamShutdown

StreamNext == ReadStdin \/ StdinEnds \/ Queue \/ StreamLoop

-----------------------------------------------------------------------------
(* Properties.                                                             *)

StreamTypeOK ==
    /\ taken \in Seq(Inputs) /\ channel \in Seq(Inputs) /\ Len(channel) <= ChannelCap
    /\ reader \in {"read", "send", "done"}
    /\ loop \in {"check", "recv", "shutdown", "lost", "over"}
    /\ prevWasCr \in BOOLEAN /\ relayed \in Seq(Byte)

(* What lf_to_crlf computes for the whole input: a CR before every LF that *)
(* has none.                                                               *)
Crlf(bytes) ==
    FlattenSeq([i \in DOMAIN bytes |->
      IF bytes[i] = "LF" /\ (i = 1 \/ bytes[i - 1] # "CR") THEN <<"CR", "LF">>
      ELSE <<bytes[i]>>])

(* The chunks that are still in the channel, or in the reader's hand.      *)
UnderWay == Len(channel) + (IF reader = "send" THEN 1 ELSE 0)

(* The broadcast is the input with its line ends translated, however the   *)
(* reads cut it, a CR and its LF apart included; nothing is skipped,       *)
(* repeated or reordered between the two threads (stream_stdin).  A first  *)
(* Ctrl+C only starts a drain: unless the exit is forced, the loop closes  *)
(* the session after the end of the input and with all of it sent.         *)
StdinIsBroadcast ==
    /\ ~StreamOver =>
         relayed = Crlf(FlattenSeq(SubSeq(taken, 1, Len(taken) - UnderWay)))
    /\ (loop = "shutdown" /\ ~forced) => (reader = "done" /\ channel = <<>>)
=============================================================================
