------------------------------ MODULE Transport ------------------------------
(***************************************************************************)
(* The broadcasting client's Transport (cli/ws.rs): the replay buffer, its *)
(* cap, the acks, the reconnects and the shutdown, over connections that   *)
(* break, and the ingest loops that answer it (server/mod.rs).  A          *)
(* connection the client has left may still be read by its loop.           *)
(*                                                                         *)
(* A chunk is the number of its place in the output; sealing, sizes' other *)
(* fields and wire formats are abstracted.  Every read and every write on  *)
(* the socket is a step.                                                   *)
(***************************************************************************)
EXTENDS Naturals, Sequences, FiniteSets, SequencesExt, Dial, Sums

CONSTANTS
    Chunks,         \* bound: chunks the session produces
    Length,         \* the bytes of each chunk
    Cap,            \* MAX_BUFFERED_BYTES
    Sizes,          \* bound: terminal sizes are 1 .. Sizes, in order
    Failures,       \* bound: failures of connections and connection attempts
    MayRefuse       \* TRUE: the room may be claimed by another password

ASSUME LengthTyped == Chunks \in Nat /\ Length \in [1 .. Chunks -> Nat \ {0}]
ASSUME BoundsTyped == /\ Cap \in Nat /\ Sizes \in Nat \ {0} /\ Failures \in Nat
                      /\ MayRefuse \in BOOLEAN

(* Every connection but the last was preceded by a failure.                *)
Conns == 1 .. (Failures + 1)
NoSize == 0

VARIABLES
    (* the client *)
    made,           \* chunks produced so far
    pending,        \* chunks not yet written on the current connection
    unacked,        \* chunks written on it, awaiting their ack
    bufferedBytes,
    connAcked,
    droppedUnacked,
    size,
    sentSize,
    cur,            \* the current connection, 0 without a socket
    backoff,        \* next_attempt is in the future
    pc,             \* where the client is
    call,           \* the call in progress: connect, send, tick or shutdown
    (* the connections *)
    wire,           \* frames written and not yet read by the loop
    acks,           \* acks sent and not yet read by the client
    up,             \* connections that still carry bytes
    loop,           \* state of each connection's ingest loop
    received,       \* its received_bytes
    (* the room *)
    history,        \* the chunks stored since the last clear
    roomSize,
    (* bounds and history variables *)
    failures,
    stored,         \* chunks ever stored
    dropped         \* chunks ever dropped by the cap

bufferVars == <<made, pending, unacked, bufferedBytes, connAcked, droppedUnacked, dropped>>
clientVars == <<bufferVars, size, sentSize, cur, backoff, pc, call>>
netVars == <<wire, acks, up>>
serverVars == <<loop, received, history, roomSize, stored>>
vars == <<clientVars, netVars, serverVars, failures>>

Frame == [kind : {"reset", "size", "chunk", "close"}, n : Nat]
ResetFrame == [kind |-> "reset", n |-> 0]
CloseFrame == [kind |-> "close", n |-> 0]
SizeFrame(s) == [kind |-> "size", n |-> s]
ChunkFrame(i) == [kind |-> "chunk", n |-> i]

Bytes(q) == Total(Length, q)
Prefix(q, n) == SubSeq(q, 1, n)
Rest(q, n) == SubSeq(q, n + 1, Len(q))

-----------------------------------------------------------------------------
(* The replay buffer.                                                      *)

(* Fault: what the cap takes from unacked is forgotten, so its ack is      *)
(* credited to a later chunk.                                              *)
BufferWithoutCredit(n) ==
    LET added == [i \in 1 .. n |-> made + i]
        queue == unacked \o pending \o added
        total == bufferedBytes + Bytes(added)
        drops == CHOOSE d \in 0 .. Len(queue) :
                   /\ total - Bytes(Prefix(queue, d)) <= Cap
                   /\ \A e \in 0 .. (d - 1) : total - Bytes(Prefix(queue, e)) > Cap
    IN  /\ made' = made + n
        /\ unacked' = IF drops < Len(unacked) THEN Rest(unacked, drops) ELSE <<>>
        /\ pending' = IF drops <= Len(unacked) THEN pending \o added
                      ELSE Rest(pending \o added, drops - Len(unacked))
        /\ bufferedBytes' = total - Bytes(Prefix(queue, drops))
        /\ dropped' = dropped \cup {queue[i] : i \in 1 .. drops}
        /\ UNCHANGED <<connAcked, droppedUnacked>>

(* buffer_plaintext of the next n chunks, one after the other: what the    *)
(* cap drops is the shortest run of oldest chunks that makes it fit, and   *)
(* what it drops of unacked is remembered.                                 *)
Buffer(n) ==
    LET added == [i \in 1 .. n |-> made + i]
        queue == unacked \o pending \o added
        total == bufferedBytes + Bytes(added)
        drops == CHOOSE d \in 0 .. Len(queue) :
                   /\ total - Bytes(Prefix(queue, d)) <= Cap
                   /\ \A e \in 0 .. (d - 1) : total - Bytes(Prefix(queue, e)) > Cap
        kept  == IF drops < Len(unacked) THEN Rest(unacked, drops) ELSE <<>>
    IN  /\ made' = made + n
        /\ unacked' = kept
        /\ pending' = IF drops <= Len(unacked) THEN pending \o added
                      ELSE Rest(pending \o added, drops - Len(unacked))
        /\ droppedUnacked' = droppedUnacked + Bytes(unacked) - Bytes(kept)
        /\ bufferedBytes' = total - Bytes(Prefix(queue, drops))
        /\ dropped' = dropped \cup {queue[i] : i \in 1 .. drops}
        /\ UNCHANGED connAcked

(* Fault: a chunk is released only by an ack that goes beyond it.          *)
ApplyAckBeyond(acked) ==
    LET newly    == IF acked > connAcked THEN acked - connAcked ELSE 0
        released == CHOOSE r \in 0 .. Len(unacked) :
                      /\ r = 0 \/ Bytes(Prefix(unacked, r)) < newly
                      /\ \A s \in (r + 1) .. Len(unacked) : Bytes(Prefix(unacked, s)) >= newly
    IN  /\ connAcked' = connAcked + newly
        /\ unacked' = Rest(unacked, released)
        /\ bufferedBytes' = bufferedBytes - Bytes(Prefix(unacked, released))
        /\ UNCHANGED <<made, pending, dropped, droppedUnacked>>

(* apply_ack: first the credit of dropped chunks, then whole chunks from   *)
(* the front of unacked.                                                   *)
ApplyAck(acked) ==
    LET newly     == IF acked > connAcked THEN acked - connAcked ELSE 0
        discarded == IF newly < droppedUnacked THEN newly ELSE droppedUnacked
        released  == CHOOSE r \in 0 .. Len(unacked) :
                       /\ Bytes(Prefix(unacked, r)) <= newly - discarded
                       /\ \A s \in (r + 1) .. Len(unacked) :
                            Bytes(Prefix(unacked, s)) > newly - discarded
    IN  /\ connAcked' = connAcked + newly
        /\ droppedUnacked' = droppedUnacked - discarded
        /\ unacked' = Rest(unacked, released)
        /\ bufferedBytes' = bufferedBytes - Bytes(Prefix(unacked, released))
        /\ UNCHANGED <<made, pending, dropped>>

(* Fault: unacknowledged chunks are queued behind the pending ones.        *)
DisconnectToBack ==
    /\ cur' = 0
    /\ backoff' = TRUE
    /\ pending' = pending \o unacked
    /\ unacked' = <<>>
    /\ UNCHANGED <<made, bufferedBytes, connAcked, droppedUnacked, dropped>>

(* disconnect: what was written and not acknowledged goes back in front.   *)
Disconnect ==
    /\ cur' = 0
    /\ backoff' = TRUE
    /\ pending' = unacked \o pending
    /\ unacked' = <<>>
    /\ UNCHANGED <<made, bufferedBytes, connAcked, droppedUnacked, dropped>>

-----------------------------------------------------------------------------
Init ==
    /\ made = 0 /\ pending = <<>> /\ unacked = <<>> /\ bufferedBytes = 0
    /\ connAcked = 0 /\ droppedUnacked = 0 /\ dropped = {}
    /\ size = 1 /\ sentSize = NoSize
    /\ cur = 0 /\ backoff = FALSE /\ pc = "handshake" /\ call = "connect"
    /\ wire = [k \in Conns |-> <<>>] /\ acks = [k \in Conns |-> <<>>]
    /\ up = {}
    /\ loop = [k \in Conns |-> "none"] /\ received = [k \in Conns |-> 0]
    /\ history = {} /\ roomSize = NoSize
    /\ failures = 0 /\ stored = {}

Fail == failures < Failures /\ failures' = failures + 1

(* The connection the next handshake opens.                                *)
Fresh == failures + 1

-----------------------------------------------------------------------------
(* The client's calls.  Each of them flushes.                              *)

(* The terminal may have grown since the last call.                        *)
Resizes == size' \in {size, size + 1} \cap (1 .. Sizes)

(* send: one chunk of output, or one and a keyframe.                       *)
Send ==
    /\ pc = "idle"
    /\ \E n \in {1, 2} : made + n <= Chunks /\ Buffer(n)
    /\ Resizes
    /\ pc' = "drain" /\ call' = "send"
    /\ UNCHANGED <<sentSize, cur, backoff, netVars, serverVars, failures>>

(* tick, with the size of the terminal.                                    *)
Tick ==
    /\ pc = "idle"
    /\ Resizes
    /\ pc' = "drain" /\ call' = "tick"
    /\ UNCHANGED <<bufferVars, sentSize, cur, backoff, netVars, serverVars, failures>>

(* shutdown, whenever the output ends.                                     *)
Shutdown ==
    /\ pc = "idle"
    /\ pc' = "drain" /\ call' = "shutdown"
    /\ UNCHANGED <<bufferVars, size, sentSize, cur, backoff, netVars, serverVars, failures>>

(* What follows the flush of the call in progress.                         *)
AfterFlush ==
    CASE call = "tick" -> "ping"
      [] call = "shutdown" -> "closing"
      [] OTHER -> "idle"

(* drain_acks reads one ack.                                               *)
DrainAck ==
    /\ pc \in {"drain", "closing"} /\ cur # 0 /\ acks[cur] # <<>>
    /\ ApplyAck(Head(acks[cur]))
    /\ acks' = [acks EXCEPT ![cur] = Tail(@)]
    /\ UNCHANGED <<size, sentSize, cur, backoff, pc, call, wire, up, serverVars, failures>>

(* drain_acks would block: whatever is under way has not arrived.          *)
DrainBlocks ==
    /\ pc = "drain" /\ cur # 0
    /\ pc' = IF sentSize # size THEN "size" ELSE "chunks"
    /\ UNCHANGED <<bufferVars, size, sentSize, cur, backoff, call,
                   netVars, serverVars, failures>>

(* drain_acks finds the connection dead, after the acks that made it.  The *)
(* backoff just armed ends the flush.                                      *)
DrainDies ==
    /\ pc \in {"drain", "closing"} /\ cur \notin up \cup {0} /\ acks[cur] = <<>>
    /\ Disconnect
    /\ pc' = AfterFlush
    /\ UNCHANGED <<size, sentSize, call, netVars, serverVars, failures>>

(* flush without a socket: still backing off, or time to reconnect.        *)
NoSocket ==
    /\ pc = "drain" /\ cur = 0
    /\ pc' = IF backoff THEN AfterFlush ELSE "handshake"
    /\ UNCHANGED <<bufferVars, size, sentSize, cur, backoff, call,
                   netVars, serverVars, failures>>

BackoffEnds ==
    /\ backoff
    /\ backoff' = FALSE
    /\ UNCHANGED <<bufferVars, size, sentSize, cur, pc, call, netVars, serverVars, failures>>

(* Fault: the new connection inherits the credit of the old one.           *)
HandshakeKeepsCredit ==
    /\ pc = "handshake"
    /\ cur' = Fresh /\ up' = up \cup {Fresh}
    /\ loop' = [loop EXCEPT ![Fresh] = "upgrading"]
    /\ sentSize' = NoSize /\ connAcked' = 0
    /\ pc' = IF call = "connect" THEN "reset" ELSE "size"
    /\ UNCHANGED <<made, pending, unacked, bufferedBytes, dropped, droppedUnacked, size, backoff,
                   call, wire, acks, received, history, roomSize, stored, failures>>

(* handshake succeeds: the per-connection state starts over.  connect goes *)
(* on to write the reset, flush to write the size.                         *)
HandshakeSucceeds ==
    /\ pc = "handshake"
    /\ cur' = Fresh /\ up' = up \cup {Fresh}
    /\ loop' = [loop EXCEPT ![Fresh] = "upgrading"]
    /\ sentSize' = NoSize /\ connAcked' = 0 /\ droppedUnacked' = 0
    /\ pc' = IF call = "connect" THEN "reset" ELSE "size"
    /\ UNCHANGED <<made, pending, unacked, bufferedBytes, dropped, size, backoff, call,
                   wire, acks, received, history, roomSize, stored, failures>>

(* handshake fails, before the server saw it or after it accepted; the     *)
(* first one's failure ends the program.                                   *)
HandshakeFails ==
    /\ pc = "handshake"
    /\ \E seen \in BOOLEAN :
         loop' = [loop EXCEPT ![Fresh] = IF seen THEN "upgrading" ELSE "none"]
    /\ Fail
    /\ backoff' = TRUE
    /\ pc' = IF call = "connect" THEN "exit" ELSE AfterFlush
    /\ UNCHANGED <<bufferVars, size, sentSize, cur, call, netVars,
                   received, history, roomSize, stored>>

(* 401: the only fatal error of a running session.  send and tick return   *)
(* it; shutdown ignores it.                                                *)
HandshakeRefused ==
    /\ pc = "handshake" /\ MayRefuse
    /\ backoff' = TRUE
    /\ pc' = IF call = "shutdown" THEN "closing" ELSE "exit"
    /\ UNCHANGED <<bufferVars, size, sentSize, cur, call, netVars, serverVars, failures>>

(* A frame is written: onto the wire, or nowhere when the connection broke *)
(* and the kernel does not know it yet.                                    *)
Written(frame) ==
    wire' = IF cur \in up THEN [wire EXCEPT ![cur] = Append(@, frame)] ELSE wire

(* connect's reset, on the first connection only; its failure is ignored.  *)
WriteReset ==
    /\ pc = "reset" /\ cur # 0
    /\ Written(ResetFrame)
    /\ pc' = "idle"
    /\ UNCHANGED <<bufferVars, size, sentSize, cur, backoff, call,
                   acks, up, serverVars, failures>>

(* flush writes the size before any chunk.                                 *)
WriteSize ==
    /\ pc = "size"
    /\ Written(SizeFrame(size))
    /\ sentSize' = size
    /\ pc' = "chunks"
    /\ UNCHANGED <<bufferVars, size, cur, backoff, call, acks, up, serverVars, failures>>

(* flush writes the oldest pending chunk.                                  *)
WriteChunk ==
    /\ pc = "chunks" /\ pending # <<>>
    /\ Written(ChunkFrame(Head(pending)))
    /\ pending' = Tail(pending)
    /\ unacked' = Append(unacked, Head(pending))
    /\ UNCHANGED <<made, bufferedBytes, connAcked, droppedUnacked, dropped, size, sentSize,
                   cur, backoff, pc, call, acks, up, serverVars, failures>>

FlushDone ==
    /\ pc = "chunks" /\ pending = <<>>
    /\ pc' = AfterFlush
    /\ UNCHANGED <<bufferVars, size, sentSize, cur, backoff, call,
                   netVars, serverVars, failures>>

(* tick's keepalive: not due, or written.  It carries no data.             *)
Ping ==
    /\ pc = "ping"
    /\ pc' = "idle"
    /\ UNCHANGED <<bufferVars, size, sentSize, cur, backoff, call,
                   netVars, serverVars, failures>>

(* A write fails, on a broken connection or after the write timeout on one *)
(* that is merely stalled: what was written before may still be read.      *)
WriteFails ==
    /\ pc \in {"reset", "size", "chunks", "ping"} /\ cur # 0
    /\ pc = "chunks" => pending # <<>>
    /\ IF cur \in up THEN Fail ELSE UNCHANGED failures
    /\ Disconnect
    /\ pc' = IF pc \in {"reset", "ping"} THEN "idle" ELSE AfterFlush
    /\ UNCHANGED <<size, sentSize, call, netVars, serverVars>>

(* shutdown stops waiting: everything acknowledged, no socket, or out of   *)
(* time; and closes.                                                       *)
Close ==
    /\ pc = "closing"
    /\ pc' = "exit"
    /\ IF cur = 0 THEN UNCHANGED wire ELSE Written(CloseFrame)
    /\ cur' = 0
    /\ UNCHANGED <<bufferVars, size, sentSize, backoff, call, acks, up, serverVars, failures>>

-----------------------------------------------------------------------------
(* The network and the ingest loops.                                       *)

(* A connection breaks: what was under way in either direction arrives up  *)
(* to some point.                                                          *)
Break(k) ==
    /\ k \in up /\ Fail
    /\ up' = up \ {k}
    /\ \E n \in 0 .. Len(wire[k]), m \in 0 .. Len(acks[k]) :
         /\ wire' = [wire EXCEPT ![k] = Prefix(@, n)]
         /\ acks' = [acks EXCEPT ![k] = Prefix(@, m)]
    /\ UNCHANGED <<clientVars, serverVars>>

(* broadcaster_connected.                                                  *)
Attach(k) ==
    /\ loop[k] = "upgrading"
    /\ loop' = [loop EXCEPT ![k] = "open"]
    /\ UNCHANGED <<clientVars, netVars, received, history, roomSize, stored, failures>>

Broadcasters == Cardinality({k \in Conns : loop[k] = "open"})

Reads(k, kind) ==
    /\ loop[k] = "open" /\ wire[k] # <<>> /\ Head(wire[k]).kind = kind
    /\ wire' = [wire EXCEPT ![k] = Tail(@)]
    /\ UNCHANGED <<clientVars, up, failures>>

(* The ack goes out while the connection stands.                           *)
Acks(k, total) ==
    acks' = IF k \in up THEN [acks EXCEPT ![k] = Append(@, total)] ELSE acks

(* A binary frame: stored, counted, acknowledged.                          *)
ReadChunk(k) ==
    LET i == Head(wire[k]).n
    IN  /\ Reads(k, "chunk")
        /\ history' = history \cup {i}
        /\ stored' = stored \cup {i}
        /\ received' = [received EXCEPT ![k] = @ + Length[i]]
        /\ Acks(k, received[k] + Length[i])
        /\ UNCHANGED <<loop, roomSize>>

ReadSize(k) ==
    /\ Reads(k, "size")
    /\ roomSize' = Head(wire[k]).n
    /\ Acks(k, received[k])
    /\ UNCHANGED <<loop, received, history, stored>>

(* Rooms::reset: skipped while another connection is attached.             *)
ReadReset(k) ==
    /\ Reads(k, "reset")
    /\ history' = IF Broadcasters > 1 THEN history ELSE {}
    /\ UNCHANGED <<acks, loop, received, roomSize, stored>>

ReadClose(k) ==
    /\ Reads(k, "close")
    /\ loop' = [loop EXCEPT ![k] = "closed"]
    /\ UNCHANGED <<acks, received, history, roomSize, stored>>

(* The loop ends: the client or the network has left, which it finds when  *)
(* there is no more to read, or when it cannot write an ack, and then      *)
(* leaves the rest unread.                                                 *)
LoopEnds(k) ==
    /\ loop[k] \in {"upgrading", "open"} /\ (k \notin up \/ cur # k)
    /\ loop' = [loop EXCEPT ![k] = "closed"]
    /\ up' = up \ {k}
    /\ wire' = [wire EXCEPT ![k] = <<>>]
    /\ UNCHANGED <<clientVars, acks, received, history, roomSize, stored, failures>>

(* The loop gives up on a connection that stands: its idle timeout, an ack *)
(* that takes too long, a server going down.                               *)
LoopQuits(k) ==
    /\ loop[k] \in {"upgrading", "open"} /\ k \in up /\ Fail
    /\ loop' = [loop EXCEPT ![k] = "closed"]
    /\ up' = up \ {k}
    /\ wire' = [wire EXCEPT ![k] = <<>>]
    /\ UNCHANGED <<clientVars, acks, received, history, roomSize, stored>>

ClientStep ==
    \/ Send \/ Tick \/ Shutdown \/ DrainAck \/ DrainBlocks \/ DrainDies \/ NoSocket
    \/ HandshakeSucceeds \/ HandshakeFails \/ HandshakeRefused
    \/ WriteReset \/ WriteSize \/ WriteChunk \/ FlushDone \/ Ping \/ WriteFails \/ Close

LoopStep(k) ==
    \/ Attach(k) \/ ReadChunk(k) \/ ReadSize(k) \/ ReadReset(k) \/ ReadClose(k) \/ LoopEnds(k)

Next ==
    \/ ClientStep
    \/ BackoffEnds
    \/ \E k \in Conns : LoopStep(k) \/ Break(k) \/ LoopQuits(k)

Spec == Init /\ [][Next]_vars

(* The callers of send and tick keep ticking (the main loops of the CLI),  *)
(* a write or a read on the socket returns, the backoff runs out, the      *)
(* server's loops are scheduled, and an ack or the death of a connection   *)
(* gets through to a client that keeps looking.  A network that fails only *)
(* so often is the bound Failures.                                         *)
Fairness ==
    /\ WF_vars(ClientStep /\ pc # "idle")
    /\ WF_vars(Tick)
    /\ WF_vars(BackoffEnds)
    /\ SF_vars(DrainAck) /\ SF_vars(DrainDies)
    /\ \A k \in Conns : WF_vars(LoopStep(k))

FairSpec == Spec /\ Fairness

-----------------------------------------------------------------------------
(* Properties.                                                             *)

Held == ToSet(unacked \o pending)

(* Every variable has its type.  The two queues hold consecutive chunks in *)
(* the order of the output, up to the newest, and buffered_bytes is what   *)
(* they hold and stays within the cap, through every drop, ack and         *)
(* reconnect.                                                              *)
TypeOK ==
    /\ made \in 0 .. Chunks
    /\ pending \in Seq(1 .. Chunks) /\ unacked \in Seq(1 .. Chunks)
    /\ bufferedBytes \in Nat /\ connAcked \in Nat /\ droppedUnacked \in Nat
    /\ size \in 1 .. Sizes /\ sentSize \in 0 .. Sizes
    /\ cur \in Conns \cup {0} /\ backoff \in BOOLEAN
    /\ pc \in {"handshake", "reset", "idle", "drain", "size", "chunks", "ping",
               "closing", "exit"}
    /\ call \in {"connect", "send", "tick", "shutdown"}
    /\ wire \in [Conns -> Seq(Frame)] /\ acks \in [Conns -> Seq(Nat)]
    /\ up \subseteq Conns
    /\ loop \in [Conns -> {"none", "upgrading", "open", "closed"}]
    /\ received \in [Conns -> Nat]
    /\ history \subseteq 1 .. Chunks /\ roomSize \in 0 .. Sizes
    /\ failures \in 0 .. Failures
    /\ stored \subseteq 1 .. Chunks /\ dropped \subseteq 1 .. Chunks
    /\ bufferedBytes = Bytes(unacked) + Bytes(pending) /\ bufferedBytes <= Cap
    /\ LET queue == unacked \o pending
       IN  \A i \in DOMAIN queue : queue[i] = made - Len(queue) + i

(* The output a sequence of frames carries.                                *)
Payload(w) == SumOf([j \in DOMAIN w |-> IF w[j].kind = "chunk" THEN Length[w[j].n] ELSE 0])

(* What the client thinks is written and not acknowledged on the current   *)
(* connection is exactly what the server counted or has yet to read, so a  *)
(* cumulative ack never releases a chunk on the credit of a dropped one,   *)
(* and the acks under way land on chunk boundaries.                        *)
CreditMatchesWire ==
    cur \in up =>
      /\ connAcked + droppedUnacked + Bytes(unacked) = received[cur] + Payload(wire[cur])
      /\ \A j \in DOMAIN acks[cur] : connAcked <= acks[cur][j] /\ acks[cur][j] <= received[cur]

(* The transport delivers at least once, in order for the first time, and  *)
(* loses nothing but what the cap drops (TransportProof): nothing is       *)
(* released that the server does not have, whatever fails.                 *)
Delivery == INSTANCE AtLeastOnce WITH held <- Held
AtLeastOnceDelivery == Delivery!Spec

(* What is produced leaves the buffer in the end, stored or dropped by the *)
(* cap, unless the program ends first: every outage is recovered from.     *)
EventuallyReleased ==
    \A i \in 1 .. Chunks : (i <= made) ~> (i \notin Held \/ pc = "exit")

(* The dial of the first handshake, of any name: the first address that    *)
(* answers is connected to, although addresses before it are silent, if    *)
(* the budget had an attempt for each of those and one for it; less than   *)
(* that will do when it answers at once.                                   *)
DialReaches ==
    pc = "handshake" /\ call = "connect" =>
      \A kinds \in SeqOf(Kinds, Addresses) :
        LET answering == SelectInSeq(kinds, LAMBDA k : k \in {"prompt", "slow"})
            silent    == Cardinality({j \in 1 .. answering - 1 : kinds[j] = "silent"})
            needed    == IF kinds[answering] = "slow" THEN (silent + 1) * MinDialAttempt
                         ELSE silent * MinDialAttempt + 1
        IN  answering # 0 /\ needed <= DialTimeout => Dialed(kinds).to = answering
=============================================================================
