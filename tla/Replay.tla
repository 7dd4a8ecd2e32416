------------------------------- MODULE Replay -------------------------------
(***************************************************************************)
(* What a late joiner can rebuild a full-screen program from.  The program *)
(* paints the screen once and then sends the cells that change, and the    *)
(* server keeps a bounded history; so the broadcaster runs a terminal of   *)
(* its own over the output (screen.rs) and, every FramesPerKeyframe frames *)
(* and on a resize, sends a redraw of the whole screen after the output it *)
(* reflects.  The redraw is a message like the others: it can be evicted   *)
(* from the client's replay buffer, sent again after a reconnect, lost     *)
(* with a server that restarts, and trimmed from the history.              *)
(*                                                                         *)
(* Of the connection (Transport has it all) this keeps what reaches the    *)
(* history: a chunk that was written and not received is one that was not  *)
(* written.                                                                *)
(***************************************************************************)
EXTENDS Integers, MessageHistory

Larger(a, b) == IF a > b THEN a ELSE b

CONSTANTS
    FramesPerKeyframe,  \* FRAMES_PER_KEYFRAME
    KeyLength,          \* the length of a redraw
    MaxBuffered,        \* MAX_BUFFERED_BYTES
    FrameLengths,       \* bound: the lengths of frames
    OtherLengths,       \* bound: lengths of whatever else a broadcaster may push
    Resizes,            \* bound: times the terminal is resized, always to a new size
    Frames,             \* bound: frames the program sends
    Repeats,            \* bound: messages that were received and a reconnect repeats
    Breaks              \* bound: connections that fail, the server's restarts included

ASSUME CadenceTyped == /\ FramesPerKeyframe \in Nat \ {0} /\ KeyLength \in Nat \ {0}
                       /\ FrameLengths \subseteq Nat \ {0} /\ OtherLengths \subseteq Nat
                       /\ MaxBuffered \in Nat
                       /\ Frames \in Nat /\ Repeats \in Nat /\ Breaks \in Nat
                       /\ Resizes \in Nat

(* The arithmetic of rooms.rs and its headroom: after the newest redraw    *)
(* come fewer than FramesPerKeyframe frames, then the frame that makes the *)
(* next one due, and what reconnects repeat.  200 messages and 8 MB allow  *)
(* for three reconnects in a cadence and 139 messages repeated.            *)
ASSUME WindowHoldsKeyframe ==
    /\ MaxMessages > FramesPerKeyframe + Breaks * Repeats
    /\ \A longest \in FrameLengths :
         MaxBytes >= KeyLength + FramesPerKeyframe * longest + Breaks * MaxBuffered

VARIABLES
    (* the broadcaster's terminal *)
    alt,            \* it shows the alternate screen
    size,
    framesSince,
    (* the broadcaster's buffer *)
    pending,
    unacked,
    (* the server *)
    chunks,
    bytes,
    (* the bounds, and what is gone *)
    fed,            \* frames sent
    breaks,
    lost            \* the newest frame that will never arrive, or is gone with a server

bufferVars == <<pending, unacked>>
historyVars == <<chunks, bytes>>
keyframerVars == <<alt, size, framesSince>>
vars == <<keyframerVars, bufferVars, historyVars, fed, breaks, lost>>

(* What MessageHistory works on.                                           *)
History == [chunks |-> chunks, bytes |-> bytes]

Init ==
    /\ alt = FALSE /\ size = 0 /\ framesSince = 0
    /\ pending = <<>> /\ unacked = <<>>
    /\ chunks = <<>> /\ bytes = 0
    /\ fed = 0 /\ breaks = 0
    /\ lost = -FramesPerKeyframe

-----------------------------------------------------------------------------
(* The keyframer.                                                          *)

(* Fault: a resize waits for the cadence.                                  *)
FedPatiently(newSize) == framesSince + 1

(* framesSince after a frame is fed at this size: a new size makes the     *)
(* next redraw due at once.                                                *)
Fed(newSize) == (IF newSize # size THEN FramesPerKeyframe ELSE framesSince) + 1

IsDue(count) == count >= FramesPerKeyframe

-----------------------------------------------------------------------------
(* The buffer's cap: the oldest go first, those already written before     *)
(* those that are not.  What goes before it is written is lost.            *)
Buffer(messages) ==
    LET all     == unacked \o pending \o messages
        dropped == Min({d \in 0 .. Len(all) : BytesOf(Suffix(all, d)) <= MaxBuffered})
    IN  IF dropped <= Len(unacked)
          THEN /\ unacked' = Suffix(unacked, dropped)
               /\ pending' = pending \o messages
               /\ lost' = lost
          ELSE /\ unacked' = <<>>
               /\ pending' = Suffix(all, dropped)
               /\ lost' = all[dropped].n

(* send: the frame is fed and buffered, and the redraw after it when it is *)
(* due and the program is on the alternate screen.  A due check restarts   *)
(* the count even when it sends nothing.                                   *)
(* A message says which frame it is or follows, whether it draws the whole *)
(* screen, and the screen as of it.                                        *)
Output ==
    /\ fed < Frames
    /\ fed' = fed + 1
    /\ \E full \in BOOLEAN, leaves \in BOOLEAN, len \in FrameLengths, newSize \in {size, size + 1} :
         LET count == Fed(newSize)
             frame == [n |-> fed', kind |-> "frame", full |-> full, alt |-> alt',
                       size |-> newSize, len |-> len]
             redraw == [frame EXCEPT !.kind = "redraw", !.full = TRUE, !.len = KeyLength]
         IN  /\ (full => ~alt) /\ (leaves => alt) /\ newSize <= Resizes
             /\ alt' = ((alt \/ full) /\ ~leaves)
             /\ size' = newSize
             /\ framesSince' = IF IsDue(count) THEN 0 ELSE count
             /\ Buffer(<<frame>> \o (IF IsDue(count) /\ alt' THEN <<redraw>> ELSE <<>>))
    /\ UNCHANGED <<historyVars, breaks>>

-----------------------------------------------------------------------------
(* The connection.                                                         *)

Deliver ==
    /\ pending # <<>>
    /\ LET after == PushedOnto(History, Head(pending))
       IN  chunks' = after.chunks /\ bytes' = after.bytes
    /\ unacked' = Append(unacked, Head(pending))
    /\ pending' = Tail(pending)
    /\ UNCHANGED <<keyframerVars, fed, breaks, lost>>

Acked ==
    /\ unacked # <<>>
    /\ unacked' = Tail(unacked)
    /\ UNCHANGED <<keyframerVars, pending, historyVars, fed, breaks, lost>>

(* The connection fails; what is not acknowledged will be sent again.      *)
Break ==
    /\ breaks < Breaks /\ Len(unacked) <= Repeats
    /\ breaks' = breaks + 1
    /\ pending' = unacked \o pending /\ unacked' = <<>>
    /\ UNCHANGED <<keyframerVars, historyVars, fed, lost>>

(* The server is gone with the room: only what is in the buffer comes back.*)
Restart ==
    /\ breaks < Breaks
    /\ breaks' = breaks + 1
    /\ pending' = unacked \o pending /\ unacked' = <<>>
    /\ chunks' = <<>> /\ bytes' = 0
    /\ lost' = IF pending' = <<>> THEN fed ELSE Larger(lost, Head(pending').n - 1)
    /\ UNCHANGED <<keyframerVars, fed>>

Next == Output \/ Deliver \/ Acked \/ Break \/ Restart

Spec == Init /\ [][Next]_vars

-----------------------------------------------------------------------------
(* Properties.                                                             *)

(* The newest frame the history reflects.                                  *)
Newest == Max({c.n : c \in ToSet(chunks)})

(* The history from its message i on draws the whole screen and then all   *)
(* that changed after it.                                                  *)
Rebuilds(i) ==
    /\ chunks[i].full
    /\ \A n \in chunks[i].n + 1 .. Newest :
         \E j \in i + 1 .. Len(chunks) : chunks[j].n = n /\ chunks[j].kind = "frame"

(* Whenever a viewer joins a program on the alternate screen, the history  *)
(* it is replayed rebuilds the whole screen, at the size of its newest     *)
(* output once the redraw a resize forces has come; unless one of the last *)
(* FramesPerKeyframe frames was lost, so that no redraw has been due since.*)
LateJoinerSeesTheScreen ==
    LET latest == CHOOSE c \in ToSet(chunks) : c.n = Newest
    IN  chunks # <<>> /\ latest.alt /\ Newest - lost > FramesPerKeyframe =>
          \E i \in DOMAIN chunks :
             /\ Rebuilds(i)
             /\ \/ chunks[i].size = latest.size
                \/ \E m \in ToSet(pending) : m.kind = "redraw" /\ m.n = Newest

(* Whatever is pushed next, the history becomes the longest suffix of its  *)
(* non-empty messages that fits: whole chunks only (each is one sealed     *)
(* record), nothing skipped in the middle, nothing evicted for an empty    *)
(* message or without need, and the newest chunk survives, be it over the  *)
(* byte budget alone.                                                      *)
LongestSuffixThatFits ==
    \A len \in OtherLengths :
      LET message == [n |-> Frames, kind |-> "frame", full |-> FALSE, alt |-> alt,
                      size |-> size, len |-> len]
          kept    == LongestFitting(IF len = 0 THEN chunks ELSE Append(chunks, message))
      IN  PushedOnto(History, message) = [chunks |-> kept, bytes |-> BytesOf(kept)]
=============================================================================
