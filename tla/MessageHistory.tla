--------------------------- MODULE MessageHistory ---------------------------
(***************************************************************************)
(* The bounded history a late joiner is replayed (protocol.rs): chunks are *)
(* pushed at the back and trimmed whole from the front until both bounds   *)
(* hold, with the byte count kept beside them.  Of a chunk only its length *)
(* matters here; it is a record, so that two chunks of a length differ.    *)
(***************************************************************************)
EXTENDS Naturals, Sequences, SequencesExt, FiniteSetsExt, Sums

CONSTANTS
    MaxMessages,    \* MAX_HISTORY_MESSAGES
    MaxBytes        \* MAX_HISTORY_BYTES

ASSUME BoundsTyped == MaxMessages \in Nat \ {0} /\ MaxBytes \in Nat

Empty == [chunks |-> <<>>, bytes |-> 0]

(* Fault: the newest chunk gives way to the byte budget too.               *)
TooMuchAlways(h) == Len(h.chunks) > MaxMessages \/ h.bytes > MaxBytes

(* The condition of push's loop.                                           *)
TooMuch(h) ==
    Len(h.chunks) > MaxMessages \/ (h.bytes > MaxBytes /\ Len(h.chunks) > 1)

Popped(h) ==
    [chunks |-> Tail(h.chunks), bytes |-> h.bytes - Head(h.chunks).len]

(* push's loop: pops while there is too much.                              *)
Trimmed(h) ==
    LET after[n \in 0 .. Len(h.chunks)] ==
          IF n = 0 THEN h
          ELSE LET before == after[n - 1]
               IN  IF TooMuch(before) THEN Popped(before) ELSE before
    IN  after[Len(h.chunks)]

(* An empty message changes nothing.                                       *)
PushedOnto(h, message) ==
    IF message.len = 0 THEN h
    ELSE Trimmed([chunks |-> Append(h.chunks, message), bytes |-> h.bytes + message.len])

-----------------------------------------------------------------------------
BytesOf(messages) == SumOf([i \in DOMAIN messages |-> messages[i].len])
Suffix(s, d) == SubSeq(s, d + 1, Len(s))

(* What the bounds allow to be kept, and the most of it.                   *)
Fits(messages) ==
    Len(messages) <= MaxMessages /\ (BytesOf(messages) <= MaxBytes \/ Len(messages) = 1)

LongestFitting(messages) ==
    Suffix(messages, Min({d \in 0 .. Len(messages) : Fits(Suffix(messages, d))}))
=============================================================================
