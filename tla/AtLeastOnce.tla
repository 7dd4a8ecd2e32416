----------------------------- MODULE AtLeastOnce -----------------------------
(***************************************************************************)
(* What the broadcasting client promises of its output (header of          *)
(* cli/ws.rs): every chunk is held until it is stored, unless the replay   *)
(* cap dropped it; a chunk may be stored again and again, but none is      *)
(* stored for the first time while an older one is still missing.          *)
(***************************************************************************)
EXTENDS Naturals

CONSTANT Chunks         \* how many chunks the session may produce

VARIABLES
    made,       \* the number of chunks produced; chunk i is the i-th
    held,       \* chunks the client still holds
    stored,     \* chunks the server stored at least once
    dropped     \* chunks the cap discarded

vars == <<made, held, stored, dropped>>

Init == made = 0 /\ held = {} /\ stored = {} /\ dropped = {}

(* One or more new chunks; the oldest held ones may have to make room.     *)
Produce ==
    \E n \in (made + 1) .. Chunks :
      \E out \in SUBSET (held \cup ((made + 1) .. n)) :
        /\ \A i \in out, j \in (held \cup ((made + 1) .. n)) \ out : i < j
        /\ made' = n
        /\ held' = (held \cup ((made + 1) .. n)) \ out
        /\ dropped' = dropped \cup out
        /\ UNCHANGED stored

(* The server stores chunk i, possibly again.                              *)
Store ==
    \E i \in 1 .. made :
      /\ \A j \in 1 .. (i - 1) : j \in stored \cup dropped
      /\ stored' = stored \cup {i}
      /\ UNCHANGED <<made, held, dropped>>

(* The client lets go of what it knows to be stored, oldest first.         *)
Release ==
    \E out \in SUBSET (held \cap stored) :
      /\ \A i \in out, j \in held \ out : i < j
      /\ held' = held \ out
      /\ UNCHANGED <<made, stored, dropped>>

Next == Produce \/ Store \/ Release
Spec == Init /\ [][Next]_vars

(* Nothing is lost silently: every chunk produced is held by the client,   *)
(* stored by the server or dropped by the cap (buffer_plaintext).          *)
NothingLost == 1 .. made \subseteq held \cup stored \cup dropped

(* What is stored has no hole but those the cap made: a chunk is stored    *)
(* only when all the older ones were, at least once, or were dropped.      *)
NoHoles ==
    \A i \in stored : i \in 1 .. made /\ 1 .. (i - 1) \subseteq stored \cup dropped
=============================================================================
