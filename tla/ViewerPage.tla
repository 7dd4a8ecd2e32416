----------------------------- MODULE ViewerPage -----------------------------
(***************************************************************************)
(* The browser page that shows a room (public/javascript/room.js): its     *)
(* back-off, the chain of asynchronous decryptions and the epoch that cuts *)
(* it off, the terminal that starts late, the broadcaster's status, and    *)
(* the verdicts on its key.                                                *)
(*                                                                         *)
(* An event handler of the page runs to its end, so it is one step.  Two   *)
(* connections' frames never mix: a new one starts empty.                  *)
(***************************************************************************)
EXTENDS Feed

CONSTANT MaxDelay       \* RECONNECT_MAX_MS, in doublings of RECONNECT_MIN_MS

ASSUME DelayTyped == MaxDelay \in Nat

VARIABLES
    joinedBefore,
    delay,          \* reconnectDelayMs
    status,         \* broadcastStatus
    chains,         \* the decryption chain of every epoch; the last is current
    term,           \* the terminal exists
    pendingWrites,
    screen,         \* what was written to the terminal since it was cleared
    encryptedWithoutKey,
    notice

socketVars == <<joinedBefore, delay>>
screenVars == <<chains, term, pendingWrites, screen>>
verdictVars == <<encryptedWithoutKey, notice>>
pageVars == <<socketVars, status, screenVars, verdictVars>>

PageInit ==
    /\ joinedBefore = FALSE /\ delay = 0 /\ status = "offline"
    /\ chains = << <<>> >> /\ term = FALSE /\ pendingWrites = <<>> /\ screen = <<>>
    /\ encryptedWithoutKey = FALSE
    /\ notice = IF key = "unusable" THEN "unusable" ELSE "hidden"

-----------------------------------------------------------------------------
(* The screen.                                                             *)

(* writeBytes of each: what comes before the terminal does is kept.        *)
Write(recs) ==
    IF term THEN screen' = screen \o recs /\ UNCHANGED pendingWrites
    ELSE pendingWrites' = pendingWrites \o recs /\ UNCHANGED screen

(* clearScreen: a new epoch, with a chain of its own.                      *)
ClearScreen ==
    /\ chains' = Append(chains, <<>>)
    /\ pendingWrites' = <<>>
    /\ screen' = <<>>
    /\ UNCHANGED term

(* createTerminal, once the font is there or has failed.                   *)
TerminalCreated ==
    /\ ~term
    /\ term' = TRUE
    /\ screen' = pendingWrites
    /\ pendingWrites' = <<>>
    /\ UNCHANGED <<feedVars, socketVars, status, chains, verdictVars>>

(* The records of a message that the key opens, or none of them when the   *)
(* framing is not ours: nothing after it can be found.                     *)
Opened(recs) ==
    IF \E i \in DOMAIN recs : recs[i].seal = "plain" THEN <<>>
    ELSE Mine(recs)

(* Fault: what was decrypted is written whatever became of its epoch.      *)
DecryptedUnchecked(e) ==
    LET recs == Opened(Head(chains[e]))
    IN  /\ chains[e] # <<>>
        /\ chains' = [chains EXCEPT ![e] = Tail(@)]
        /\ Write(recs)
        /\ notice' = IF recs # <<>> THEN "hidden" ELSE "wrong"
        /\ UNCHANGED <<feedVars, socketVars, status, term, encryptedWithoutKey>>

(* The oldest message in the chain of epoch e is decrypted: written, and   *)
(* the notice set, if no later epoch has begun.                            *)
Decrypted(e) ==
    LET recs == Opened(Head(chains[e]))
    IN  /\ chains[e] # <<>>
        /\ chains' = [chains EXCEPT ![e] = Tail(@)]
        /\ IF e = Len(chains)
             THEN Write(recs) /\ notice' = IF recs # <<>> THEN "hidden" ELSE "wrong"
             ELSE UNCHANGED <<pendingWrites, screen, notice>>
        /\ UNCHANGED <<feedVars, socketVars, status, term, encryptedWithoutKey>>

-----------------------------------------------------------------------------
(* The socket.                                                             *)

(* onopen: from the second connection on, the snapshot replaces what is    *)
(* shown.                                                                  *)
PageOpens ==
    /\ Connected
    /\ IF joinedBefore THEN ClearScreen ELSE UNCHANGED screenVars
    /\ joinedBefore' = TRUE
    /\ UNCHANGED <<delay, status, verdictVars>>

(* onclose: the broadcaster's state is unknown, the timer is set and the   *)
(* next delay doubled.                                                     *)
PageCloses ==
    /\ Broken
    /\ delay' = IF delay < MaxDelay THEN delay + 1 ELSE delay
    /\ status' = "offline"
    /\ UNCHANGED <<joinedBefore, screenVars, verdictVars>>

(* Fault: only a page that was once connected tries again.                 *)
PageReconnectsIfJoined ==
    /\ socket = "closed" /\ joinedBefore
    /\ socket' = "connecting"
    /\ UNCHANGED <<roomVars, key, inbox, breaks, pageVars>>

(* The timer fires: connect.                                               *)
PageReconnects ==
    /\ socket = "closed"
    /\ socket' = "connecting"
    /\ UNCHANGED <<roomVars, key, inbox, breaks, pageVars>>

(* Fault: a size that tells nothing new takes the verdict back.            *)
ReceiveSizeForgets ==
    LET blind == Head(inbox).seal # "plain" /\ key = "none" /\ ~encryptedWithoutKey
    IN  /\ encryptedWithoutKey' = blind
        /\ notice' = IF blind THEN "missing" ELSE notice
        /\ UNCHANGED <<delay, status, screenVars>>

(* onSize, for the flag it carries: a page without a key learns that it    *)
(* needs one.                                                              *)
ReceiveSize ==
    LET blind == Head(inbox).seal # "plain" /\ key = "none" /\ ~encryptedWithoutKey
    IN  /\ encryptedWithoutKey' = (encryptedWithoutKey \/ blind)
        /\ notice' = IF blind THEN "missing" ELSE notice
        /\ UNCHANGED <<delay, status, screenVars>>

(* onMessage: to the chain, nowhere, or to the terminal.                   *)
ReceiveBytes ==
    LET recs == Head(inbox).recs
    IN  /\ CASE key = "good" ->
                  /\ chains' = [chains EXCEPT ![Len(chains)] = Append(@, recs)]
                  /\ UNCHANGED <<pendingWrites, screen>>
             [] key = "none" /\ ~encryptedWithoutKey ->
                  Write(recs) /\ UNCHANGED chains
             [] OTHER -> UNCHANGED <<chains, pendingWrites, screen>>
        /\ UNCHANGED <<delay, status, term, verdictVars>>

(* The count ends the snapshot: the connection was worth having.           *)
ReceiveCount == delay' = 0 /\ UNCHANGED <<status, screenVars, verdictVars>>

ReceiveStatus(live) ==
    /\ status' = IF live THEN "online" ELSE "offline"
    /\ UNCHANGED <<delay, screenVars, verdictVars>>

ReceiveReset == ClearScreen /\ UNCHANGED <<delay, status, verdictVars>>

PageMessage ==
    /\ UNCHANGED <<socket, joinedBefore>>
    /\ \/ Receives("size") /\ ReceiveSize
       \/ Receives("bytes") /\ ReceiveBytes
       \/ Receives("online") /\ ReceiveStatus(TRUE)
       \/ Receives("offline") /\ ReceiveStatus(FALSE)
       \/ Receives("count") /\ ReceiveCount
       \/ Receives("reset") /\ ReceiveReset

PageNext ==
    \/ TerminalCreated
    \/ \E e \in DOMAIN chains : Decrypted(e)
    \/ PageOpens \/ PageCloses \/ PageReconnects \/ PageMessage

-----------------------------------------------------------------------------
(* Properties.                                                             *)

(* Every variable has its type, and the back-off its maximum.              *)
PageTypeOK ==
    /\ joinedBefore \in BOOLEAN /\ delay \in 0 .. MaxDelay
    /\ status \in {"online", "offline"}
    /\ chains \in Seq(Seq(Seq(Record))) /\ term \in BOOLEAN
    /\ pendingWrites \in Seq(Record) /\ screen \in Seq(Record)
    /\ encryptedWithoutKey \in BOOLEAN
    /\ notice \in {"hidden", "unusable", "missing", "wrong"}

(* The page is connected and has handled everything it was sent.           *)
Quiet == socket = "open" /\ inbox = <<>> /\ Last(chains) = <<>> /\ term
=============================================================================
