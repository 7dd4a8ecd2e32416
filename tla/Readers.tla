------------------------------ MODULE Readers ------------------------------
(***************************************************************************)
(* A room with one reader: a viewer's page or an agent's script, told from *)
(* the start.  The room goes on whatever its reader does.                  *)
(***************************************************************************)
EXTENDS ViewerPage, AgentReader

VARIABLE reader     \* page or agent

vars == <<feedVars, pageVars, agentVars, reader>>

Init ==
    /\ FeedInit /\ PageInit /\ AgentInit
    /\ reader \in {"page", "agent"}
    /\ reader = "page" => mode = "follow"
    /\ reader = "agent" => key # "unusable"     \* to the script it is no key

Page  == reader = "page"  /\ PageNext  /\ UNCHANGED <<agentVars, reader>>
Agent == reader = "agent" /\ AgentNext /\ UNCHANGED <<pageVars, reader>>
Room  == FeedNext /\ UNCHANGED <<pageVars, agentVars, reader>>

Next == Room \/ Page \/ Agent

Spec == Init /\ [][Next]_vars

(* The readers' events happen, the server accepts, and the network fails   *)
(* only so often; broadcasters owe nothing.                                *)
IsPage(A) == reader = "page" /\ A /\ UNCHANGED <<agentVars, reader>>
IsAgent(A) == reader = "agent" /\ A /\ UNCHANGED <<pageVars, reader>>
FairSpec ==
    /\ Spec
    /\ WF_vars(IsPage(TerminalCreated)) /\ WF_vars(IsPage(Decrypted(Len(chains))))
    /\ WF_vars(IsPage(PageOpens)) /\ WF_vars(IsPage(PageReconnects))
    /\ WF_vars(IsPage(PageMessage))
    /\ WF_vars(IsAgent(Reads)) /\ WF_vars(IsAgent(FollowOpens))
    /\ WF_vars(IsAgent(FollowMessage)) /\ WF_vars(IsAgent(TimerFires))

(* For the model checker: an announcement that comes again, in the first   *)
(* session and with one record at most, or a connection that fails.        *)
AgainOrFailure == repeats = 0 \/ (breaks = 0 /\ sessions <= 1 /\ made <= 1)

-----------------------------------------------------------------------------
(* Properties.                                                             *)

TypeOK == FeedTypeOK /\ PageTypeOK /\ AgentTypeOK /\ reader \in {"page", "agent"}

(* A quiet page shows exactly what the room holds and its link can open,   *)
(* once and in order, whatever reconnects, resets, slow decryptions and a  *)
(* late terminal came before; its notice is that of this content, not of a *)
(* session or a connection that is gone; and its status dot is the room's, *)
(* unless it was told again that the broadcaster left, and never lit on a  *)
(* connection that is down.                                                *)
PageShowsRoom ==
    /\ status = "online" => socket = "open"
    /\ reader = "page" /\ Quiet =>
         /\ repeats = 0 => (status = "online" <=> online)
         /\ CASE key = "good" ->
                   /\ screen = Mine(stored)
                   /\ stored # <<>> => (notice = "hidden" <=> seal = "mine")
              [] key = "none" /\ ~encryptedWithoutKey ->
                   screen = stored /\ notice = "hidden"
              [] OTHER -> notice # "hidden"

(* As long as the fan-out keeps up, no reader without a key shows          *)
(* ciphertext, on the page (onMessage) or in what the agent reports: the   *)
(* size that says so, or the first frame, is handled before a sealed       *)
(* record on every path.  With a fan-out that lags see CiphertextIsStale.  *)
NeverCiphertext ==
    ~HasKey => \A r \in ToSet(screen \o pendingWrites \o printed) : r.seal = "plain"

(* A follower's log has no hole and repeats nothing: with what it has yet  *)
(* to handle it is every record from its snapshot on, whatever sessions    *)
(* took the room, until a record it cannot find the end of.                *)
LogIsWhole ==
    LET Numbers(recs) == [i \in DOMAIN recs |-> recs[i].n - joined]
    IN  /\ Numbers(printed) = [i \in DOMAIN printed |-> i]
        /\ reader = "agent" /\ mode = "follow" /\ socket = "open" /\ buf = <<>> =>
             Numbers(printed \o Unread) = [i \in 1 .. made - joined |-> i]

(* A follower that ends by its timer heard that the broadcaster had left,  *)
(* and nothing since: a blip does not pass for the end of the broadcast.   *)
(* A timer whose handle was overwritten ends it all the same, but there is *)
(* one only when the server announced twice in a row that the broadcaster  *)
(* left.                                                                   *)
BlipIsNotTheEnd ==
    /\ ended = "timer" => heard = "offline"
    /\ ended = "lostTimer" => repeats > 0

(* When the connections stop failing the page ends up quiet: every way a   *)
(* connection or an attempt can end leads to another one.                  *)
PageRecovers == reader = "page" => <>[]Quiet

(* A reader of a room whose broadcaster leaves for good comes to an end.   *)
AgentEnds == reader = "agent" /\ <>[]~online => <>(outcome # "running")
=============================================================================
