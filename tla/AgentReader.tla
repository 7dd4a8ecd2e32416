---------------------------- MODULE AgentReader ----------------------------
(***************************************************************************)
(* The reader an agent runs on a share link (templates/agent.mjs): the     *)
(* history once, from the raw-history resource, or that and what follows   *)
(* until the broadcaster leaves.  It prints what its key opens, and its    *)
(* exit code says whether that is all there was.                           *)
(***************************************************************************)
EXTENDS Feed, FiniteSetsExt

VARIABLES
    mode,           \* once, or follow
    opened, checked, sawOutput, live,
    ending,         \* the timer that ends the run is set
    lost,           \* another runs whose handle was overwritten
    buf,            \* records a bogus length made it wait for
    printed,
    outcome,        \* running, or the exit: "ok" is 0, "error" is 1
    ended,          \* what ended it
    joined,         \* records made before those of its snapshot
    heard           \* the status it handled last

agentVars == <<mode, opened, checked, sawOutput, live, ending, lost, buf, printed, outcome,
               ended, joined, heard>>

HasKey == key = "good"

AgentInit ==
    /\ mode \in {"once", "follow"}
    /\ opened = FALSE /\ checked = FALSE /\ sawOutput = FALSE /\ live = FALSE
    /\ ending = FALSE /\ lost = FALSE /\ buf = <<>> /\ printed = <<>>
    /\ outcome = "running" /\ ended = "no" /\ joined = 0 /\ heard = "offline"

(* mismatch: a link without a key meets a record, or one with a key meets  *)
(* what is not a record.                                                   *)
Mismatch(recs) == recs # <<>> /\ (HasKey <=> Head(recs).seal = "plain")

(* decode: the records the key opens, up to the first that is not a        *)
(* record, whose length is bogus and awaits more than ever comes; or       *)
(* nothing, when a record is another key's.                                *)
Whole(recs) ==
    LET stray == {i \in DOMAIN recs : HasKey /\ recs[i].seal = "plain"}
    IN  IF stray = {} THEN recs ELSE SubSeq(recs, 1, Min(stray) - 1)

(* Fault: what was decoded is not consumed.                                *)
RestUnconsumed(recs) == recs

(* What stays in the buffer.                                               *)
Rest(recs) == SubSeq(recs, Len(Whole(recs)) + 1, Len(recs))

WrongKey(recs) == HasKey /\ \E r \in ToSet(Whole(recs)) : r.seal = "other"

(* Fault: stop leaves the timer running.                                   *)
StopsButTimer(code, why) ==
    /\ outcome' = code /\ ended' = why
    /\ ending' = ending /\ lost' = lost

(* stop: the process ends here.                                            *)
Stops(code, why) ==
    /\ outcome' = code /\ ended' = why
    /\ ending' = FALSE /\ lost' = FALSE

-----------------------------------------------------------------------------
(* Once: a request for the history.                                        *)

Reads ==
    /\ mode = "once" /\ outcome = "running"
    /\ CASE ~online /\ departures = 0 -> Stops("error", "absent") /\ UNCHANGED <<printed, buf>>
         [] Mismatch(stored) -> Stops("error", "mismatch") /\ UNCHANGED <<printed, buf>>
         [] WrongKey(stored) -> Stops("error", "wrong") /\ UNCHANGED <<printed, buf>>
         [] OTHER -> Stops("ok", "read") /\ printed' = Whole(stored)
                       /\ buf' = Rest(stored)
    /\ joined' = made - Len(stored)
    /\ socket' = "closed"
    /\ UNCHANGED <<roomVars, key, inbox, breaks, mode, opened, checked, sawOutput, live, heard>>

-----------------------------------------------------------------------------
(* Follow.                                                                 *)

(* The follower has not stopped, and a frame of this kind is next.         *)
Hears(kind) == mode = "follow" /\ outcome = "running" /\ Receives(kind)

FollowOpens ==
    /\ mode = "follow" /\ outcome = "running" /\ Connected
    /\ opened' = TRUE
    /\ joined' = made - Len(stored)
    /\ UNCHANGED <<mode, checked, sawOutput, live, ending, lost, buf, printed, outcome, ended,
                   heard>>

(* A size that announces encryption stops a follower without a key.        *)
FollowSize ==
    /\ Hears("size")
    /\ IF Head(inbox).seal # "plain" /\ ~HasKey
         THEN Stops("error", "mismatch") /\ socket' = "closed"
         ELSE UNCHANGED <<socket, outcome, ended, ending, lost>>
    /\ UNCHANGED <<mode, opened, checked, sawOutput, live, buf, printed, joined, heard>>

(* The count ends the snapshot.                                            *)
FollowCount ==
    /\ Hears("count")
    /\ live' = TRUE
    /\ UNCHANGED <<socket, mode, opened, checked, sawOutput, ending, lost, buf, printed,
                   outcome, ended, joined, heard>>

(* Fault: the broadcaster's return does not stop the timer.                *)
FollowOnlineKeepsTimer ==
    /\ Hears("online")
    /\ heard' = "online"
    /\ UNCHANGED <<socket, mode, opened, checked, sawOutput, live, ending, lost, buf, printed,
                   outcome, ended, joined>>

(* The broadcaster is there: the timer whose handle is held is stopped.    *)
FollowOnline ==
    /\ Hears("online")
    /\ ending' = FALSE /\ heard' = "online"
    /\ UNCHANGED <<socket, mode, opened, checked, sawOutput, live, lost, buf, printed,
                   outcome, ended, joined>>

(* Fault: a room found offline is waited for.                              *)
FollowOfflineWaits ==
    /\ Hears("offline")
    /\ heard' = "offline"
    /\ ending' = live
    /\ UNCHANGED <<socket, mode, opened, checked, sawOutput, live, lost, buf, printed,
                   outcome, ended, joined>>

(* It has left.  In the snapshot that ends the run, and it was for nothing *)
(* if no output came before; later it may be a blip, so a timer is set and *)
(* its handle kept, instead of that of one which already runs.             *)
FollowOffline ==
    /\ Hears("offline")
    /\ heard' = "offline"
    /\ IF live
         THEN ending' = TRUE /\ lost' = (lost \/ ending) /\ UNCHANGED <<socket, outcome, ended>>
         ELSE /\ Stops(IF sawOutput THEN "ok" ELSE "error", "snapshot")
              /\ socket' = "closed"
    /\ UNCHANGED <<mode, opened, checked, sawOutput, live, buf, printed, joined>>

(* Output: checked against the key the first time, decoded, and printed.   *)
FollowBytes ==
    LET recs == buf \o Head(inbox).recs
    IN  /\ Hears("bytes")
        /\ checked' = TRUE
        /\ CASE ~checked /\ Mismatch(recs) ->
                  /\ Stops("error", "mismatch") /\ socket' = "closed"
                  /\ UNCHANGED <<printed, buf, sawOutput>>
             [] (checked \/ ~Mismatch(recs)) /\ WrongKey(recs) ->
                  /\ Stops("error", "wrong") /\ socket' = "closed"
                  /\ UNCHANGED <<printed, buf, sawOutput>>
             [] OTHER ->
                  /\ printed' = printed \o Whole(recs)
                  /\ buf' = Rest(recs)
                  /\ sawOutput' = (sawOutput \/ Whole(recs) # <<>>)
                  /\ UNCHANGED <<socket, outcome, ended, ending, lost>>
        /\ UNCHANGED <<mode, opened, live, joined, heard>>

(* A session that takes the room is more output to it.                     *)
FollowReset == Hears("reset") /\ UNCHANGED <<socket, agentVars>>

(* A timer runs out: the one that could still be stopped, or another.      *)
TimerFires ==
    /\ outcome = "running"
    /\ \/ ending /\ Stops("ok", "timer")
       \/ lost /\ Stops("ok", "lostTimer")
    /\ socket' = "closed"
    /\ UNCHANGED <<roomVars, key, inbox, breaks, mode, opened, checked, sawOutput, live, buf,
                   printed, joined, heard>>

(* The connection closes, or was refused.  Nothing is left to run then but *)
(* the timers; without one the process exits, and with success once it had *)
(* been connected.                                                         *)
Cut ==
    /\ outcome = "running" /\ Broken
    /\ IF ending \/ lost THEN UNCHANGED <<outcome, ended, ending, lost>>
       ELSE Stops(IF opened THEN "ok" ELSE "error", "cut")
    /\ UNCHANGED <<mode, opened, checked, sawOutput, live, buf, printed, joined, heard>>

FollowMessage ==
    \/ FollowSize \/ FollowCount \/ FollowOnline \/ FollowOffline
    \/ FollowBytes \/ FollowReset

AgentNext == Reads \/ FollowOpens \/ FollowMessage \/ TimerFires \/ Cut

-----------------------------------------------------------------------------
(* Every variable has its type, and only a running script has a timer.     *)
AgentTypeOK ==
    /\ mode \in {"once", "follow"} /\ opened \in BOOLEAN /\ checked \in BOOLEAN
    /\ sawOutput \in BOOLEAN /\ live \in BOOLEAN
    /\ ending \in BOOLEAN /\ lost \in BOOLEAN
    /\ (ending => outcome = "running") /\ (lost => outcome = "running")
    /\ buf \in Seq(Record) /\ printed \in Seq(Record)
    /\ outcome \in {"running", "ok", "error"}
    /\ ended \in {"no", "absent", "mismatch", "wrong", "read", "snapshot", "timer",
                "lostTimer", "cut"}
    /\ joined \in 0 .. Records /\ heard \in {"online", "offline"}

(* The records of frames that came and were not handled.                   *)
Unread == FlattenSeq([i \in DOMAIN inbox |-> inbox[i].recs])
=============================================================================
