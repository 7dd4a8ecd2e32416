------------------------------ MODULE Session ------------------------------
(***************************************************************************)
(* A run of the broadcasting program: `serve' with its local server and    *)
(* its tunnel (main.rs, tunnel.rs), the client's start (run, cli/mod.rs),  *)
(* one of the two modes, and the way out, with signals at any time.        *)
(*                                                                         *)
(* Before the handlers are installed a signal has its default effect: the  *)
(* process dies and runs nothing.                                          *)
(***************************************************************************)
EXTENDS ScriptMode, StreamMode

CONSTANT
    DeathSignal     \* TRUE: the kernel takes the tunnel down with its parent

ASSUME DeathSignalTyped == DeathSignal \in BOOLEAN

VARIABLES
    stage,          \* where the program is
    streamed,       \* stdin is not a terminal and there is no command
    tunneled,       \* --tunnel
    handlers,       \* the signal handlers are installed
    tunnel,         \* cloudflared: none, alive, dead
    closing,        \* Tunnel.closing
    watcher,        \* the thread on its stderr: none, searching for the URL,
                    \* reading on after it, warned, quiet
    accident        \* history: cloudflared ended by itself

startVars == <<stage, streamed, tunneled, handlers>>
tunnelVars == <<tunnel, closing, watcher, accident>>
modeVars == <<scriptVars, streamVars, signalVars>>
vars == <<startVars, tunnelVars, modeVars>>

(* Where the process is no more.                                           *)
Ended == {"exit", "killed"}

-----------------------------------------------------------------------------
Init ==
    /\ ScriptInit /\ StreamInit /\ SignalsInit
    /\ stage \in {"server", "connect"} /\ streamed \in BOOLEAN /\ tunneled \in BOOLEAN
    /\ stage = "connect" => ~tunneled
    /\ handlers = FALSE
    /\ tunnel = "none" /\ closing = FALSE /\ watcher = "none" /\ accident = FALSE

Goes(here, there) ==
    /\ stage = here /\ stage' \in there
    /\ UNCHANGED <<streamed, tunneled>>

(* start_local_server: bound, or the program ends.                         *)
ServerStarts ==
    /\ Goes("server", {IF tunneled THEN "spawn" ELSE "connect", "exit"})
    /\ UNCHANGED <<handlers, tunnelVars, modeVars>>

(* tunnel::start spawns cloudflared, if it is installed.                   *)
TunnelSpawns ==
    \/ /\ Goes("spawn", {"url"})
       /\ tunnel' = "alive" /\ watcher' = "searching"
       /\ UNCHANGED <<handlers, closing, accident, modeVars>>
    \/ /\ Goes("spawn", {"exit"})
       /\ UNCHANGED <<handlers, tunnelVars, modeVars>>

(* The thread reads the URL and sends it to start: cloudflared printed it, *)
(* and may be dead since.                                                  *)
UrlFound ==
    /\ watcher = "searching" /\ stage \notin Ended
    /\ watcher' = "reading"
    /\ UNCHANGED <<startVars, tunnel, closing, accident, modeVars>>

(* start receives the URL, whatever became of cloudflared.                 *)
TunnelReady ==
    /\ watcher \in {"reading", "warned"} /\ Goes("url", {"connect"})
    /\ UNCHANGED <<handlers, tunnelVars, modeVars>>

(* Fault: the program ends without killing what it started.                *)
TunnelAbandoned ==
    /\ stage \in {"url", "giveUp"} /\ stage' = "exit"
    /\ UNCHANGED <<streamed, tunneled, handlers, tunnelVars, modeVars>>

(* start hears of the end of cloudflared's output, or of nothing for       *)
(* URL_TIMEOUT: it kills cloudflared, reaps it and the program ends.  The  *)
(* thread is not told.                                                     *)
TunnelFails ==
    \/ /\ watcher \in {"searching", "quiet"} /\ Goes("url", {"giveUp"})
       /\ UNCHANGED <<handlers, tunnelVars, modeVars>>
    \/ /\ stage = "giveUp"
       /\ IF tunnel = "alive" THEN tunnel' = "dead" /\ UNCHANGED stage
          ELSE stage' = "exit" /\ UNCHANGED tunnel
       /\ UNCHANGED <<streamed, tunneled, handlers, closing, watcher, accident, modeVars>>

(* cloudflared ends by itself.                                             *)
TunnelDies ==
    /\ tunnel = "alive" /\ stage \notin Ended
    /\ tunnel' = "dead" /\ accident' = TRUE
    /\ UNCHANGED <<startVars, closing, watcher, modeVars>>

(* Its stderr ends: before the URL, start hears of it; after it the thread *)
(* warns, unless it was told that the end is ours.                         *)
WatcherEnds ==
    /\ watcher \in {"searching", "reading"} /\ tunnel = "dead" /\ stage \notin Ended
    /\ watcher' = IF watcher = "searching" \/ closing THEN "quiet" ELSE "warned"
    /\ UNCHANGED <<startVars, tunnel, closing, accident, modeVars>>

(* Transport::connect claims the room, or run returns an error.            *)
ClientConnects ==
    /\ Goes("connect", {"install", "cleanup"})
    /\ UNCHANGED <<handlers, tunnelVars, modeVars>>

(* install_signal_handlers, or run returns an error.                       *)
HandlersInstall ==
    /\ Goes("install", {IF streamed THEN "stream" ELSE "script", "cleanup"})
    /\ handlers' = (stage' # "cleanup")
    /\ UNCHANGED <<tunnelVars, modeVars>>

InStream(A) ==
    /\ stage = "stream" /\ A
    /\ UNCHANGED <<startVars, tunnelVars, scriptVars, signalVars>>

InScript(A) ==
    /\ stage = "script" /\ A
    /\ UNCHANGED <<startVars, tunnelVars, streamVars>>

(* The PTY cannot be opened or the command not spawned.                    *)
ScriptFails ==
    /\ main = "poll" /\ ptyReader = "check" /\ sender = "check" /\ child = "alive"
    /\ written = 0 /\ sent = <<>> /\ watchdog = "off"
    /\ Goes("script", {"cleanup"})
    /\ UNCHANGED <<handlers, tunnelVars, modeVars>>

(* The mode returns.                                                       *)
ModeReturns ==
    /\ \/ stage = "stream" /\ StreamOver
       \/ stage = "script" /\ main = "over"
    /\ stage' = "cleanup"
    /\ UNCHANGED <<streamed, tunneled, handlers, tunnelVars, modeVars>>

(* Fault: cloudflared is killed before the thread is told why.             *)
TunnelKilledUnannounced ==
    /\ stage \in {"cleanup", "kill"}
    /\ IF tunnel = "alive"
         THEN tunnel' = "dead" /\ UNCHANGED <<stage, closing>>
         ELSE closing' = TRUE /\ stage' = "exit" /\ UNCHANGED tunnel
    /\ UNCHANGED <<streamed, tunneled, handlers, watcher, accident, modeVars>>

(* drop(tunnel_handle), then the exit: the thread is told, then cloudflared *)
(* killed.                                                                 *)
TunnelDropped ==
    \/ /\ Goes("cleanup", {IF tunnel = "none" THEN "exit" ELSE "kill"})
       /\ closing' = (tunnel # "none")
       /\ UNCHANGED <<handlers, tunnel, watcher, accident, modeVars>>
    \/ /\ stage = "kill"
       /\ IF tunnel = "alive" THEN tunnel' = "dead" /\ UNCHANGED stage
          ELSE stage' = "exit" /\ UNCHANGED tunnel
       /\ UNCHANGED <<streamed, tunneled, handlers, closing, watcher, accident, modeVars>>

(* A signal: pending for the thread, or the end of the process.            *)
Signalled ==
    /\ stage \notin Ended
    /\ IF handlers
         THEN /\ \E s \in Signal : Deliver(s)
              /\ UNCHANGED <<stage, tunnel>>
         ELSE /\ stage' = "killed"
              /\ tunnel' = IF tunnel = "alive" /\ DeathSignal THEN "dead" ELSE tunnel
              /\ UNCHANGED signalVars
    /\ UNCHANGED <<streamed, tunneled, handlers, closing, watcher, accident,
                   scriptVars, streamVars>>

SignalHandled ==
    /\ handlers /\ stage \notin Ended
    /\ ScriptSignalled
    /\ UNCHANGED <<startVars, tunnelVars, streamVars>>

Starting ==
    \/ ServerStarts \/ TunnelSpawns \/ TunnelReady \/ TunnelFails
    \/ ClientConnects \/ HandlersInstall

Ending == ModeReturns \/ TunnelDropped

Next ==
    \/ Starting \/ Ending \/ ScriptFails
    \/ TunnelDies \/ UrlFound \/ WatcherEnds
    \/ Signalled \/ SignalHandled
    \/ InStream(StreamNext)
    \/ InScript(ScriptNext)

Spec == Init /\ [][Next]_vars

(* Threads are scheduled, time passes and calls of the transport return.   *)
(* A noisy process keeps writing.  The producer, the child and the user    *)
(* owe nothing.                                                            *)
FairSpec ==
    /\ Spec
    /\ WF_vars(Ending)
    /\ WF_vars(SignalHandled)
    /\ WF_vars(InStream(Queue)) /\ WF_vars(InStream(StreamLoop))
    /\ WF_vars(InScript(Reader)) /\ WF_vars(InScript(Sender)) /\ WF_vars(InScript(Main))
    /\ WF_vars(InScript(WatchdogFires)) /\ WF_vars(InScript(WinchEnds))

-----------------------------------------------------------------------------
(* Properties.                                                             *)

(* Every variable of the session and of its two modes has its type; the    *)
(* stream's channel and the PTY stay within their bounds.                  *)
TypeOK ==
    /\ SignalsTypeOK /\ ScriptTypeOK /\ StreamTypeOK
    /\ stage \in Ended \cup {"server", "spawn", "url", "giveUp", "connect", "install", "script",
                             "stream", "cleanup", "kill"}
    /\ streamed \in BOOLEAN /\ tunneled \in BOOLEAN /\ handlers \in BOOLEAN
    /\ tunnel \in {"none", "alive", "dead"} /\ closing \in BOOLEAN /\ accident \in BOOLEAN
    /\ watcher \in {"none", "searching", "reading", "warned", "quiet"}

(* The public URL never outlives the program, whichever way it ends: every *)
(* error path after the tunnel is up goes through its drop, and a signal   *)
(* before the handlers are there takes it down (tunnel.rs).                *)
TunnelDiesWithUs == stage \in Ended => tunnel # "alive"

(* The warning that the public link is gone is given when it is, and never *)
(* for the kill that ends the session (closing, tunnel.rs).  The one       *)
(* exception: start gives up after URL_TIMEOUT, kills cloudflared without  *)
(* telling the thread, and the thread has found the URL after all.         *)
NoFalseAlarm ==
    (watcher = "warned" /\ ~accident) => (stage \in Ended \cup {"giveUp"} /\ ~closing)

(* The session ends, and with it every thread that is joined: after a      *)
(* forced exit or the end of the input in one mode, after the child or     *)
(* the running flag is gone in the other; "the drain must be bounded"      *)
(* (cli/script.rs).                                                        *)
SessionEnds ==
    (\/ stage = "stream" /\ (forced \/ reader = "done")
     \/ stage = "script" /\ (child # "alive" \/ ~running))
      ~> stage \in Ended
=============================================================================
