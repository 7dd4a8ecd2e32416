----------------------------- MODULE ScriptMode -----------------------------
(***************************************************************************)
(* A shell or a command shared through a PTY (run_script_mode,             *)
(* cli/script.rs): the main loop that polls the child, the thread that     *)
(* reads the PTY, the thread that owns the transport, the one that watches *)
(* SIGWINCH, the drain watchdog, and the order in which they are stopped.  *)
(*                                                                         *)
(* A chunk is the number of its place in the PTY's output.  A process of   *)
(* the child's that outlives it may hold the slave open.  Calls of the     *)
(* transport return (Transport), with an error only when the room is lost. *)
(***************************************************************************)
EXTENDS Naturals, Sequences, SequencesExt, Signals

CONSTANTS
    Output,         \* bound: chunks the child writes
    PtyCap,         \* the kernel's buffer, in chunks
    MaxBatch,       \* MAX_BATCH, in chunks
    Orphans,        \* what a surviving process may do: nobody, noisy, silent
    StdoutMayFail,  \* TRUE: the local display may go away
    ClaimMayBeLost  \* TRUE: the room may be claimed by another password

ASSUME ScriptBounds == /\ Output \in Nat /\ PtyCap \in Nat \ {0} /\ MaxBatch \in Nat \ {0}
                       /\ Orphans \subseteq {"nobody", "noisy", "silent"}
                       /\ StdoutMayFail \in BOOLEAN /\ ClaimMayBeLost \in BOOLEAN

VARIABLES
    child,          \* the child: alive, gone, reaped, left
    orphan,         \* who still holds the slave after it
    slave,          \* this process's own copy of the slave is open
    pty,            \* chunks written and not read
    written,        \* how many chunks were ever written
    ptyReader,      \* where the reading thread is
    queue,          \* chunks on their way to the sender
    sender,         \* where the sending thread is
    sent,           \* the chunks handed to the transport
    main,           \* where run_script_mode is
    watchdog,       \* the drain watchdog: off, armed, fired
    winch,          \* the SIGWINCH thread: none, parked, closing, done
    cut             \* history: something other than the end of the output
                    \* stopped a thread, or the display failed

scriptVars == <<child, orphan, slave, pty, written, ptyReader, queue, sender, sent,
                main, watchdog, winch, cut>>

ioVars == <<pty, written, ptyReader, queue, sender, sent>>
processVars == <<child, orphan, slave>>
threadVars == <<main, watchdog, winch>>

-----------------------------------------------------------------------------
ScriptInit ==
    /\ child = "alive" /\ orphan = "nobody" /\ slave = TRUE
    /\ pty = <<>> /\ written = 0
    /\ ptyReader = "check" /\ queue = <<>> /\ sender = "check" /\ sent = <<>>
    /\ main = "poll" /\ watchdog = "off"
    /\ winch \in {"none", "parked"}
    /\ cut = FALSE

(* The flag goes down: running of Signals.                                 *)
StopRunning == running' = FALSE /\ cut' = TRUE /\ UNCHANGED <<forced, pending>>
KeepRunning == UNCHANGED <<cut, signalVars>>

(* A write of the child, which waits while the PTY is full.                *)
ChildWrites ==
    /\ child = "alive" /\ written < Output /\ Len(pty) < PtyCap
    /\ written' = written + 1
    /\ pty' = Append(pty, written')
    /\ UNCHANGED <<ptyReader, queue, sender, sent, processVars, threadVars>> /\ KeepRunning

(* The child ends, with its output or before.                              *)
ChildExits ==
    /\ child = "alive"
    /\ child' = "gone" /\ orphan' \in Orphans
    /\ UNCHANGED <<slave, ioVars, threadVars>> /\ KeepRunning

OrphanExits ==
    /\ orphan # "nobody"
    /\ orphan' = "nobody"
    /\ UNCHANGED <<child, slave, ioVars, threadVars>> /\ KeepRunning

-----------------------------------------------------------------------------
(* The thread that reads the PTY.                                          *)

SlaveHeld == slave \/ child = "alive" \/ orphan # "nobody"

ReaderChecks ==
    /\ ptyReader = "check"
    /\ ptyReader' = IF running THEN "read" ELSE "done"
    /\ UNCHANGED <<pty, written, queue, sender, sent, processVars, threadVars>> /\ KeepRunning

ReaderReads ==
    /\ ptyReader = "read" /\ pty # <<>>
    /\ ptyReader' = "show"
    /\ UNCHANGED <<pty, written, queue, sender, sent, processVars, threadVars>> /\ KeepRunning

(* What a noisy orphan goes on writing is beyond the bound: it wakes the   *)
(* reader up and is not followed any further.                              *)
ReaderReadsNoise ==
    /\ ptyReader = "read" /\ pty = <<>> /\ orphan = "noisy"
    /\ ptyReader' = "check"
    /\ UNCHANGED <<pty, written, queue, sender, sent, processVars, threadVars>> /\ KeepRunning

(* End of file, or the error of a PTY that closed.                         *)
ReaderHangsUp ==
    /\ ptyReader = "read" /\ pty = <<>> /\ ~SlaveHeld
    /\ ptyReader' = "done"
    /\ UNCHANGED <<pty, written, queue, sender, sent, processVars, threadVars>> /\ KeepRunning

(* The chunk is displayed, then queued for the sender, if it still exists. *)
ReaderQueues ==
    /\ ptyReader = "show"
    /\ queue' = IF sender \in {"lost", "over"} THEN queue ELSE Append(queue, Head(pty))
    /\ pty' = Tail(pty)
    /\ ptyReader' = "check"
    /\ UNCHANGED <<written, sender, sent, processVars, threadVars>> /\ KeepRunning

(* The display fails: the thread ends, and with it the broadcast.          *)
DisplayFails ==
    /\ StdoutMayFail /\ ptyReader = "show"
    /\ ptyReader' = "done"
    /\ pty' = Tail(pty)
    /\ cut' = TRUE
    /\ UNCHANGED <<written, queue, sender, sent, processVars, threadVars, signalVars>>

Reader ==
    \/ ReaderChecks \/ ReaderReads \/ ReaderReadsNoise \/ ReaderHangsUp
    \/ ReaderQueues \/ DisplayFails

-----------------------------------------------------------------------------
(* The thread that owns the transport.                                     *)

SenderChecks ==
    /\ sender = "check"
    /\ sender' = IF running THEN "recv" ELSE "shutdown"
    /\ UNCHANGED <<pty, written, ptyReader, queue, sent, processVars, threadVars>> /\ KeepRunning

(* recv_timeout returns a chunk; what else is queued goes into its frame.  *)
SenderSends ==
    LET n == IF Len(queue) < MaxBatch THEN Len(queue) ELSE MaxBatch
    IN  /\ sender = "recv" /\ queue # <<>>
        /\ queue' = SubSeq(queue, n + 1, Len(queue))
        /\ sent' = sent \o SubSeq(queue, 1, n)
        /\ sender' = "check"
        /\ UNCHANGED <<pty, written, ptyReader, processVars, threadVars>> /\ KeepRunning

(* recv_timeout times out: the transport ticks.                            *)
SenderIdles ==
    /\ sender = "recv" /\ queue = <<>> /\ ptyReader # "done"
    /\ sender' = "check"
    /\ UNCHANGED <<pty, written, ptyReader, queue, sent, processVars, threadVars>>
    /\ KeepRunning

(* A send or a tick finds the room claimed by another password: the thread *)
(* stops the session and skips the shutdown.                               *)
SenderLosesRoom ==
    /\ ClaimMayBeLost /\ sender = "recv"
    /\ queue # <<>> \/ ptyReader # "done"
    /\ sender' = "lost" /\ queue' = <<>>
    /\ StopRunning
    /\ UNCHANGED <<pty, written, ptyReader, sent, processVars, threadVars>>

(* recv_timeout finds the channel drained and the reader gone.             *)
SenderDrained ==
    /\ sender = "recv" /\ queue = <<>> /\ ptyReader = "done"
    /\ sender' = "shutdown"
    /\ UNCHANGED <<pty, written, ptyReader, queue, sent, processVars, threadVars>>
    /\ KeepRunning

(* Transport::shutdown; what is still queued goes with the channel.        *)
SenderShutsDown ==
    /\ sender = "shutdown"
    /\ sender' = "over" /\ queue' = <<>>
    /\ UNCHANGED <<pty, written, ptyReader, sent, processVars, threadVars>> /\ KeepRunning

Sender ==
    \/ SenderChecks \/ SenderSends \/ SenderIdles \/ SenderLosesRoom
    \/ SenderDrained \/ SenderShutsDown

-----------------------------------------------------------------------------
(* The thread that forwards stdin: its second Ctrl+C within the window.    *)
ForceQuit ==
    /\ running /\ main # "over"
    /\ StopRunning
    /\ UNCHANGED <<processVars, ioVars, threadVars>>

(* The signal thread takes the flag down.                                  *)
ScriptSignalled ==
    /\ HandleSignal
    /\ cut' = TRUE
    /\ UNCHANGED <<processVars, ioVars, threadVars>>

(* Two seconds after the child is gone.                                    *)
WatchdogFires ==
    /\ watchdog = "armed"
    /\ watchdog' = "fired"
    /\ StopRunning
    /\ UNCHANGED <<processVars, ioVars, main, winch>>

(* Closing its handle ends the SIGWINCH thread, wherever it is: taken from *)
(* signal-hook, whose code is not here.                                    *)
WinchEnds ==
    /\ winch = "closing"
    /\ winch' = "done"
    /\ UNCHANGED <<processVars, ioVars, main, watchdog>> /\ KeepRunning

-----------------------------------------------------------------------------
(* run_script_mode itself.                                                 *)

At(here, there) == main = here /\ main' = there

(* The top of the loop: go on, or kill the child.                          *)
MainChecks ==
    /\ At("poll", IF running THEN "wait" ELSE "kill")
    /\ UNCHANGED <<processVars, ioVars, watchdog, winch>> /\ KeepRunning

(* try_wait: the child is still there, or its end is seen, with its status *)
(* or as an error.                                                         *)
MainWaits ==
    /\ At("wait", IF child = "alive" THEN "poll" ELSE "drop")
    /\ child' = IF child = "alive" THEN child ELSE "reaped"
    /\ UNCHANGED <<orphan, slave, ioVars, watchdog, winch>> /\ KeepRunning

(* The child is killed and waited for, but no longer than two seconds: one *)
(* that is not gone by then is left, and is from here on followed as a     *)
(* process that outlived it.                                               *)
MainKills ==
    /\ At("kill", "drop")
    /\ child' \in IF child = "alive" THEN {"reaped", "left"} ELSE {"reaped"}
    /\ orphan' \in IF child = "alive" THEN Orphans ELSE {orphan}
    /\ UNCHANGED <<slave, ioVars, watchdog, winch>> /\ KeepRunning

(* Fault: the flag is taken down before the threads are joined.            *)
MainStopsAndDrops ==
    /\ At("drop", "joinReader")
    /\ slave' = FALSE
    /\ watchdog' = "armed"
    /\ running' = FALSE
    /\ UNCHANGED <<child, orphan, ioVars, winch, cut, forced, pending>>

(* Fault: the slave stays open.                                            *)
MainKeepsSlave ==
    /\ At("drop", "joinReader")
    /\ watchdog' = "armed"
    /\ UNCHANGED <<processVars, ioVars, winch>> /\ KeepRunning

(* The slave is closed and the watchdog started.                           *)
MainDrops ==
    /\ At("drop", "joinReader")
    /\ slave' = FALSE
    /\ watchdog' = "armed"
    /\ UNCHANGED <<child, orphan, ioVars, winch>> /\ KeepRunning

MainJoinsReader ==
    /\ ptyReader = "done" /\ At("joinReader", "joinSender")
    /\ UNCHANGED <<processVars, ioVars, watchdog, winch>> /\ KeepRunning

MainJoinsSender ==
    /\ sender \in {"lost", "over"} /\ At("joinSender", "stop")
    /\ UNCHANGED <<processVars, ioVars, watchdog, winch>> /\ KeepRunning

(* The helper threads are told to stop.                                    *)
MainStops ==
    /\ At("stop", "joinWinch")
    /\ winch' = IF winch = "none" THEN "none" ELSE "closing"
    /\ running' = FALSE
    /\ UNCHANGED <<processVars, ioVars, watchdog, cut, forced, pending>>

MainReturns ==
    /\ winch \in {"none", "done"} /\ At("joinWinch", "over")
    /\ UNCHANGED <<processVars, ioVars, watchdog, winch>> /\ KeepRunning

Main ==
    \/ MainChecks \/ MainWaits \/ MainKills \/ MainDrops
    \/ MainJoinsReader \/ MainJoinsSender \/ MainStops \/ MainReturns

ScriptNext ==
    \/ ChildWrites \/ ChildExits \/ OrphanExits \/ Reader \/ Sender
    \/ ForceQuit \/ WatchdogFires \/ WinchEnds \/ Main

-----------------------------------------------------------------------------
(* Properties.                                                             *)

ScriptTypeOK ==
    /\ child \in {"alive", "gone", "reaped", "left"} /\ orphan \in Orphans \cup {"nobody"}
    /\ slave \in BOOLEAN /\ cut \in BOOLEAN
    /\ written \in 0 .. Output /\ Len(pty) <= PtyCap
    /\ pty \in Seq(1 .. Output) /\ queue \in Seq(1 .. Output) /\ sent \in Seq(1 .. Output)
    /\ ptyReader \in {"check", "read", "show", "done"}
    /\ sender \in {"check", "recv", "shutdown", "lost", "over"}
    /\ main \in {"poll", "wait", "kill", "drop", "joinReader", "joinSender", "stop",
                 "joinWinch", "over"}
    /\ watchdog \in {"off", "armed", "fired"}
    /\ winch \in {"none", "parked", "closing", "done"}

(* A child that ends by itself is broadcast to its last byte, however      *)
(* short it lived: unless something else stopped the session, or the two   *)
(* seconds of the watchdog were not enough, all that was written to the    *)
(* PTY has been handed to the transport, in order, when the threads are    *)
(* joined ("Do NOT flip running before joining", cli/script.rs).           *)
EverythingSent ==
    (main \in {"stop", "joinWinch", "over"} /\ ~cut) => sent = [i \in 1 .. written |-> i]
=============================================================================
