---------------------------- MODULE SessionProof ----------------------------
(***************************************************************************)
(* What holds of every session, whatever the bounds of its output, its PTY *)
(* and its batches are, and whatever signals, failures and surviving       *)
(* processes interfere.                                                    *)
(***************************************************************************)
EXTENDS Session, SumsProof

-----------------------------------------------------------------------------
(* Script mode: from the PTY to the transport.                             *)

Chunks == /\ written \in Nat
          /\ pty \in Seq(Nat) /\ queue \in Seq(Nat) /\ sent \in Seq(Nat)

(* What was sent, what is queued and what is in the PTY are, one after the *)
(* other, all that was written.                                            *)
InOrder ==
    /\ Len(sent) + Len(queue) + Len(pty) = written
    /\ \A i \in 1 .. Len(sent)  : sent[i] = i
    /\ \A i \in 1 .. Len(queue) : queue[i] = Len(sent) + i
    /\ \A i \in 1 .. Len(pty)   : pty[i] = Len(sent) + Len(queue) + i

(* Until something cuts it short, a thread ends only when there is nothing *)
(* left for it, and the flag is up until all of them have been joined.     *)
Orderly ==
    ~cut =>
      /\ running \/ main \in {"joinWinch", "over"}
      /\ sender # "lost"
      /\ ptyReader = "done" => (pty = <<>> /\ ~SlaveHeld)
      /\ sender \in {"shutdown", "over"} => (queue = <<>> /\ ptyReader = "done")
      /\ InOrder

(* The main thread is past a join only when the thread is done.            *)
PastJoins ==
    /\ main \in {"joinSender", "stop", "joinWinch", "over"} => ptyReader = "done"
    /\ main \in {"stop", "joinWinch", "over"} => sender \in {"lost", "over"}
    /\ ptyReader = "show" => pty # <<>>

Drain == Chunks /\ Orderly /\ PastJoins

(* At the start nothing was written.                                       *)
LEMMA InitDrain == Init => Drain
<1> SUFFICES ASSUME Init PROVE Drain
  OBVIOUS
<1>1. written = 0 /\ pty = <<>> /\ queue = <<>> /\ sent = <<>> /\ ptyReader = "check"
      /\ sender = "check" /\ main = "poll" /\ running
  BY DEF Init, ScriptInit, SignalsInit
<1>2. Chunks
  BY <1>1 DEF Chunks
<1>3. InOrder
  BY <1>1 DEF InOrder
<1> QED
  BY <1>1, <1>2, <1>3 DEF Drain, Orderly, PastJoins

(* The steps that leave script mode alone.                                 *)
LEMMA KeepDrain == ASSUME Drain, UNCHANGED <<scriptVars, running>> PROVE Drain'
  BY DEF Drain, Chunks, Orderly, PastJoins, InOrder, SlaveHeld, scriptVars

(* The steps that only cut it short.                                       *)
LEMMA CutDrain ==
    ASSUME Drain, cut', UNCHANGED <<written, pty, queue, sent, ptyReader, sender, main>>
    PROVE  Drain'
  BY DEF Drain, Chunks, Orderly, PastJoins

(* The child and those it leaves behind.                                   *)
LEMMA ProcessesDrain ==
    ASSUME Drain, ChildWrites \/ ChildExits \/ OrphanExits PROVE Drain'
<1>1. CASE ChildWrites
  <2>1. /\ written' = written + 1 /\ pty' = Append(pty, written + 1) /\ child = "alive"
        /\ UNCHANGED <<queue, sent, ptyReader, sender, child, orphan, slave, main, cut, running>>
    BY <1>1 DEF ChildWrites, KeepRunning, processVars, threadVars, signalVars
  <2>2. Chunks'
    BY <2>1 DEF Drain, Chunks
  <2>3. ptyReader = "done" => cut
    BY <2>1 DEF Drain, Orderly, SlaveHeld
  <2>4. ASSUME InOrder PROVE InOrder'
    <3>1. /\ Len(sent) \in Nat /\ Len(queue) \in Nat /\ Len(pty) \in Nat
          /\ Len(pty') = Len(pty) + 1
          /\ \A i \in 1 .. Len(pty') : pty'[i] = IF i <= Len(pty) THEN pty[i] ELSE written + 1
      BY <2>1 DEF Drain, Chunks
    <3>2. Len(sent') + Len(queue') + Len(pty') = written'
      <4>1. Len(sent) + Len(queue) + Len(pty) = written
        BY <2>4 DEF InOrder
      <4>2. Len(sent') = Len(sent) /\ Len(queue') = Len(queue)
        BY <2>1
      <4> QED
        BY <2>1, <3>1, <4>1, <4>2
    <3>3. \A i \in 1 .. Len(pty') : pty'[i] = Len(sent) + Len(queue) + i
      <4> SUFFICES ASSUME NEW i \in 1 .. Len(pty')
                   PROVE  pty'[i] = Len(sent) + Len(queue) + i
        OBVIOUS
      <4>1. CASE i <= Len(pty)
        BY <2>4, <3>1, <4>1 DEF InOrder
      <4>2. CASE i = Len(pty) + 1
        BY <2>4, <3>1, <4>2 DEF InOrder
      <4> QED
        BY <3>1, <4>1, <4>2
    <3> QED
      BY <2>1, <2>4, <3>2, <3>3 DEF InOrder
  <2>5. pty' # <<>>
    BY <2>1 DEF Drain, Chunks
  <2> QED
    BY <2>1, <2>2, <2>3, <2>4, <2>5 DEF Drain, Orderly, PastJoins
<1>2. CASE ChildExits \/ OrphanExits
  <2>1. UNCHANGED <<written, pty, queue, sent, ptyReader, sender, slave, main, cut, running>>
    BY <1>2 DEF ChildExits, OrphanExits, KeepRunning, ioVars, threadVars, signalVars
  <2>2. ~SlaveHeld => ~SlaveHeld'
    BY <1>2, <2>1 DEF ChildExits, OrphanExits, SlaveHeld
  <2> QED
    BY <2>1, <2>2 DEF Drain, Chunks, Orderly, PastJoins, InOrder
<1> QED
  BY <1>1, <1>2

(* The reading thread.                                                     *)
LEMMA ReaderDrain == ASSUME Drain, Reader PROVE Drain'
<1> USE DEF KeepRunning, processVars, threadVars, signalVars
<1>1. CASE ReaderChecks \/ ReaderReads \/ ReaderReadsNoise \/ ReaderHangsUp
  <2>1. /\ UNCHANGED <<written, pty, queue, sent, sender, child, orphan, slave, main, cut, running>>
        /\ ptyReader' = "done" => \/ ptyReader = "check" /\ ~running
                                  \/ pty = <<>> /\ ~SlaveHeld
        /\ ptyReader' = "show" => pty # <<>>
        /\ ptyReader # "done"
    BY <1>1 DEF ReaderChecks, ReaderReads, ReaderReadsNoise, ReaderHangsUp
  <2>2. ptyReader' = "done" => cut \/ (pty = <<>> /\ ~SlaveHeld)
    BY <2>1 DEF Drain, Orderly, PastJoins
  <2> QED
    BY <2>1, <2>2 DEF Drain, Chunks, Orderly, PastJoins, InOrder, SlaveHeld
<1>2. CASE ReaderQueues
  <2>1. /\ pty # <<>> /\ ptyReader = "show" /\ ptyReader' = "check" /\ pty' = Tail(pty)
        /\ queue' = IF sender \in {"lost", "over"} THEN queue ELSE Append(queue, Head(pty))
        /\ UNCHANGED <<written, sent, sender, child, orphan, slave, main, cut, running>>
    BY <1>2 DEF ReaderQueues, Drain, PastJoins
  <2>2. Chunks'
    BY <2>1, HeadTailProperties DEF Drain, Chunks
  <2>3. ASSUME ~cut PROVE InOrder'
    <3>1. queue' = Append(queue, Head(pty))
      BY <2>1, <2>3 DEF Drain, Orderly
    <3>2. Len(queue') = Len(queue) + 1 /\ Len(pty') = Len(pty) - 1
      BY <2>1, <3>1, HeadTailProperties DEF Drain, Chunks
    <3>3. /\ Len(sent) \in Nat /\ Len(queue) \in Nat /\ Len(pty) \in Nat \ {0}
          /\ \A i \in 1 .. Len(queue') :
               queue'[i] = IF i <= Len(queue) THEN queue[i] ELSE pty[1]
      BY <2>1, <3>1 DEF Drain, Chunks
    <3>4. \A i \in 1 .. Len(pty') : pty'[i] = pty[i + 1]
      BY <2>1, HeadTailProperties DEF Drain, Chunks
    <3>5. InOrder
      BY <2>3 DEF Drain, Orderly
    <3>6. Len(sent') + Len(queue') + Len(pty') = written'
      BY <2>1, <3>2, <3>3, <3>5 DEF InOrder
    <3>7. \A i \in 1 .. Len(queue') : queue'[i] = Len(sent) + i
      <4> SUFFICES ASSUME NEW i \in 1 .. Len(queue') PROVE queue'[i] = Len(sent) + i
        OBVIOUS
      <4>1. CASE i <= Len(queue)
        BY <3>3, <3>5, <4>1 DEF InOrder
      <4>2. CASE i = Len(queue) + 1
        BY <3>3, <3>5, <4>2 DEF InOrder
      <4> QED
        BY <3>2, <3>3, <4>1, <4>2
    <3>8. \A i \in 1 .. Len(pty') : pty'[i] = Len(sent) + Len(queue') + i
      <4> SUFFICES ASSUME NEW i \in 1 .. Len(pty') PROVE pty'[i] = Len(sent) + Len(queue') + i
        OBVIOUS
      <4>1. i + 1 \in 1 .. Len(pty)
        BY <3>2, <3>3
      <4> QED
        BY <3>2, <3>3, <3>4, <3>5, <4>1 DEF InOrder
    <3> QED
      BY <2>1, <2>3, <3>5, <3>6, <3>7, <3>8 DEF InOrder
  <2> QED
    BY <2>1, <2>2, <2>3 DEF Drain, Orderly, PastJoins, SlaveHeld
<1>3. CASE DisplayFails
  <2>1. /\ cut' /\ pty # <<>> /\ pty' = Tail(pty) /\ ptyReader' = "done"
        /\ UNCHANGED <<written, queue, sent, sender, main>>
    BY <1>3 DEF DisplayFails, Drain, PastJoins
  <2>2. Chunks'
    BY <2>1, HeadTailProperties DEF Drain, Chunks
  <2> QED
    BY <2>1, <2>2 DEF Drain, Orderly, PastJoins
<1> QED
  BY <1>1, <1>2, <1>3 DEF Reader

(* The sending thread.                                                     *)
LEMMA SenderDrain == ASSUME Drain, Sender PROVE Drain'
<1> USE DEF KeepRunning, processVars, threadVars, signalVars
<1>1. CASE SenderChecks \/ SenderIdles \/ SenderDrained \/ SenderShutsDown
  <2>1. /\ UNCHANGED <<written, pty, sent, ptyReader, child, orphan, slave, main, cut, running>>
        /\ sender \notin {"lost", "over"} /\ sender' # "lost"
        /\ queue' = IF sender = "shutdown" THEN <<>> ELSE queue
        /\ sender' \in {"shutdown", "over"} => \/ sender = "check" /\ ~running
                                               \/ queue = <<>> /\ ptyReader = "done"
                                               \/ sender = "shutdown"
    BY <1>1 DEF SenderChecks, SenderIdles, SenderDrained, SenderShutsDown
  <2>2. sender' \in {"shutdown", "over"} => cut \/ (queue = <<>> /\ ptyReader = "done")
    BY <2>1 DEF Drain, Orderly, PastJoins
  <2>3. queue' = queue \/ cut
    BY <2>1 DEF Drain, Orderly
  <2>4. Chunks'
    BY <2>1 DEF Drain, Chunks
  <2> QED
    BY <2>1, <2>2, <2>3, <2>4 DEF Drain, Orderly, PastJoins, InOrder, SlaveHeld
<1>2. CASE SenderSends
  <2> DEFINE n == IF Len(queue) < MaxBatch THEN Len(queue) ELSE MaxBatch
  <2>1. /\ sender = "recv" /\ queue # <<>> /\ sender' = "check"
        /\ queue' = SubSeq(queue, n + 1, Len(queue))
        /\ sent' = sent \o SubSeq(queue, 1, n)
        /\ UNCHANGED <<written, pty, ptyReader, child, orphan, slave, main, cut, running>>
    BY <1>2 DEF SenderSends
  <2>2. n \in 0 .. Len(queue) /\ Len(queue) \in Nat
    BY ScriptBounds DEF Drain, Chunks
  <2> HIDE DEF n
  <2>3. /\ SubSeq(queue, 1, n) \in Seq(Nat) /\ Len(SubSeq(queue, 1, n)) = n
        /\ \A i \in 1 .. n : SubSeq(queue, 1, n)[i] = queue[i]
    BY <2>2, SubSeqProperties, SMTT(30) DEF Drain, Chunks
  <2>4. /\ queue' \in Seq(Nat) /\ Len(queue') = Len(queue) - n
        /\ \A i \in 1 .. Len(queue') : queue'[i] = queue[n + i]
    BY <2>1, <2>2, SubSeqProperties, SMTT(30) DEF Drain, Chunks
  <2>5. /\ sent' \in Seq(Nat) /\ Len(sent') = Len(sent) + n
        /\ \A i \in 1 .. Len(sent') :
             sent'[i] = IF i <= Len(sent) THEN sent[i] ELSE queue[i - Len(sent)]
    BY <2>1, <2>2, <2>3, SMTT(30) DEF Drain, Chunks
  <2>6. Chunks'
    BY <2>1, <2>4, <2>5 DEF Drain, Chunks
  <2>7. ASSUME InOrder PROVE InOrder'
    <3>1. Len(sent) \in Nat /\ Len(pty) \in Nat
      BY DEF Drain, Chunks
    <3>2. Len(sent') + Len(queue') + Len(pty') = written'
      <4>1. Len(sent) + Len(queue) + Len(pty) = written
        BY <2>7 DEF InOrder
      <4>2. Len(pty') = Len(pty) /\ written' = written
        BY <2>1
      <4>3. Len(sent') = Len(sent) + n /\ Len(queue') = Len(queue) - n
        BY <2>4, <2>5
      <4> QED
        BY <2>2, <3>1, <4>1, <4>2, <4>3
    <3>3. \A i \in 1 .. Len(sent') : sent'[i] = i
      <4> SUFFICES ASSUME NEW i \in 1 .. Len(sent') PROVE sent'[i] = i
        OBVIOUS
      <4>1. CASE i <= Len(sent)
        BY <2>5, <2>7, <3>1, <4>1 DEF InOrder
      <4>2. CASE i > Len(sent)
        <5>1. i - Len(sent) \in 1 .. Len(queue) /\ i \in Nat
          BY <2>2, <2>5, <3>1, <4>2
        <5>2. queue[i - Len(sent)] = Len(sent) + (i - Len(sent))
          BY <2>7, <5>1 DEF InOrder
        <5>3. sent'[i] = queue[i - Len(sent)]
          BY <2>5, <3>1, <4>2, <5>1
        <5> QED
          BY <3>1, <5>1, <5>2, <5>3
      <4> QED
        BY <3>1, <4>1, <4>2
    <3>4. \A i \in 1 .. Len(queue') : queue'[i] = Len(sent') + i
      <4> SUFFICES ASSUME NEW i \in 1 .. Len(queue') PROVE queue'[i] = Len(sent') + i
        OBVIOUS
      <4>1. n + i \in 1 .. Len(queue)
        BY <2>2, <2>4
      <4> QED
        BY <2>2, <2>4, <2>5, <2>7, <3>1, <4>1 DEF InOrder
    <3>5. Len(sent') + Len(queue') = Len(sent) + Len(queue)
      BY <2>2, <2>4, <2>5, <3>1
    <3> QED
      BY <2>1, <2>7, <3>2, <3>3, <3>4, <3>5 DEF InOrder
  <2> QED
    BY <2>1, <2>6, <2>7 DEF Drain, Orderly, PastJoins, SlaveHeld
<1>3. CASE SenderLosesRoom
  <2>1. /\ cut' /\ queue' = <<>> /\ sender' = "lost"
        /\ UNCHANGED <<written, pty, sent, ptyReader, main>>
    BY <1>3 DEF SenderLosesRoom, StopRunning
  <2> QED
    BY <2>1 DEF Drain, Chunks, Orderly, PastJoins
<1> QED
  BY <1>1, <1>2, <1>3 DEF Sender

(* The main thread.                                                        *)
LEMMA MainDrain == ASSUME Drain, Main PROVE Drain'
<1> USE DEF KeepRunning, signalVars, ioVars, processVars, At
<1>1. CASE MainChecks \/ MainWaits \/ MainKills \/ MainDrops
  <2>1. /\ UNCHANGED <<written, pty, queue, sent, ptyReader, sender, cut, running>>
        /\ main \in {"poll", "wait", "kill", "drop"}
        /\ main' \in {"poll", "wait", "kill", "drop", "joinReader"}
    BY <1>1 DEF MainChecks, MainWaits, MainKills, MainDrops
  <2>2. ~SlaveHeld => ~SlaveHeld'
    BY <1>1 DEF MainChecks, MainWaits, MainKills, MainDrops, SlaveHeld
  <2> QED
    BY <2>1, <2>2 DEF Drain, Chunks, Orderly, PastJoins, InOrder
<1>2. CASE MainJoinsReader \/ MainJoinsSender \/ MainStops \/ MainReturns
  <2>1. /\ UNCHANGED <<written, pty, queue, sent, ptyReader, sender, child, orphan, slave, cut>>
        /\ running' = running \/ main' = "joinWinch"
        /\ \/ main = "joinReader" /\ main' = "joinSender" /\ ptyReader = "done"
           \/ main = "joinSender" /\ main' = "stop" /\ sender \in {"lost", "over"}
           \/ main = "stop" /\ main' = "joinWinch"
           \/ main = "joinWinch" /\ main' = "over"
    BY <1>2 DEF MainJoinsReader, MainJoinsSender, MainStops, MainReturns
  <2> QED
    BY <2>1 DEF Drain, Chunks, Orderly, PastJoins, InOrder, SlaveHeld
<1> QED
  BY <1>1, <1>2 DEF Main

(* No thread of script mode, nor its child, disturbs it.                   *)
LEMMA ScriptDrain == ASSUME Drain, ScriptNext PROVE Drain'
<1>1. CASE ForceQuit \/ WatchdogFires
  BY <1>1, CutDrain DEF ForceQuit, WatchdogFires, StopRunning, processVars, ioVars, threadVars
<1>2. CASE WinchEnds
  BY <1>2, KeepDrain DEF WinchEnds, KeepRunning, processVars, ioVars, signalVars, scriptVars,
     Drain, Chunks, Orderly, PastJoins, InOrder, SlaveHeld
<1> QED
  BY <1>1, <1>2, ProcessesDrain, ReaderDrain, SenderDrain, MainDrain DEF ScriptNext

(* Nor does any other step of the session.                                 *)
LEMMA NextDrain == Drain /\ [Next]_vars => Drain'
<1> SUFFICES ASSUME Drain, [Next]_vars PROVE Drain'
  OBVIOUS
<1>1. CASE Starting \/ Ending \/ ScriptFails \/ TunnelDies \/ UrlFound \/ WatcherEnds
  BY <1>1, KeepDrain DEF Starting, Ending, ServerStarts, TunnelSpawns, TunnelReady, TunnelFails,
     ClientConnects, HandlersInstall, ModeReturns, TunnelDropped, ScriptFails, TunnelDies,
     UrlFound, WatcherEnds, modeVars, signalVars
<1>2. CASE Signalled
  BY <1>2, KeepDrain DEF Signalled, Deliver, signalVars
<1>3. CASE SignalHandled
  BY <1>3, CutDrain DEF SignalHandled, ScriptSignalled, processVars, ioVars, threadVars
<1>4. CASE InStream(StreamNext)
  BY <1>4, KeepDrain DEF InStream, signalVars
<1>5. CASE InScript(ScriptNext)
  BY <1>5, ScriptDrain DEF InScript
<1>6. CASE UNCHANGED vars
  BY <1>6, KeepDrain DEF vars, modeVars, signalVars
<1> QED
  BY <1>1, <1>2, <1>3, <1>4, <1>5, <1>6 DEF Next

(* A child that ends by itself is broadcast to its last byte, in order,    *)
(* for any amount of output, any size of the PTY's buffer and of a batch   *)
(* (run_script_mode drains before it stops).                               *)
THEOREM NothingCutOff == Spec => []EverythingSent
<1>1. Drain => EverythingSent
  <2> SUFFICES ASSUME Drain, main \in {"stop", "joinWinch", "over"}, ~cut
               PROVE  sent = [i \in 1 .. written |-> i]
    BY DEF EverythingSent
  <2>1. queue = <<>> /\ pty = <<>> /\ InOrder
    BY DEF Drain, PastJoins, Orderly
  <2>2. Len(sent) = written /\ \A i \in 1 .. Len(sent) : sent[i] = i
    BY <2>1 DEF Drain, Chunks, InOrder
  <2>3. sent = [i \in 1 .. Len(sent) |-> sent[i]]
    BY LenProperties DEF Drain, Chunks
  <2> QED
    BY <2>2, <2>3
<1> QED
  BY <1>1, InitDrain, NextDrain, PTL DEF Spec

-----------------------------------------------------------------------------
(* The tunnel.                                                             *)

(* It is spawned at one place, is gone where the program ends, and before  *)
(* that its end is an accident, announced, or that of a failed start.      *)
Tunnelled ==
    /\ stage \in {"server", "spawn"} => tunnel = "none"
    /\ DeathSignal => TunnelDiesWithUs
    /\ stage = "kill" => closing
    /\ (tunnel = "dead" /\ stage \notin Ended) => (accident \/ closing \/ stage = "giveUp")
    /\ NoFalseAlarm

(* At the start there is no tunnel.                                        *)
LEMMA InitTunnelled == Init => Tunnelled
  BY DEF Init, Tunnelled, TunnelDiesWithUs, NoFalseAlarm, Ended

(* Every step keeps what is known of the tunnel.                           *)
LEMMA NextTunnelled == Tunnelled /\ [Next]_vars => Tunnelled'
<1> SUFFICES ASSUME Tunnelled, [Next]_vars PROVE Tunnelled'
  OBVIOUS
<1> USE DEF Tunnelled, TunnelDiesWithUs, NoFalseAlarm, Ended, tunnelVars, Goes
<1>1. CASE Starting
  <2>1. CASE ServerStarts
    BY <2>1 DEF ServerStarts
  <2>2. CASE TunnelSpawns
    BY <2>2 DEF TunnelSpawns
  <2>3. CASE TunnelReady \/ ClientConnects \/ HandlersInstall
    BY <2>3 DEF TunnelReady, ClientConnects, HandlersInstall
  <2>4. CASE TunnelFails
    BY <2>4 DEF TunnelFails
  <2> QED
    BY <1>1, <2>1, <2>2, <2>3, <2>4 DEF Starting
<1>2. CASE ModeReturns \/ ScriptFails
  BY <1>2 DEF ModeReturns, ScriptFails
<1>3. CASE TunnelDropped
  BY <1>3 DEF TunnelDropped
<1>4. CASE TunnelDies \/ UrlFound
  BY <1>4 DEF TunnelDies, UrlFound, startVars
<1>5. CASE WatcherEnds
  BY <1>5 DEF WatcherEnds, startVars
<1>6. CASE Signalled
  BY <1>6 DEF Signalled
<1>7. CASE SignalHandled \/ InStream(StreamNext) \/ InScript(ScriptNext)
  BY <1>7 DEF SignalHandled, InStream, InScript, startVars
<1>8. CASE UNCHANGED vars
  BY <1>8 DEF vars, startVars
<1> QED
  BY <1>1, <1>2, <1>3, <1>4, <1>5, <1>6, <1>7, <1>8 DEF Next, Ending

(* Where the kernel takes the tunnel down with its parent, the public link *)
(* never outlives the program, on every path to its end (tunnel.rs).       *)
THEOREM LinkNeverOutlives == ASSUME DeathSignal PROVE Spec => []TunnelDiesWithUs
<1>1. Tunnelled => TunnelDiesWithUs
  BY DEF Tunnelled
<1> QED
  BY <1>1, InitTunnelled, NextTunnelled, PTL DEF Spec

(* Only an end of the tunnel that is not ours is warned of, unless start   *)
(* itself gave it up (tunnel.rs).                                          *)
THEOREM AlarmsAreTrue == Spec => []NoFalseAlarm
<1>1. Tunnelled => NoFalseAlarm
  BY DEF Tunnelled
<1> QED
  BY <1>1, InitTunnelled, NextTunnelled, PTL DEF Spec

-----------------------------------------------------------------------------
(* Stream mode: the translation of line ends.                              *)

(* What a byte becomes after one that was, or was not, a CR.               *)
Unit(b, cr) == IF b = "LF" /\ ~cr THEN <<"CR", "LF">> ELSE <<b>>

EndsInCr(bytes) == bytes # <<>> /\ bytes[Len(bytes)] = "CR"

Units(bytes) ==
  [i \in DOMAIN bytes |-> IF bytes[i] = "LF" /\ (i = 1 \/ bytes[i - 1] # "CR") THEN <<"CR", "LF">>
                          ELSE <<bytes[i]>>]

(* A byte becomes one or two.                                              *)
LEMMA UnitTyped ==
  ASSUME NEW b \in Byte, NEW cr
  PROVE  Unit(b, cr) \in Seq(Byte)
  BY DEF Unit, Byte

(* Input is translated byte by byte.                                       *)
LEMMA UnitsTyped ==
  ASSUME NEW bytes \in Seq(Byte)
  PROVE  Units(bytes) \in Seq(Seq(Byte)) /\ Len(Units(bytes)) = Len(bytes)
<1>1. PICK N \in Nat : N = Len(bytes)
  OBVIOUS
<1>2. DOMAIN bytes = 1 .. N
  BY <1>1
<1> DEFINE u == Units(bytes)
<1>3. ASSUME NEW i \in 1 .. N PROVE u[i] \in Seq(Byte)
  <2>1. bytes[i] \in Byte
    BY <1>1
  <2>2. u[i] = <<"CR", "LF">> \/ u[i] = <<bytes[i]>>
    BY <1>2 DEF Units
  <2>3. <<"CR", "LF">> \in Seq(Byte)
    BY DEF Byte
  <2>4. <<bytes[i]>> \in Seq(Byte)
    BY <2>1
  <2> HIDE DEF u
  <2> QED
    BY <2>2, <2>3, <2>4
<1>4. u \in [1 .. N -> Seq(Byte)]
  <2>1. DOMAIN u = 1 .. N /\ u = [i \in 1 .. N |-> u[i]]
    BY <1>2 DEF Units
  <2> HIDE DEF u
  <2> QED
    BY <1>3, <2>1
<1> HIDE DEF u
<1>5. u \in Seq(Seq(Byte)) /\ Len(u) = N
  BY <1>4
<1> QED
  BY <1>1, <1>5 DEF u

(* A byte more is a translated byte more.                                  *)
LEMMA UnitsAppend ==
  ASSUME NEW bytes \in Seq(Byte), NEW b \in Byte
  PROVE  Units(Append(bytes, b)) = Append(Units(bytes), Unit(b, EndsInCr(bytes)))
<1>1. PICK N \in Nat : N = Len(bytes)
  OBVIOUS
<1> DEFINE longer == Append(bytes, b)
           u == Units(bytes)
           x == Unit(b, EndsInCr(bytes))
           v == Units(longer)
           w == Append(u, x)
<1>2. /\ longer \in Seq(Byte) /\ Len(longer) = N + 1 /\ longer[N + 1] = b
      /\ \A i \in 1 .. N : longer[i] = bytes[i]
  BY <1>1
<1>3. DOMAIN bytes = 1 .. N /\ DOMAIN longer = 1 .. N + 1
  BY <1>1, <1>2
<1> HIDE DEF longer
<1>4. x \in Seq(Byte)
  BY UnitTyped
<1>5. u \in Seq(Seq(Byte)) /\ Len(u) = N
  BY <1>1, UnitsTyped
<1>6. v \in Seq(Seq(Byte)) /\ Len(v) = N + 1
  BY <1>2, UnitsTyped
<1>7. ASSUME NEW i \in 1 .. N PROVE v[i] = u[i]
  <2>1. i \in 1 .. N + 1 /\ longer[i] = bytes[i]
    BY <1>2
  <2>2. i # 1 => longer[i - 1] = bytes[i - 1]
    BY <1>2
  <2>3. v[i] = IF longer[i] = "LF" /\ (i = 1 \/ longer[i - 1] # "CR") THEN <<"CR", "LF">> ELSE <<longer[i]>>
    BY <1>3, <2>1 DEF Units
  <2>4. u[i] = IF bytes[i] = "LF" /\ (i = 1 \/ bytes[i - 1] # "CR") THEN <<"CR", "LF">> ELSE <<bytes[i]>>
    BY <1>3 DEF Units
  <2> QED
    BY <2>1, <2>2, <2>3, <2>4
<1>8. v[N + 1] = x
  <2>1. v[N + 1] = IF longer[N + 1] = "LF" /\ (N + 1 = 1 \/ longer[(N + 1) - 1] # "CR") THEN <<"CR", "LF">>
                   ELSE <<longer[N + 1]>>
    BY <1>3 DEF Units
  <2>2. CASE N = 0
    <3>1. ~EndsInCr(bytes)
      BY <1>1, <2>2, NoLength DEF EndsInCr
    <3> QED
      BY <1>2, <2>1, <2>2, <3>1 DEF Unit
  <2>3. CASE N # 0
    <3>1. EndsInCr(bytes) <=> bytes[N] = "CR"
      BY <1>1, <2>3 DEF EndsInCr
    <3>2. (N + 1) - 1 = N /\ N + 1 # 1 /\ longer[N] = bytes[N]
      BY <1>2, <2>3
    <3> QED
      BY <1>2, <2>1, <3>1, <3>2 DEF Unit
  <2> QED
    BY <2>2, <2>3
<1> HIDE DEF u, x, v
<1>9. /\ w \in Seq(Seq(Byte)) /\ Len(w) = N + 1 /\ w[N + 1] = x
      /\ \A i \in 1 .. N : w[i] = u[i]
  BY <1>4, <1>5
<1> HIDE DEF w
<1>10. ASSUME NEW i \in 1 .. N + 1 PROVE v[i] = w[i]
  <2>1. i \in 1 .. N \/ i = N + 1
    OBVIOUS
  <2> QED
    BY <1>7, <1>8, <1>9, <2>1
<1>11. v = w
  <2>1. Len(v) = Len(w) /\ \A i \in 1 .. Len(v) : v[i] = w[i]
    BY <1>6, <1>9, <1>10
  <2> QED
    BY <1>6, <1>9, <2>1, SeqEqual, Zenon
<1> QED
  BY <1>11 DEF v, w, u, x, longer

(* So is the whole.                                                        *)
LEMMA CrlfAppend ==
  ASSUME NEW bytes \in Seq(Byte), NEW b \in Byte
  PROVE  /\ Crlf(bytes) \in Seq(Byte)
         /\ Crlf(Append(bytes, b)) = Crlf(bytes) \o Unit(b, EndsInCr(bytes))
<1>1. Crlf(bytes) = FlattenSeq(Units(bytes))
  BY DEF Crlf, Units
<1>2. Crlf(Append(bytes, b)) = FlattenSeq(Units(Append(bytes, b)))
  BY DEF Crlf, Units
<1> DEFINE u == Units(bytes)
           x == Unit(b, EndsInCr(bytes))
<1>3. u \in Seq(Seq(Byte)) /\ x \in Seq(Byte)
  BY UnitTyped, UnitsTyped
<1>4. Units(Append(bytes, b)) = Append(u, x)
  BY UnitsAppend
<1> HIDE DEF u, x
<1>5. FlattenSeq(u) \in Seq(Byte) /\ FlattenSeq(Append(u, x)) = FlattenSeq(u) \o x
  BY <1>3, FlatAppend
<1> QED
  BY <1>1, <1>2, <1>4, <1>5 DEF u, x

(* lf_to_crlf, byte by byte.                                               *)
Translated == [out : Seq(Byte), cr : BOOLEAN]
Fed(b, before) ==
  [out |-> before.out \o (IF b = "LF" /\ ~before.cr THEN <<"CR", b>> ELSE <<b>>), cr |-> b = "CR"]

(* What is fed has its type.                                               *)
LEMMA FedTyped ==
  ASSUME NEW b \in Byte, NEW before \in Translated
  PROVE  /\ Fed(b, before) \in Translated
         /\ Fed(b, before).out = before.out \o Unit(b, before.cr)
         /\ Fed(b, before).cr = (b = "CR")
<1>1. before.out \in Seq(Byte) /\ before.cr \in BOOLEAN
  BY DEF Translated
<1>2. (IF b = "LF" /\ ~before.cr THEN <<"CR", b>> ELSE <<b>>) = Unit(b, before.cr)
  BY DEF Unit
<1>3. before.out \o Unit(b, before.cr) \in Seq(Byte)
  BY <1>1, UnitTyped, ConcatProperties
<1>4. Fed(b, before) = [out |-> before.out \o Unit(b, before.cr), cr |-> b = "CR"]
  BY <1>2 DEF Fed
<1> QED
  BY <1>3, <1>4 DEF Translated

Feeding(chunk, cr, N) ==
  {f \in [0 .. N -> Translated] :
     /\ f[0] = [out |-> <<>>, cr |-> cr]
     /\ \A n \in 1 .. N : f[n] = Fed(chunk[n], f[n - 1])}

(* The recursive definition has a meaning.                                 *)
LEMMA FeedingExists ==
  ASSUME NEW chunk \in Seq(Byte), NEW cr \in BOOLEAN, NEW N \in Nat, N = Len(chunk)
  PROVE  Feeding(chunk, cr, N) # {}
<1> DEFINE g == [n \in 1 .. N |-> [x \in Translated |-> Fed(chunk[n], x)]]
           first == [out |-> <<>>, cr |-> cr]
<1>1. \A n \in 1 .. N : chunk[n] \in Byte
  OBVIOUS
<1>2. \A n \in 1 .. N : \A x \in Translated : Fed(chunk[n], x) \in Translated
  BY <1>1, FedTyped
<1>3. g \in [1 .. N -> [Translated -> Translated]]
  BY <1>2
<1>4. \A n \in 1 .. N : \A x \in Translated : g[n][x] = Fed(chunk[n], x)
  OBVIOUS
<1>5. first \in Translated
  BY DEF Translated
<1> HIDE DEF g, first
<1>6. Recursive(N, Translated, first, g) # {}
  BY <1>3, <1>5, Recursion
<1>7. PICK h \in [0 .. N -> Translated] : h[0] = first /\ \A n \in 1 .. N : h[n] = g[n][h[n - 1]]
  BY <1>6 DEF Recursive
<1>8. ASSUME NEW n \in 1 .. N PROVE h[n] = Fed(chunk[n], h[n - 1])
  <2>1. n - 1 \in 0 .. N
    OBVIOUS
  <2>2. h[n - 1] \in Translated /\ h[n] = g[n][h[n - 1]]
    BY <1>7, <2>1
  <2> QED
    BY <1>4, <2>2
<1> QED
  BY <1>7, <1>8 DEF Feeding, first

(* lf_to_crlf is the last of these.                                        *)
LEMMA FeedingSteps ==
  ASSUME NEW chunk \in Seq(Byte), NEW cr \in BOOLEAN, NEW N \in Nat, N = Len(chunk)
  PROVE  \E f \in Feeding(chunk, cr, N) : LfToCrlf(chunk, cr) = f[N]
<1> DEFINE Eq(f) ==
      f = [n \in 0 .. N |->
             IF n = 0 THEN [out |-> <<>>, cr |-> cr]
             ELSE [out |-> f[n - 1].out \o (IF chunk[n] = "LF" /\ ~f[n - 1].cr THEN <<"CR", chunk[n]>>
                                            ELSE <<chunk[n]>>),
                   cr  |-> chunk[n] = "CR"]]
           after == CHOOSE f : Eq(f)
<1>1. \E f : Eq(f)
  <2>1. PICK f \in Feeding(chunk, cr, N) : TRUE
    BY FeedingExists
  <2>2. f = [n \in 0 .. N |-> f[n]]
    BY <2>1 DEF Feeding
  <2>3. f[0] = [out |-> <<>>, cr |-> cr]
    BY <2>1 DEF Feeding
  <2>4. \A n \in 1 .. N : f[n] = Fed(chunk[n], f[n - 1])
    BY <2>1 DEF Feeding
  <2>5. ASSUME NEW n \in 0 .. N
        PROVE  f[n] = IF n = 0 THEN [out |-> <<>>, cr |-> cr] ELSE Fed(chunk[n], f[n - 1])
    <3>1. n = 0 \/ n \in 1 .. N
      OBVIOUS
    <3> QED
      BY <2>3, <2>4, <3>1
  <2>6. f = [n \in 0 .. N |-> IF n = 0 THEN [out |-> <<>>, cr |-> cr] ELSE Fed(chunk[n], f[n - 1])]
    BY <2>2, <2>5
  <2>7. Eq(f)
    BY <2>6, Zenon DEF Fed
  <2> QED
    BY <2>7
<1>2. Eq(after)
  BY <1>1
<1>3. LfToCrlf(chunk, cr) = after[N]
  BY DEF LfToCrlf
<1> HIDE DEF after
<1>4. after = [n \in 0 .. N |-> IF n = 0 THEN [out |-> <<>>, cr |-> cr] ELSE Fed(chunk[n], after[n - 1])]
  BY <1>2, Zenon DEF Fed
<1>5. after[0] = [out |-> <<>>, cr |-> cr]
  BY <1>4
<1>6. ASSUME NEW n \in 1 .. N PROVE after[n] = Fed(chunk[n], after[n - 1])
  BY <1>4
<1> DEFINE Good == {n \in 0 .. N : after[n] \in Translated}
<1> HIDE DEF Eq
<1>7. 0 \in Good
  <2>1. [out |-> <<>>, cr |-> cr] \in Translated
    BY DEF Translated
  <2> QED
    BY <1>5, <2>1
<1>8. ASSUME NEW n \in 0 .. N - 1, n \in Good PROVE n + 1 \in Good
  <2>1. n + 1 \in 1 .. N /\ n + 1 \in 0 .. N /\ (n + 1) - 1 = n
    OBVIOUS
  <2>2. after[n + 1] = Fed(chunk[n + 1], after[n])
    <3>1. after[n + 1] = Fed(chunk[n + 1], after[(n + 1) - 1])
      BY <1>6, <2>1
    <3> QED
      BY <2>1, <3>1
  <2>3. chunk[n + 1] \in Byte
    BY <2>1
  <2>4. after[n] \in Translated
    BY <1>8
  <2>5. after[n + 1] \in Translated
    BY <2>2, <2>3, <2>4, FedTyped
  <2> QED
    BY <2>1, <2>5
<1>9. \A n \in 0 .. N : after[n] \in Translated
  <2> HIDE DEF Good
  <2>1. \A n \in 0 .. N - 1 : n \in Good => n + 1 \in Good
    BY <1>8
  <2>2. 0 .. N \subseteq Good
    BY <1>7, <2>1, SetInduction
  <2> USE DEF Good
  <2> QED
    BY <2>2
<1>10. after \in Feeding(chunk, cr, N)
  <2>1. after = [n \in 0 .. N |-> after[n]]
    BY <1>4
  <2>2. after \in [0 .. N -> Translated]
    BY <1>9, <2>1
  <2> QED
    BY <1>5, <1>6, <2>2 DEF Feeding
<1> QED
  BY <1>3, <1>10

(* Output, output, and more of it.                                         *)
LEMMA Regrouped ==
  ASSUME NEW first \in Seq(Byte), NEW second \in Seq(Byte), NEW third \in Seq(Byte)
  PROVE  (first \o second) \o third = first \o (second \o third)
  BY ConcatAssociative

(* Whatever was read before, a chunk is translated as what follows it.     *)
LEMMA Translation ==
  ASSUME NEW bytes \in Seq(Byte), NEW chunk \in Seq(Byte), NEW cr \in BOOLEAN,
         cr = EndsInCr(bytes)
  PROVE  /\ LfToCrlf(chunk, cr) \in Translated
         /\ Crlf(bytes \o chunk) = Crlf(bytes) \o LfToCrlf(chunk, cr).out
         /\ LfToCrlf(chunk, cr).cr = EndsInCr(bytes \o chunk)
<1>1. PICK N \in Nat : N = Len(chunk)
  OBVIOUS
<1>2. PICK f \in Feeding(chunk, cr, N) : LfToCrlf(chunk, cr) = f[N]
  BY <1>1, FeedingSteps
<1>3. /\ f \in [0 .. N -> Translated] /\ f[0] = [out |-> <<>>, cr |-> cr]
      /\ \A n \in 1 .. N : f[n] = Fed(chunk[n], f[n - 1])
  BY <1>2 DEF Feeding
<1> DEFINE upto(n) == bytes \o SubSeq(chunk, 1, n)
           Good == {n \in 0 .. N : /\ Crlf(upto(n)) = Crlf(bytes) \o f[n].out
                                   /\ f[n].cr = EndsInCr(upto(n))}
<1>4. \A n \in 0 .. N : upto(n) \in Seq(Byte)
  <2> TAKE n \in 0 .. N
  <2>1. SubSeq(chunk, 1, n) \in Seq(Byte)
    BY <1>1
  <2> QED
    BY <2>1, ConcatProperties
<1>5. \A n \in 0 .. N - 1 : upto(n + 1) = Append(upto(n), chunk[n + 1])
  <2> TAKE n \in 0 .. N - 1
  <2> DEFINE part == SubSeq(chunk, 1, n)
             b == chunk[n + 1]
  <2>1. part \in Seq(Byte) /\ b \in Byte
    BY <1>1
  <2>2. SubSeq(chunk, 1, n + 1) = part \o <<b>>
    <3>1. 1 \in 1 .. Len(chunk) /\ n + 1 \in 1 .. Len(chunk) /\ (n + 1) - 1 = n
      BY <1>1
    <3> HIDE DEF part, b
    <3>2. SubSeq(chunk, 1, n + 1) = SubSeq(chunk, 1, (n + 1) - 1) \o <<chunk[n + 1]>>
      BY <3>1, SubSeqRecursiveSecond
    <3> QED
      BY <3>1, <3>2 DEF part, b
  <2> HIDE DEF part, b
  <2>3. bytes \o (part \o <<b>>) = (bytes \o part) \o <<b>>
    <3>1. <<b>> \in Seq(Byte)
      BY <2>1
    <3> QED
      BY <2>1, <3>1, ConcatAssociative
  <2>4. bytes \o part \in Seq(Byte)
    BY <2>1, ConcatProperties
  <2>5. Append(bytes \o part, b) = (bytes \o part) \o <<b>>
    BY <2>1, <2>4, AppendIsConcat
  <2> QED
    BY <2>2, <2>3, <2>5 DEF part, b
<1>6. upto(0) = bytes
  <2>1. SubSeq(chunk, 1, 0) = <<>>
    BY SubSeqEmpty
  <2> QED
    BY <2>1, ConcatEmptySeq
<1>7. upto(N) = bytes \o chunk
  BY <1>1, SubSeqFull
<1> HIDE DEF upto
<1>8. 0 \in Good
  <2>1. Crlf(bytes) \in Seq(Byte)
    <3>1. "x" \in Byte
      BY DEF Byte
    <3> QED
      BY <3>1, CrlfAppend
  <2>2. Crlf(bytes) \o <<>> = Crlf(bytes)
    BY <2>1, ConcatEmptySeq
  <2>3. f[0].out = <<>> /\ f[0].cr = cr /\ 0 \in 0 .. N
    BY <1>3
  <2>4. Crlf(upto(0)) = Crlf(bytes) \o f[0].out
    BY <1>6, <2>2, <2>3, Zenon
  <2>5. f[0].cr = EndsInCr(upto(0))
    BY <1>6, <2>3, Zenon
  <2> QED
    BY <2>3, <2>4, <2>5
<1>9. ASSUME NEW n \in 0 .. N - 1, n \in Good PROVE n + 1 \in Good
  <2>1. n + 1 \in 1 .. N /\ n + 1 \in 0 .. N /\ (n + 1) - 1 = n /\ n \in 0 .. N
    OBVIOUS
  <2> DEFINE b == chunk[n + 1]
             pre == upto(n)
             post == upto(n + 1)
  <2>2. b \in Byte /\ pre \in Seq(Byte) /\ f[n] \in Translated
    <3> HIDE DEF Good
    <3>1. b \in Byte
      BY <1>1, <2>1
    <3>2. pre \in Seq(Byte)
      BY <1>4, <2>1
    <3>3. f[n] \in Translated
      BY <1>3, <2>1
    <3> QED
      BY <3>1, <3>2, <3>3
  <2>3. post = Append(pre, b)
    BY <1>5
  <2>4. f[n + 1] = Fed(b, f[n])
    <3>1. f[n + 1] = Fed(chunk[n + 1], f[(n + 1) - 1])
      BY <1>3, <2>1
    <3> QED
      BY <2>1, <3>1
  <2>5. Crlf(pre) = Crlf(bytes) \o f[n].out /\ f[n].cr = EndsInCr(pre)
    BY <1>9
  <2> HIDE DEF b, pre, post, Good
  <2> DEFINE x == Unit(b, f[n].cr)
  <2>6. f[n + 1].out = f[n].out \o x /\ f[n + 1].cr = (b = "CR")
    <3>1. /\ Fed(b, f[n]).out = f[n].out \o Unit(b, f[n].cr)
          /\ Fed(b, f[n]).cr = (b = "CR")
      BY <2>2, FedTyped, ZenonT(60)
    <3> QED
      BY <2>4, <3>1, Zenon DEF x
  <2>7. x \in Seq(Byte) /\ f[n].out \in Seq(Byte) /\ Crlf(bytes) \in Seq(Byte)
    <3>1. f[n].out \in Seq(Byte)
      BY <2>2 DEF Translated
    <3> QED
      BY <2>2, <3>1, UnitTyped, CrlfAppend
  <2>8. Crlf(post) = Crlf(pre) \o x
    BY <2>2, <2>3, <2>5, CrlfAppend
  <2> HIDE DEF x
  <2>9. Crlf(post) = Crlf(bytes) \o (f[n].out \o x)
    <3> DEFINE c == Crlf(bytes)
               d == f[n].out
    <3>1. Crlf(post) = (c \o d) \o x
      BY <2>5, <2>8
    <3>2. c \in Seq(Byte) /\ d \in Seq(Byte) /\ x \in Seq(Byte)
      BY <2>7
    <3> HIDE DEF c, d
    <3>3. (c \o d) \o x = c \o (d \o x)
      BY <3>2, Regrouped, SMTT(30)
    <3> QED
      BY <3>1, <3>3 DEF c, d
  <2>10. EndsInCr(post) = (b = "CR")
    <3>1. /\ Append(pre, b) # <<>>
          /\ Len(Append(pre, b)) = Len(pre) + 1
          /\ Append(pre, b)[Len(pre) + 1] = b
      BY <2>2, AppendProperties
    <3> QED
      BY <2>3, <3>1 DEF EndsInCr
  <2>11. Crlf(post) = Crlf(bytes) \o f[n + 1].out /\ f[n + 1].cr = EndsInCr(post)
    BY <2>6, <2>9, <2>10
  <2> QED
    BY <2>1, <2>11 DEF Good, post
<1>10. N \in Good
  <2> HIDE DEF Good
  <2>1. \A n \in 0 .. N - 1 : n \in Good => n + 1 \in Good
    BY <1>9
  <2>2. 0 .. N \subseteq Good
    BY <1>8, <2>1, SetInduction
  <2>3. N \in 0 .. N
    OBVIOUS
  <2> QED
    BY <2>2, <2>3
<1>11. f[N] \in Translated
  <2>1. N \in 0 .. N
    OBVIOUS
  <2> QED
    BY <1>3, <2>1
<1> QED
  BY <1>2, <1>7, <1>10, <1>11

-----------------------------------------------------------------------------
(* Stream mode: from the input to the transport.                           *)

(* The input up to the k-th read.                                          *)
Input(k) == FlattenSeq(SubSeq(taken, 1, k))

(* The reads up to the k-th were broadcast; the rest are in the channel    *)
(* and in the reader's hand.                                               *)
Kept(k) ==
  /\ k + UnderWay = Len(taken)
  /\ \A i \in 1 .. Len(channel) : channel[i] = taken[k + i]
  /\ relayed = Crlf(Input(k)) /\ prevWasCr = EndsInCr(Input(k))

StreamInv ==
  /\ StreamTypeOK
  /\ reader = "send" => taken # <<>>
  /\ ~StreamOver => \E k \in Nat : Kept(k)
  /\ (loop = "shutdown" /\ ~forced) => (reader = "done" /\ channel = <<>>)

(* Input is a sequence of bytes, and the next read goes on with it.        *)
LEMMA InputTyped ==
  ASSUME taken \in Seq(Inputs), NEW k \in Nat, k <= Len(taken)
  PROVE  /\ Input(k) \in Seq(Byte)
         /\ k < Len(taken) => /\ taken[k + 1] \in Seq(Byte)
                              /\ Input(k + 1) = Input(k) \o taken[k + 1]
<1> DEFINE s == SubSeq(taken, 1, k)
<1>1. PICK N \in Nat : N = Len(taken)
  OBVIOUS
<1>2. taken \in Seq(Seq(Byte))
  BY InputsTyped, SeqMonotonic
<1>3. s \in Seq(Seq(Byte))
  <2>1. \A i \in 1 .. k : taken[i] \in Seq(Byte)
    BY <1>1, <1>2
  <2> QED
    BY <2>1, SubSeqProperties
<1> HIDE DEF s
<1>4. FlattenSeq(s) \in Seq(Byte)
  <2>1. <<>> \in Seq(Byte)
    OBVIOUS
  <2> QED
    BY <1>3, <2>1, FlatAppend
<1>5. ASSUME k < Len(taken)
      PROVE  taken[k + 1] \in Seq(Byte) /\ Input(k + 1) = Input(k) \o taken[k + 1]
  <2> DEFINE x == taken[k + 1]
  <2>1. x \in Seq(Byte)
    BY <1>1, <1>2, <1>5
  <2> HIDE DEF x
  <2>2. SubSeq(taken, 1, k + 1) = s \o <<x>>
    <3>1. 1 \in 1 .. Len(taken) /\ k + 1 \in 1 .. Len(taken) /\ (k + 1) - 1 = k
      BY <1>1, <1>5
    <3>2. SubSeq(taken, 1, k + 1) = SubSeq(taken, 1, (k + 1) - 1) \o <<taken[k + 1]>>
      BY <3>1, SubSeqRecursiveSecond
    <3> QED
      BY <3>1, <3>2 DEF x, s
  <2>3. s \o <<x>> = Append(s, x)
    BY <1>3, <2>1, AppendIsConcat
  <2>4. FlattenSeq(Append(s, x)) = FlattenSeq(s) \o x
    BY <1>3, <2>1, FlatAppend
  <2> QED
    BY <2>1, <2>2, <2>3, <2>4 DEF Input, x, s
<1> QED
  BY <1>4, <1>5 DEF Input, s

(* At the start nothing is under way.                                      *)
LEMMA InitStream == Init => StreamInv
<1> SUFFICES ASSUME Init PROVE StreamInv
  OBVIOUS
<1>1. /\ taken = <<>> /\ reader = "read" /\ channel = <<>>
      /\ loop = "check" /\ prevWasCr = FALSE /\ relayed = <<>>
  BY DEF Init, StreamInit
<1>2. StreamTypeOK
  <2>1. Len(channel) = 0
    BY <1>1
  <2>2. taken \in Seq(Inputs) /\ channel \in Seq(Inputs) /\ relayed \in Seq(Byte)
    BY <1>1
  <2>3. Len(channel) <= ChannelCap
    BY <2>1, StreamBounds
  <2>4. reader \in {"read", "send", "done"} /\ prevWasCr \in BOOLEAN
        /\ loop \in {"check", "recv", "shutdown", "lost", "over"}
    BY <1>1
  <2> QED
    BY <2>2, <2>3, <2>4, Zenon DEF StreamTypeOK
<1>3. Input(0) = <<>>
  <2>1. SubSeq(taken, 1, 0) = <<>>
    BY SubSeqEmpty
  <2> QED
    BY <2>1, FlatNothing DEF Input
<1>4. Crlf(<<>>) = <<>>
  <2>1. DOMAIN <<>> = {}
    OBVIOUS
  <2>2. Units(<<>>) = <<>>
    <3>1. <<>> \in Seq(Byte)
      OBVIOUS
    <3>2. Units(<<>>) \in Seq(Seq(Byte)) /\ Len(Units(<<>>)) = 0
      BY <3>1, UnitsTyped
    <3> QED
      BY <3>2, NoLength, Zenon
  <2>3. Crlf(<<>>) = FlattenSeq(Units(<<>>))
    BY DEF Crlf, Units
  <2> QED
    BY <2>2, <2>3, FlatNothing
<1>5. Kept(0)
  <2>1. UnderWay = 0 /\ Len(taken) = 0 /\ Len(channel) = 0
    BY <1>1 DEF UnderWay
  <2>2. EndsInCr(<<>>) = FALSE
    BY DEF EndsInCr
  <2>3. relayed = Crlf(Input(0))
    BY <1>1, <1>3, <1>4, Zenon
  <2>4. prevWasCr = EndsInCr(Input(0))
    BY <1>1, <1>3, <2>2, Zenon
  <2>5. 0 + UnderWay = Len(taken) /\ 1 .. Len(channel) = {}
    BY <2>1
  <2> QED
    BY <2>3, <2>4, <2>5 DEF Kept
<1> QED
  BY <1>1, <1>2, <1>5 DEF StreamInv

(* The steps that leave the stream alone; a forced exit stays one.         *)
LEMMA StillStream ==
  ASSUME StreamInv, UNCHANGED streamVars, forced => forced'
  PROVE  StreamInv'
<1>1. UNCHANGED <<taken, reader, channel, loop, prevWasCr, relayed>>
  BY DEF streamVars
<1>2. \A k \in Nat : Kept(k) => Kept(k)'
  BY <1>1 DEF Kept, Input, UnderWay
<1> QED
  BY <1>1, <1>2 DEF StreamInv, StreamTypeOK, StreamOver

(* A read puts a chunk into the reader's hand.                             *)
LEMMA ReadStream == ASSUME StreamInv, ReadStdin, UNCHANGED forced PROVE StreamInv'
<1>1. PICK chunk \in Inputs : taken' = Append(taken, chunk)
  BY DEF ReadStdin
<1>2. /\ reader = "read" /\ reader' = "send"
      /\ UNCHANGED <<channel, loop, prevWasCr, relayed>>
  BY DEF ReadStdin
<1>3. taken \in Seq(Inputs) /\ channel \in Seq(Inputs)
  BY DEF StreamInv, StreamTypeOK
<1>4. PICK N \in Nat, C \in Nat : N = Len(taken) /\ C = Len(channel)
  BY <1>3
<1>5. /\ taken' \in Seq(Inputs) /\ Len(taken') = N + 1 /\ taken' # <<>>
      /\ \A i \in 1 .. N : taken'[i] = taken[i]
  BY <1>1, <1>3, <1>4, AppendProperties
<1>6. ASSUME NEW k \in Nat, Kept(k) PROVE Kept(k)'
  <2>1. k + C = N
    BY <1>2, <1>4, <1>6 DEF Kept, UnderWay
  <2>2. UnderWay' = C + 1
    BY <1>2, <1>4 DEF UnderWay
  <2>3. SubSeq(taken', 1, k) = SubSeq(taken, 1, k)
    <3>1. \A i \in 1 .. k : taken'[i] = taken[i] /\ taken[i] \in Inputs
      BY <1>3, <1>4, <1>5, <2>1
    <3>2. k - 1 + 1 = k
      OBVIOUS
    <3> DEFINE s == SubSeq(taken, 1, k)
               t == SubSeq(taken', 1, k)
    <3>3. /\ s \in Seq(Inputs) /\ Len(s) = k /\ \A i \in 1 .. k : s[i] = taken[i]
          /\ t \in Seq(Inputs) /\ Len(t) = k /\ \A i \in 1 .. k : t[i] = taken'[i]
      BY <3>1
    <3> HIDE DEF s, t
    <3>4. s = t
      BY <3>1, <3>3, SeqEqual
    <3> QED
      BY <3>4 DEF s, t
  <2>4. Input(k)' = Input(k)
    BY <2>3 DEF Input
  <2>5. \A i \in 1 .. C : channel[i] = taken'[k + i]
    <3> TAKE i \in 1 .. C
    <3>1. k + i \in 1 .. N
      BY <2>1
    <3>2. channel[i] = taken[k + i]
      BY <1>4, <1>6 DEF Kept
    <3> QED
      BY <1>5, <3>1, <3>2
  <2>6. relayed' = Crlf(Input(k))' /\ prevWasCr' = EndsInCr(Input(k))'
    BY <1>2, <1>6, <2>4 DEF Kept
  <2>7. k + UnderWay' = Len(taken')
    BY <1>5, <2>1, <2>2
  <2> QED
    BY <1>2, <1>4, <2>5, <2>6, <2>7 DEF Kept
<1>7. StreamTypeOK'
  BY <1>2, <1>5 DEF StreamInv, StreamTypeOK
<1>8. ~StreamOver' => \E k \in Nat : Kept(k)'
  BY <1>2, <1>6 DEF StreamInv, StreamOver
<1>9. ~(loop' = "shutdown" /\ ~forced')
  BY <1>2 DEF StreamInv
<1> QED
  BY <1>2, <1>5, <1>7, <1>8, <1>9 DEF StreamInv

(* A chunk that is queued comes after those in the channel.                *)
LEMMA QueueStream == ASSUME StreamInv, Queue, UNCHANGED forced PROVE StreamInv'
<1>1. /\ reader = "send" /\ (StreamOver \/ Len(channel) < ChannelCap)
      /\ channel' = (IF StreamOver THEN channel ELSE Append(channel, Last(taken)))
      /\ reader' = (IF StreamOver THEN "done" ELSE "read")
      /\ UNCHANGED <<taken, loop, prevWasCr, relayed>>
  BY DEF Queue
<1>2. taken \in Seq(Inputs) /\ channel \in Seq(Inputs) /\ taken # <<>>
  BY <1>1 DEF StreamInv, StreamTypeOK
<1>3. PICK N \in Nat, C \in Nat : N = Len(taken) /\ C = Len(channel) /\ N # 0
  BY <1>2, EmptySeq
<1>4. ~(loop' = "shutdown" /\ ~forced')
  BY <1>1 DEF StreamInv
<1>5. CASE StreamOver
  <2>1. UNCHANGED <<channel, StreamOver>>
    BY <1>1, <1>5 DEF StreamOver
  <2>2. StreamTypeOK'
    BY <1>1, <1>5, <2>1 DEF StreamInv, StreamTypeOK
  <2> QED
    BY <1>1, <1>4, <1>5, <2>1, <2>2 DEF StreamInv
<1>6. CASE ~StreamOver
  <2> DEFINE x == taken[N]
  <2>1. x \in Inputs /\ Last(taken) = x
    BY <1>2, <1>3 DEF Last
  <2> HIDE DEF x
  <2>2. /\ channel' \in Seq(Inputs) /\ Len(channel') = C + 1 /\ channel'[C + 1] = x
        /\ \A i \in 1 .. C : channel'[i] = channel[i]
    <3>1. channel' = Append(channel, x)
      BY <1>1, <1>6, <2>1
    <3> QED
      BY <1>2, <1>3, <2>1, <3>1, AppendProperties
  <2>3. StreamTypeOK'
    <3>1. Len(channel') <= ChannelCap
      BY <1>1, <1>3, <1>6, <2>2, StreamBounds
    <3> QED
      BY <1>1, <1>6, <2>2, <3>1 DEF StreamInv, StreamTypeOK
  <2>4. ASSUME NEW k \in Nat, Kept(k) PROVE Kept(k)'
    <3>1. k + (C + 1) = N
      BY <1>1, <1>3, <2>4 DEF Kept, UnderWay
    <3>2. UnderWay' = C + 1
      BY <1>1, <1>6, <2>2 DEF UnderWay
    <3>3. ASSUME NEW i \in 1 .. C + 1 PROVE channel'[i] = taken[k + i]
      <4>1. CASE i = C + 1
        BY <2>2, <3>1, <4>1 DEF x
      <4>2. CASE i # C + 1
        <5>1. i \in 1 .. C
          BY <4>2
        <5> QED
          BY <1>3, <2>2, <2>4, <5>1 DEF Kept
      <4> QED
        BY <4>1, <4>2
    <3>4. Input(k)' = Input(k)
      BY <1>1 DEF Input
    <3>5. relayed' = Crlf(Input(k))' /\ prevWasCr' = EndsInCr(Input(k))'
      BY <1>1, <2>4, <3>4 DEF Kept
    <3>6. k + UnderWay' = Len(taken')
      BY <1>1, <1>3, <3>1, <3>2
    <3> QED
      BY <1>1, <2>2, <3>3, <3>5, <3>6 DEF Kept
  <2>5. \E k \in Nat : Kept(k)'
    BY <1>6, <2>4 DEF StreamInv
  <2> QED
    BY <1>1, <1>4, <1>6, <2>3, <2>5 DEF StreamInv
<1> QED
  BY <1>5, <1>6

(* The chunk at the head of the channel is the next one of the input, and  *)
(* it is translated as such.                                               *)
LEMMA RelayStream == ASSUME StreamInv, Relay, UNCHANGED forced PROVE StreamInv'
<1> DEFINE t == LfToCrlf(Head(channel), prevWasCr)
<1>1. /\ loop = "recv" /\ channel # <<>> /\ channel' = Tail(channel)
      /\ relayed' = relayed \o t.out /\ prevWasCr' = t.cr
      /\ loop' \in {"check", "lost"} /\ UNCHANGED <<taken, reader>>
  BY DEF Relay, StreamReturns
<1>2. /\ taken \in Seq(Inputs) /\ channel \in Seq(Inputs) /\ prevWasCr \in BOOLEAN
      /\ relayed \in Seq(Byte)
  BY DEF StreamInv, StreamTypeOK
<1>3. PICK N \in Nat, C \in Nat : N = Len(taken) /\ C + 1 = Len(channel)
  <2>1. Len(channel) \in Nat \ {0} /\ Len(taken) \in Nat
    BY <1>1, <1>2, EmptySeq
  <2>2. Len(channel) - 1 \in Nat /\ (Len(channel) - 1) + 1 = Len(channel)
    BY <2>1
  <2> QED
    BY <2>1, <2>2
<1>4. /\ channel' \in Seq(Inputs) /\ Len(channel') = C
      /\ \A i \in 1 .. C : channel'[i] = channel[i + 1]
      /\ Head(channel) = channel[1] /\ Head(channel) \in Inputs
  BY <1>1, <1>2, <1>3, HeadTailProperties
<1>5. Head(channel) \in Seq(Byte)
  BY <1>4, InputsTyped
<1>6. PICK k \in Nat : Kept(k)
  BY <1>1 DEF StreamInv, StreamOver
<1>7. /\ k + UnderWay = N /\ k + 1 <= N
      /\ UnderWay = (C + 1) + (IF reader = "send" THEN 1 ELSE 0)
      /\ Head(channel) = taken[k + 1]
  <2>1. UnderWay = (C + 1) + (IF reader = "send" THEN 1 ELSE 0)
    BY <1>3 DEF UnderWay
  <2>2. k + UnderWay = N
    BY <1>3, <1>6 DEF Kept
  <2>3. channel[1] = taken[k + 1]
    BY <1>3, <1>6 DEF Kept
  <2> QED
    BY <1>4, <2>1, <2>2, <2>3
<1> DEFINE before == Input(k)
           chunk == Head(channel)
<1>8. before \in Seq(Byte) /\ Input(k + 1) = before \o chunk
  <2>1. k <= Len(taken) /\ k < Len(taken)
    BY <1>3, <1>7
  <2> QED
    BY <1>2, <1>7, <2>1, InputTyped
<1>9. prevWasCr = EndsInCr(before) /\ relayed = Crlf(before)
  BY <1>6 DEF Kept
<1>10. /\ t \in Translated /\ Crlf(before \o chunk) = Crlf(before) \o t.out
       /\ t.cr = EndsInCr(before \o chunk)
  <2> HIDE DEF before
  <2> QED
    BY <1>2, <1>5, <1>8, <1>9, Translation
<1> HIDE DEF before, chunk, t
<1>11. t.out \in Seq(Byte) /\ t.cr \in BOOLEAN
  BY <1>10 DEF Translated
<1>12. relayed' \in Seq(Byte)
  BY <1>1, <1>2, <1>11, ConcatProperties
<1>13. StreamTypeOK'
  <2>1. Len(channel') <= ChannelCap
    BY <1>3, <1>4, StreamBounds DEF StreamInv, StreamTypeOK
  <2> QED
    BY <1>1, <1>4, <1>11, <1>12, <2>1 DEF StreamInv, StreamTypeOK
<1>14. Input(k + 1)' = before \o chunk
  BY <1>1, <1>8 DEF Input
<1>15. relayed' = Crlf(Input(k + 1))' /\ prevWasCr' = EndsInCr(Input(k + 1))'
  BY <1>1, <1>9, <1>10, <1>14
<1>16. (k + 1) + UnderWay' = Len(taken')
  <2>1. UnderWay' = C + (IF reader = "send" THEN 1 ELSE 0)
    BY <1>1, <1>4 DEF UnderWay
  <2>2. (k + 1) + UnderWay' = k + UnderWay
    BY <1>7, <2>1
  <2> QED
    BY <1>1, <1>3, <1>7, <2>2
<1>17. \A i \in 1 .. C : channel'[i] = taken'[(k + 1) + i]
  <2> TAKE i \in 1 .. C
  <2>1. i + 1 \in 1 .. C + 1 /\ k + (i + 1) = (k + 1) + i
    OBVIOUS
  <2>2. channel[i + 1] = taken[k + (i + 1)]
    BY <1>3, <1>6, <2>1 DEF Kept
  <2> QED
    BY <1>1, <1>4, <2>1, <2>2
<1>18. Kept(k + 1)'
  BY <1>4, <1>15, <1>16, <1>17 DEF Kept
<1>19. k + 1 \in Nat
  OBVIOUS
<1> QED
  BY <1>1, <1>13, <1>18, <1>19 DEF StreamInv

(* The other steps move the loop, or end the reader.                       *)
LEMMA TurnStream ==
  ASSUME StreamInv, UNCHANGED forced,
         StdinEnds \/ StreamCheck \/ StreamIdle \/ StreamDrained \/ StreamShutdown
  PROVE  StreamInv'
<1>1. /\ UNCHANGED <<taken, channel, prevWasCr, relayed>>
      /\ reader' = reader \/ (reader = "read" /\ reader' = "done")
      /\ loop' \in {"check", "recv", "shutdown", "lost", "over"}
      /\ StreamOver => StreamOver'
      /\ (loop' = "shutdown" /\ ~forced') =>
            \/ loop = "shutdown"
            \/ reader = "done" /\ channel = <<>>
      /\ reader = "done" => reader' = "done"
      /\ UnderWay' = UnderWay
  BY DEF StdinEnds, StreamCheck, StreamIdle, StreamDrained, StreamShutdown, StreamReturns, StreamOver, UnderWay,
         StreamInv, StreamTypeOK
<1>2. \A k \in Nat : Kept(k) => Kept(k)'
  BY <1>1 DEF Kept, Input
<1>3. StreamTypeOK'
  BY <1>1 DEF StreamInv, StreamTypeOK
<1> QED
  BY <1>1, <1>2, <1>3 DEF StreamInv

(* Every step keeps the invariant.                                         *)
LEMMA NextStream == StreamInv /\ [Next]_vars => StreamInv'
<1> SUFFICES ASSUME StreamInv, [Next]_vars PROVE StreamInv'
  OBVIOUS
<1>1. CASE UNCHANGED vars
  BY <1>1, StillStream DEF vars, modeVars, signalVars
<1>2. CASE InStream(StreamNext)
  <2>1. StreamNext /\ UNCHANGED forced
    BY <1>2 DEF InStream, signalVars
  <2> QED
    BY <2>1, ReadStream, QueueStream, RelayStream, TurnStream DEF StreamNext, StreamLoop
<1>3. CASE InScript(ScriptNext)
  <2>1. UNCHANGED <<streamVars, forced>>
    BY <1>3 DEF InScript, ScriptNext, ChildWrites, ChildExits, OrphanExits, Reader, ReaderChecks, ReaderReads,
                ReaderReadsNoise, ReaderHangsUp, ReaderQueues, DisplayFails, Sender, SenderChecks, SenderSends,
                SenderIdles, SenderLosesRoom, SenderDrained, SenderShutsDown, ForceQuit, WatchdogFires, WinchEnds,
                Main, MainChecks, MainWaits, MainKills, MainDrops, MainJoinsReader, MainJoinsSender, MainStops,
                MainReturns, KeepRunning, StopRunning, signalVars
  <2> QED
    BY <2>1, StillStream
<1>4. CASE Signalled \/ SignalHandled
  <2>1. UNCHANGED streamVars /\ (forced => forced')
    BY <1>4 DEF Signalled, SignalHandled, ScriptSignalled, HandleSignal, Deliver, signalVars
  <2> QED
    BY <2>1, StillStream
<1>5. CASE Starting \/ Ending \/ ScriptFails \/ TunnelDies \/ UrlFound \/ WatcherEnds
  <2>1. UNCHANGED <<streamVars, forced>>
    BY <1>5 DEF Starting, ServerStarts, TunnelSpawns, TunnelReady, TunnelFails, ClientConnects, HandlersInstall,
                Ending, ModeReturns, TunnelDropped, ScriptFails, TunnelDies, UrlFound, WatcherEnds, modeVars, signalVars
  <2> QED
    BY <2>1, StillStream
<1> QED
  BY <1>1, <1>2, <1>3, <1>4, <1>5 DEF Next

(* What stream mode sends is the translation of its input, in order, and   *)
(* all of it when it ends by itself.                                       *)
THEOREM StreamRelaysAll == Spec => []StdinIsBroadcast
<1>1. StreamInv => StdinIsBroadcast
  <2> SUFFICES ASSUME StreamInv PROVE StdinIsBroadcast
    OBVIOUS
  <2>1. ASSUME ~StreamOver
        PROVE  relayed = Crlf(FlattenSeq(SubSeq(taken, 1, Len(taken) - UnderWay)))
    <3>1. PICK k \in Nat : Kept(k)
      BY <2>1 DEF StreamInv
    <3>2. Len(taken) \in Nat /\ UnderWay \in Nat
      <4>1. Len(taken) \in Nat /\ Len(channel) \in Nat
        BY DEF StreamInv, StreamTypeOK
      <4> QED
        BY <4>1 DEF UnderWay
    <3>3. Len(taken) - UnderWay = k
      BY <3>1, <3>2 DEF Kept
    <3> QED
      BY <3>1, <3>3 DEF Kept, Input
  <2> QED
    BY <2>1 DEF StreamInv, StdinIsBroadcast
<1> QED
  BY <1>1, InitStream, NextStream, PTL DEF Spec

-----------------------------------------------------------------------------
(* Types.                                                                  *)

StartTypeOK ==
  /\ stage \in Ended \cup {"server", "spawn", "url", "giveUp", "connect", "install", "script",
                           "stream", "cleanup", "kill"}
  /\ streamed \in BOOLEAN /\ tunneled \in BOOLEAN /\ handlers \in BOOLEAN
  /\ tunnel \in {"none", "alive", "dead"} /\ closing \in BOOLEAN /\ accident \in BOOLEAN
  /\ watcher \in {"none", "searching", "reading", "warned", "quiet"}

(* Whatever is initial has its type.                                       *)
LEMMA InitTypes == Init => SignalsTypeOK /\ ScriptTypeOK /\ StartTypeOK
<1> SUFFICES ASSUME Init PROVE SignalsTypeOK /\ ScriptTypeOK /\ StartTypeOK
  OBVIOUS
<1>1. SignalsTypeOK
  BY DEF Init, SignalsInit, SignalsTypeOK
<1>2. ScriptTypeOK
  <2>1. written \in 0 .. Output /\ Len(pty) <= PtyCap
    BY ScriptBounds DEF Init, ScriptInit
  <2>2. pty \in Seq(1 .. Output) /\ queue \in Seq(1 .. Output) /\ sent \in Seq(1 .. Output)
    BY DEF Init, ScriptInit
  <2> QED
    BY <2>1, <2>2 DEF Init, ScriptInit, ScriptTypeOK
<1>3. StartTypeOK
  BY DEF Init, StartTypeOK
<1> QED
  BY <1>1, <1>2, <1>3

(* The signal thread and the flags.                                        *)
LEMMA SignalTypes == SignalsTypeOK /\ [Next]_vars => SignalsTypeOK'
<1> SUFFICES ASSUME SignalsTypeOK, [Next]_vars PROVE SignalsTypeOK'
  OBVIOUS
<1>1. CASE UNCHANGED signalVars
  BY <1>1 DEF SignalsTypeOK, signalVars
<1>2. CASE running' = FALSE /\ UNCHANGED <<forced, pending>>
  BY <1>2 DEF SignalsTypeOK
<1>3. CASE HandleSignal
  BY <1>3 DEF HandleSignal, SignalsTypeOK
<1>4. CASE \E s \in Signal : Deliver(s)
  BY <1>4 DEF Deliver, SignalsTypeOK
<1>5. InScript(ScriptNext) => UNCHANGED signalVars \/ (running' = FALSE /\ UNCHANGED <<forced, pending>>)
  BY DEF InScript, ScriptNext, ChildWrites, ChildExits, OrphanExits, Reader, ReaderChecks, ReaderReads,
         ReaderReadsNoise, ReaderHangsUp, ReaderQueues, DisplayFails, Sender, SenderChecks, SenderSends,
         SenderIdles, SenderLosesRoom, SenderDrained, SenderShutsDown, ForceQuit, WatchdogFires, WinchEnds,
         Main, MainChecks, MainWaits, MainKills, MainDrops, MainJoinsReader, MainJoinsSender, MainStops,
         MainReturns, KeepRunning, StopRunning, signalVars
<1>6. Signalled \/ SignalHandled =>
        UNCHANGED signalVars \/ HandleSignal \/ \E s \in Signal : Deliver(s)
  BY DEF Signalled, SignalHandled, ScriptSignalled
<1>7. Starting \/ Ending \/ ScriptFails \/ TunnelDies \/ UrlFound \/ WatcherEnds \/ InStream(StreamNext)
        => UNCHANGED signalVars
  BY DEF Starting, ServerStarts, TunnelSpawns, TunnelReady, TunnelFails, ClientConnects, HandlersInstall,
         Ending, ModeReturns, TunnelDropped, ScriptFails, TunnelDies, UrlFound, WatcherEnds, InStream, modeVars
<1>8. UNCHANGED vars => UNCHANGED signalVars
  BY DEF vars, modeVars
<1> QED
  BY <1>1, <1>2, <1>3, <1>4, <1>5, <1>6, <1>7, <1>8 DEF Next

(* Where the program is, and its tunnel.                                   *)
LEMMA StartTypes == StartTypeOK /\ [Next]_vars => StartTypeOK'
<1> SUFFICES ASSUME StartTypeOK, [Next]_vars PROVE StartTypeOK'
  OBVIOUS
<1>1. CASE UNCHANGED <<startVars, tunnelVars>>
  BY <1>1 DEF StartTypeOK, startVars, tunnelVars
<1>2. CASE Starting
  BY <1>2, ZenonT(60) DEF Starting, ServerStarts, TunnelSpawns, TunnelReady, TunnelFails, ClientConnects,
              HandlersInstall, Goes, StartTypeOK, Ended, startVars, tunnelVars
<1>3. CASE Ending \/ ScriptFails
  BY <1>3, ZenonT(60) DEF Ending, ModeReturns, TunnelDropped, ScriptFails, Goes, StartTypeOK, Ended, startVars, tunnelVars
<1>4. CASE TunnelDies \/ UrlFound \/ WatcherEnds
  BY <1>4 DEF TunnelDies, UrlFound, WatcherEnds, StartTypeOK, startVars, tunnelVars
<1>5. CASE Signalled
  BY <1>5 DEF Signalled, StartTypeOK, Ended
<1>6. InScript(ScriptNext) \/ InStream(StreamNext) \/ SignalHandled \/ UNCHANGED vars
        => UNCHANGED <<startVars, tunnelVars>>
  BY DEF InScript, InStream, SignalHandled, vars
<1> QED
  BY <1>1, <1>2, <1>3, <1>4, <1>5, <1>6 DEF Next

(* The threads of script mode.                                             *)
LEMMA ReaderTypes == ASSUME ScriptTypeOK, Drain, Reader PROVE ScriptTypeOK'
<1>1. /\ UNCHANGED <<written, sent, child, orphan, slave, main, watchdog, winch, sender>>
      /\ cut' \in BOOLEAN /\ ptyReader' \in {"check", "read", "show", "done"}
  BY DEF ScriptTypeOK, Reader, ReaderChecks, ReaderReads, ReaderReadsNoise, ReaderHangsUp, ReaderQueues,
         DisplayFails, processVars, threadVars, KeepRunning
<1>2. UNCHANGED <<pty, queue>> => ScriptTypeOK'
  BY <1>1 DEF ScriptTypeOK
<1>3. ASSUME NEW x, x = Head(pty), pty' = Tail(pty), queue' \in {queue, Append(queue, x)}, pty # <<>>
      PROVE  ScriptTypeOK'
  <2>1. /\ pty \in Seq(1 .. Output) /\ queue \in Seq(1 .. Output) /\ Len(pty) <= PtyCap
    BY DEF ScriptTypeOK
  <2>2. /\ x \in 1 .. Output /\ pty' \in Seq(1 .. Output) /\ Len(pty') = Len(pty) - 1 /\ Len(pty) \in Nat
    <3>1. /\ Head(pty) \in 1 .. Output /\ Tail(pty) \in Seq(1 .. Output)
          /\ Len(Tail(pty)) = Len(pty) - 1
      BY <1>3, <2>1, HeadTailProperties
    <3>2. Len(pty) \in Nat
      BY <2>1
    <3> QED
      BY <1>3, <3>1, <3>2
  <2>3. Append(queue, x) \in Seq(1 .. Output)
    BY <2>1, <2>2, AppendProperties
  <2>4. queue' \in Seq(1 .. Output)
    BY <1>3, <2>1, <2>3
  <2>5. Len(pty') <= PtyCap
    BY <2>1, <2>2, ScriptBounds
  <2> QED
    BY <1>1, <2>2, <2>4, <2>5 DEF ScriptTypeOK
<1>4. ReaderQueues \/ DisplayFails =>
        /\ pty' = Tail(pty) /\ queue' \in {queue, Append(queue, Head(pty))} /\ pty # <<>>
  BY DEF ReaderQueues, DisplayFails, Drain, PastJoins
<1>5. ReaderChecks \/ ReaderReads \/ ReaderReadsNoise \/ ReaderHangsUp => UNCHANGED <<pty, queue>>
  BY DEF ReaderChecks, ReaderReads, ReaderReadsNoise, ReaderHangsUp
<1> QED
  BY <1>2, <1>3, <1>4, <1>5 DEF Reader

(* A write of the child.                                                   *)
LEMMA ChildTypes == ASSUME ScriptTypeOK, ChildWrites PROVE ScriptTypeOK'
<1>1. /\ written < Output /\ Len(pty) < PtyCap /\ written' = written + 1 /\ pty' = Append(pty, written')
      /\ UNCHANGED <<queue, sent, child, orphan, slave, main, watchdog, winch, sender, cut, ptyReader>>
  BY DEF ChildWrites, processVars, threadVars, KeepRunning
<1>2. written' \in 1 .. Output /\ written' \in 0 .. Output
  BY <1>1, ScriptBounds DEF ScriptTypeOK
<1>3. pty \in Seq(1 .. Output)
  BY DEF ScriptTypeOK
<1>4. pty' \in Seq(1 .. Output) /\ Len(pty') = Len(pty) + 1 /\ Len(pty) \in Nat
  BY <1>1, <1>2, <1>3, AppendProperties
<1>5. Len(pty') <= PtyCap
  BY <1>1, <1>4, ScriptBounds
<1> QED
  BY <1>1, <1>2, <1>4, <1>5 DEF ScriptTypeOK

(* The sender.                                                             *)
LEMMA SenderTypes == ASSUME ScriptTypeOK, Sender PROVE ScriptTypeOK'
<1>1. /\ UNCHANGED <<written, pty, child, orphan, slave, main, watchdog, winch, ptyReader>>
      /\ cut' \in BOOLEAN /\ sender' \in {"check", "recv", "shutdown", "lost", "over"}
  BY DEF ScriptTypeOK, Sender, SenderChecks, SenderSends, SenderIdles, SenderLosesRoom, SenderDrained,
         SenderShutsDown, processVars, threadVars, KeepRunning, StopRunning
<1>2. ASSUME queue' \in {queue, <<>>}, sent' = sent PROVE ScriptTypeOK'
  <2>1. queue' \in Seq(1 .. Output)
    <3>1. queue \in Seq(1 .. Output) /\ <<>> \in Seq(1 .. Output)
      BY DEF ScriptTypeOK
    <3> QED
      BY <1>2, <3>1
  <2> QED
    BY <1>1, <1>2, <2>1 DEF ScriptTypeOK
<1>3. CASE SenderSends
  <2> DEFINE n == IF Len(queue) < MaxBatch THEN Len(queue) ELSE MaxBatch
  <2>1. queue' = SubSeq(queue, n + 1, Len(queue)) /\ sent' = sent \o SubSeq(queue, 1, n)
    BY <1>3 DEF SenderSends
  <2>2. queue \in Seq(1 .. Output) /\ sent \in Seq(1 .. Output)
    BY DEF ScriptTypeOK
  <2>3. Len(queue) \in Nat
    BY <2>2
  <2>4. n \in Nat /\ n <= Len(queue)
    BY <2>3, ScriptBounds
  <2> HIDE DEF n
  <2>5. \A i \in 1 .. Len(queue) : queue[i] \in 1 .. Output
    BY <2>2, ElementOfSeq
  <2>6. \A i \in n + 1 .. Len(queue) : queue[i] \in 1 .. Output
    <3> TAKE i \in n + 1 .. Len(queue)
    <3>1. i \in 1 .. Len(queue)
      BY <2>3, <2>4
    <3> QED
      BY <2>5, <3>1
  <2>7. \A i \in 1 .. n : queue[i] \in 1 .. Output
    <3> TAKE i \in 1 .. n
    <3>1. i \in 1 .. Len(queue)
      BY <2>3, <2>4
    <3> QED
      BY <2>5, <3>1
  <2>8. SubSeq(queue, n + 1, Len(queue)) \in Seq(1 .. Output)
    BY <2>3, <2>4, <2>6, SubSeqProperties
  <2>9. SubSeq(queue, 1, n) \in Seq(1 .. Output)
    BY <2>4, <2>7, SubSeqProperties
  <2>10. sent' \in Seq(1 .. Output)
    BY <2>1, <2>2, <2>9, ConcatProperties
  <2> QED
    BY <1>1, <2>1, <2>8, <2>10, SMTT(30) DEF ScriptTypeOK
<1>4. SenderChecks \/ SenderIdles \/ SenderLosesRoom \/ SenderDrained \/ SenderShutsDown
        => queue' \in {queue, <<>>} /\ sent' = sent
  BY DEF SenderChecks, SenderIdles, SenderLosesRoom, SenderDrained, SenderShutsDown
<1> QED
  BY <1>2, <1>3, <1>4 DEF Sender

(* Script mode.                                                            *)
LEMMA ScriptTypes == ScriptTypeOK /\ Drain /\ [Next]_vars => ScriptTypeOK'
<1> SUFFICES ASSUME ScriptTypeOK, Drain, [Next]_vars PROVE ScriptTypeOK'
  OBVIOUS
<1>1. CASE UNCHANGED scriptVars
  BY <1>1 DEF ScriptTypeOK, scriptVars
<1>2. CASE ChildExits \/ OrphanExits
  BY <1>2 DEF ChildExits, OrphanExits, ScriptTypeOK, ioVars, threadVars, KeepRunning
<1>3. CASE ForceQuit \/ WatchdogFires \/ WinchEnds \/ ScriptSignalled
  BY <1>3, ZenonT(60) DEF ForceQuit, WatchdogFires, WinchEnds, ScriptSignalled, ScriptTypeOK, processVars, ioVars, threadVars,
              KeepRunning, StopRunning
<1>4. CASE Main
  BY <1>4, ZenonT(60) DEF Main, MainChecks, MainWaits, MainKills, MainDrops, MainJoinsReader, MainJoinsSender, MainStops,
              MainReturns, At, ScriptTypeOK, processVars, ioVars, KeepRunning
<1>5. ScriptNext => ScriptTypeOK'
  BY <1>2, <1>3, <1>4, ChildTypes, ReaderTypes, SenderTypes DEF ScriptNext
<1>6. Starting \/ Ending \/ ScriptFails \/ TunnelDies \/ UrlFound \/ WatcherEnds \/ Signalled \/ InStream(StreamNext)
        => UNCHANGED scriptVars
  BY DEF Starting, ServerStarts, TunnelSpawns, TunnelReady, TunnelFails, ClientConnects, HandlersInstall,
         Ending, ModeReturns, TunnelDropped, ScriptFails, TunnelDies, UrlFound, WatcherEnds, Signalled, InStream, modeVars
<1>7. UNCHANGED vars => UNCHANGED scriptVars
  BY DEF vars, modeVars
<1> QED
  BY <1>1, <1>3, <1>5, <1>6, <1>7 DEF Next, InScript, SignalHandled

(* Every variable of the session and of its two modes has its type.        *)
THEOREM TypeCorrect == Spec => []TypeOK
<1>1. Init => SignalsTypeOK /\ ScriptTypeOK /\ StartTypeOK
  BY InitTypes
<1>2. SignalsTypeOK /\ ScriptTypeOK /\ StartTypeOK /\ StreamInv => TypeOK
  BY DEF TypeOK, StartTypeOK, StreamInv
<1> QED
  BY <1>1, <1>2, InitDrain, NextDrain, InitStream, NextStream, SignalTypes, ScriptTypes, StartTypes, PTL DEF Spec
=============================================================================
