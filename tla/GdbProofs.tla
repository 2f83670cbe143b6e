------------------------------ MODULE GdbProofs ------------------------------
(***************************************************************************)
(* For any number of sessions: a request that returned has been carried    *)
(* out, a client that was told of a stop finds its target stopped, a       *)
(* stopped emulator and a server that waits for it do not wait for each    *)
(* other, and neither thread sleeps through what it is notified of.        *)
(*                                                                         *)
(* The channel holds at most what the server thread last sent, and where   *)
(* that request is - in the channel, at the emulator, finished - is told   *)
(* apart by rx, emu and finished together (OneRequest).  That a reason in  *)
(* the one place for it, or one the library kept of a Ctrl-C, means a      *)
(* stopped target needs what the emulator has done of its request by then  *)
(* (WorkDone), and the server thread's end (Ending).                       *)
(***************************************************************************)
EXTENDS GdbStub, TLAPS

GdbTypeOK ==
  /\ stub \in StubPcs /\ asked \in Requests
  /\ emu \in EmuPcs /\ req \in Requests \cup {"Disconnected"}
  /\ rx \in Seq(Requests \cup {"Disconnected"})
  /\ stop_signal \in StopReasons \cup {"none"}
  /\ running \in BOOLEAN /\ deferred \in StopReasons \cup {"none"}
  /\ asleep \subseteq {"stub", "emu"} /\ sessions \in Nat
  /\ finished \in BOOLEAN /\ stopped \in BOOLEAN /\ breakpoints \in BOOLEAN /\ stale \in BOOLEAN

\* One request is under way at most: in the channel, being handled, or finished.
OneRequest ==
  /\ rx = <<>> \/ (stub = "asking" /\ rx = <<asked>>) \/ (stub = "ended" /\ rx = <<"Disconnected">>)
  /\ emu = "handling" => stub = "asking" /\ rx = <<>> /\ req = asked
  /\ finished => stub = "asking" /\ rx = <<>> /\ emu = "acking"
  /\ emu = "acking" /\ finished => req = asked

\* What is asked while the target is stopped leaves it stopped until a Resume is
\* carried out; a request that reports a stop has stopped it.
WorkDone ==
  /\ ~stale /\ stub = "asking" /\ ~running /\ ~(asked = "Resume" /\ finished) => stopped
  /\ running => deferred = "none"
  /\ stub = "waiting" => running
  /\ stub = "blocking" => asked = "Interrupt" /\ (stale \/ stopped)
  /\ stub = "idle" \/ (stub = "asking" /\ asked # "Interrupt") => ~running
  /\ emu \in {"acking", "reporting"} => (req \in Stopping => stopped) /\ (req = "Resume" => ~stopped)

\* The reason of an end comes after the server thread's.
Ending ==
  /\ emu \in {"joining", "crashed"} => stub \in {"ended", "died"}
  /\ (stop_signal # "none" \/ deferred # "none") /\ ~stale /\ stub \notin {"ended", "died"} => stopped

GdbInv == GdbTypeOK /\ OneRequest /\ WorkDone /\ Ending /\ StopIsReal /\ StopIsTold

\* A thread that sleeps is one that has something to wait for: what RequestsReturn
\* rests on, whatever the scheduler does.
NobodySleepsThrough ==
  /\ "stub" \in asleep => stub = "asking" /\ ~finished
  /\ "emu" \in asleep => emu = "acking" /\ finished

-----------------------------------------------------------------------------
LEMMA EmptyChannel == \A S : <<>> \in Seq(S)
OBVIOUS

LEMMA GdbInitInv == Init => GdbInv /\ NobodySleepsThrough
<1> SUFFICES ASSUME Init PROVE GdbInv /\ NobodySleepsThrough
  OBVIOUS
<1> USE DEF Init
<1>1. GdbTypeOK
  BY EmptyChannel DEF GdbTypeOK, StubPcs, EmuPcs, Requests, Queries
<1>2. OneRequest /\ WorkDone /\ Ending /\ StopIsReal /\ StopIsTold
  BY DEF OneRequest, WorkDone, Ending, StopIsReal, StopIsTold
<1>3. NobodySleepsThrough
  BY DEF NobodySleepsThrough
<1> QED BY <1>1, <1>2, <1>3 DEF GdbInv

LEMMA GdbStepInv == GdbInv /\ [Next]_gvars => GdbInv'
<1> SUFFICES ASSUME GdbInv, [Next]_gvars PROVE GdbInv'
  OBVIOUS
<1> USE DEF GdbInv, GdbTypeOK, OneRequest, WorkDone, Ending, StopIsReal, StopIsTold,
            StubPcs, EmuPcs, StopReasons, Requests, Queries, Resumes, Reasons, Stopping,
            stubVars, signals, emuVars
<1>1. CASE start_gdbserver
  <2>1. rx' \in Seq(Requests \cup {"Disconnected"}) /\ sessions' \in Nat
    BY <1>1, EmptyChannel DEF start_gdbserver
  <2> QED BY <1>1, <2>1 DEF start_gdbserver
<1>2. CASE AskWhileStopped
  BY <1>2 DEF debugger_request, AskWhileStopped
<1>3. CASE on_interrupt
  <2>1. GdbTypeOK'
    BY <1>3 DEF debugger_request, on_interrupt
  <2>2. OneRequest'
    <3>1. rx = <<>> /\ emu # "handling" /\ ~finished
      BY <1>3 DEF on_interrupt
    <3>2. rx' = <<"Interrupt">> /\ asked' = "Interrupt" /\ stub' = "asking"
      BY <1>3, <3>1 DEF debugger_request, on_interrupt
    <3> QED BY <1>3, <3>1, <3>2 DEF debugger_request, on_interrupt
  <2>3. WorkDone'
    BY <1>3 DEF debugger_request, on_interrupt
  <2>4. Ending' /\ StopIsReal'
    BY <1>3 DEF debugger_request, on_interrupt
  <2>5. StopIsTold'
    BY <1>3 DEF debugger_request, on_interrupt
  <2> QED BY <2>1, <2>2, <2>3, <2>4, <2>5
<1>4. CASE Acknowledge
  <2>1. GdbTypeOK'
    BY <1>4 DEF IsFinished, AfterRequest, Acknowledge
  <2>2. OneRequest'
    BY <1>4 DEF IsFinished, AfterRequest, Acknowledge
  <2>3. WorkDone'
    BY <1>4 DEF IsFinished, AfterRequest, Acknowledge
  <2>4. Ending' /\ StopIsReal'
    BY <1>4 DEF IsFinished, AfterRequest, Acknowledge
  <2>5. StopIsTold'
    BY <1>4 DEF IsFinished, AfterRequest, Acknowledge
  <2> QED BY <2>1, <2>2, <2>3, <2>4, <2>5
<1>5. CASE TakeStopReason
  <2>1. GdbTypeOK'
    BY <1>5 DEF TakeStopReason
  <2>2. OneRequest'
    BY <1>5 DEF TakeStopReason
  <2>3. WorkDone'
    BY <1>5 DEF TakeStopReason
  <2>4. Ending' /\ StopIsReal'
    BY <1>5 DEF TakeStopReason
  <2>5. StopIsTold'
    BY <1>5 DEF TakeStopReason
  <2> QED BY <2>1, <2>2, <2>3, <2>4, <2>5
<1>6. CASE Disconnect
  BY <1>6 DEF Disconnect
<1>7. CASE ConnectionError
  BY <1>7 DEF ConnectionError
<1>8. CASE EnterRun
  BY <1>8 DEF terminate, EnterRun
<1>9. CASE Receive
  BY <1>9 DEF terminate, Receive
<1>10. CASE LeaveLoop
  BY <1>10 DEF EmuGoes, LeaveLoop
<1>11. CASE handle_request
  BY <1>11 DEF EmuGoes, handle_request
<1>12. CASE SeeAck
  BY <1>12 DEF EmuGoes, SeeAck
<1>13. CASE ReportReason
  BY <1>13 DEF EmuGoes, ReportReason
<1>14. CASE RunFrame
  BY <1>14 DEF EmuGoes, RunFrame
<1>15. CASE notify_breakpoint
  <2>1. GdbTypeOK'
    BY <1>15 DEF EmuGoes, notify_breakpoint
  <2>2. OneRequest'
    BY <1>15 DEF EmuGoes, notify_breakpoint
  <2>3. WorkDone'
    BY <1>15 DEF EmuGoes, notify_breakpoint
  <2>4. Ending' /\ StopIsReal'
    BY <1>15 DEF EmuGoes, notify_breakpoint
  <2>5. StopIsTold'
    BY <1>15 DEF EmuGoes, notify_breakpoint
  <2> QED BY <2>1, <2>2, <2>3, <2>4, <2>5
<1>16. CASE JoinThread
  BY <1>16 DEF EmuGoes, JoinThread
<1>17. CASE SpuriousWake
  BY <1>17 DEF SpuriousWake
<1>18. CASE SleepAgain
  <2>1. GdbTypeOK'
    <3>1. asleep' \subseteq {"stub", "emu"}
      BY <1>18 DEF SleepAgain
    <3> QED BY <1>18, <3>1 DEF SleepAgain
  <2>2. OneRequest'
    BY <1>18 DEF SleepAgain
  <2>3. WorkDone'
    BY <1>18 DEF SleepAgain
  <2>4. Ending' /\ StopIsReal'
    BY <1>18 DEF SleepAgain
  <2>5. StopIsTold'
    BY <1>18 DEF SleepAgain
  <2> QED BY <2>1, <2>2, <2>3, <2>4, <2>5
<1>19. CASE UNCHANGED gvars
  BY <1>19 DEF gvars
<1> QED BY <1>1, <1>2, <1>3, <1>4, <1>5, <1>6, <1>7, <1>8, <1>9, <1>10, <1>11, <1>12, <1>13,
           <1>14, <1>15, <1>16, <1>17, <1>18, <1>19 DEF Next, Client, Server, Emulator

LEMMA GdbInvariant == Spec => []GdbInv
BY GdbInitInv, GdbStepInv, PTL DEF Spec

\* Only four kinds of step touch what a sleeper waits for: the two notifications,
\* a new session, and the waiters' own looks.
LEMMA GdbSleepStep ==
  GdbInv /\ NobodySleepsThrough /\ [Next]_gvars => NobodySleepsThrough'
<1> SUFFICES ASSUME GdbInv, NobodySleepsThrough, [Next]_gvars PROVE NobodySleepsThrough'
  OBVIOUS
<1> USE DEF NobodySleepsThrough, stubVars, signals, emuVars
<1>1. CASE start_gdbserver
  BY <1>1 DEF start_gdbserver
<1>2. CASE AskWhileStopped \/ on_interrupt
  BY <1>2 DEF debugger_request, AskWhileStopped, on_interrupt, GdbInv, OneRequest
<1>3. CASE Acknowledge
  BY <1>3 DEF Acknowledge, IsFinished
<1>4. CASE TakeStopReason \/ Disconnect \/ ConnectionError
  BY <1>4 DEF TakeStopReason, Disconnect, ConnectionError
<1>5. CASE handle_request
  BY <1>5 DEF handle_request, EmuGoes
<1>6. CASE EnterRun \/ Receive
  BY <1>6 DEF EnterRun, Receive
<1>7. CASE LeaveLoop \/ ReportReason \/ RunFrame \/ notify_breakpoint \/ JoinThread
  BY <1>7 DEF EmuGoes, LeaveLoop, ReportReason, RunFrame, notify_breakpoint, JoinThread
<1>8. CASE SeeAck
  BY <1>8 DEF EmuGoes, SeeAck
<1>9. CASE SpuriousWake
  BY <1>9 DEF SpuriousWake
<1>10. CASE SleepAgain
  BY <1>10 DEF SleepAgain
<1>11. CASE UNCHANGED gvars
  BY <1>11 DEF gvars
<1> QED BY <1>1, <1>2, <1>3, <1>4, <1>5, <1>6, <1>7, <1>8, <1>9, <1>10, <1>11
        DEF Next, Client, Server, Emulator

-----------------------------------------------------------------------------
\* The two threads, the channel and the stop reason keep their values.
THEOREM GdbTypeCorrect == Spec => []GdbTypeOK
<1>1. GdbInv => GdbTypeOK
  BY DEF GdbInv
<1> QED BY <1>1, GdbInvariant, PTL

\* debugger_request returns when its own request has been carried out, in every
\* session of any number and however the two threads interleave.
THEOREM GdbReturnedIsDone == Spec => []ReturnedIsDone
<1>1. GdbInv => ReturnedIsDone
  BY DEF GdbInv, OneRequest, ReturnedIsDone
<1> QED BY <1>1, GdbInvariant, PTL

\* A client that was told that its target stopped finds it stopped, unless it runs
\* by a Resume that found a reason left over.
THEOREM GdbStopIsReal == Spec => []StopIsReal
<1>1. GdbInv => StopIsReal
  BY DEF GdbInv
<1> QED BY <1>1, GdbInvariant, PTL

\* A stopped emulator and a server that waits for it to stop never wait for each
\* other, with no exception.
THEOREM GdbStopIsTold == Spec => []StopIsTold
<1>1. GdbInv => StopIsTold
  BY DEF GdbInv
<1> QED BY <1>1, GdbInvariant, PTL

\* Neither thread sleeps while what it waits for is already there: no wake-up
\* of the handshake is lost.
THEOREM GdbNoLostWakeup == Spec => []NobodySleepsThrough
BY GdbInitInv, GdbInvariant, GdbSleepStep, PTL DEF Spec
=============================================================================
