------------------------------- MODULE GdbStub -------------------------------
(***************************************************************************)
(* The GDB server thread and the emulator it debugs                       *)
(* (core/src/gdb_support.rs and gdb_support): requests go through an       *)
(* unbounded channel, each is completed by a handshake over a mutex and a  *)
(* condition variable, and stop reasons go back through a place for one.   *)
(* gdbstub is a library: the packets of the client, its Ctrl-C, the         *)
(* connection's errors and the end of run_blocking are the environment,    *)
(* and running and deferred are the library's own state.  A critical       *)
(* section that does not wait is one step.                                 *)
(***************************************************************************)
EXTENDS Naturals, Sequences

CONSTANT MaxSessions   \* bound on the connections of a run

ASSUME GdbAssumption == MaxSessions \in Nat \ {0}

Queries == {"Registers", "Memory", "AddSwBreakpoint", "DelSwBreakpoint", "Reset"}
Resumes == {"Resume", "SingleStep"}
Requests == Queries \cup Resumes \cup {"Interrupt"}

StopReasons == {"SIGINT", "SIGTRAP", "DoneStep", "SwBreak", "Exited"}

VARIABLES stub, asked,     \* the server thread: what it waits for, its last request
          running,         \* gdbstub's state: the client was told that its target runs
          deferred,        \* the answer to a Ctrl-C of a stopped target, or "none"
          rx, stop_signal, \* the channel; a stop reason or "none"
          finished,        \* request_complete_signal
          asleep,          \* who waits at its condition variable
          emu, req,        \* where the emulator is in debugger_run, with which request
          stopped, breakpoints,
          stale,           \* history: it runs by a Resume that found a reason left over
          sessions

stubVars == <<stub, asked, running, deferred>>
signals == <<finished, asleep>>
emuVars == <<emu, req, stopped, breakpoints, stale>>
gvars == <<stubVars, rx, stop_signal, signals, emuVars, sessions>>

StubPcs == {"none", "idle", "asking", "waiting", "blocking", "ended", "died"}
EmuPcs == {"detached", "entering", "polling", "handling", "acking", "reporting", "frame",
           "joining", "crashed"}

Init ==
  /\ stub = "none" /\ asked = "Memory" /\ rx = <<>> /\ finished = FALSE /\ asleep = {}
  /\ stop_signal = "none" /\ emu = "detached" /\ req = "Memory" /\ stopped = FALSE
  /\ breakpoints = FALSE /\ stale = FALSE /\ sessions = 0
  /\ running = FALSE /\ deferred = "none"

\* start_gdbserver: a thread, channels and a handler of their own, and the
\* emulator is stopped.  Breakpoints are the CPU's and outlive a session.
start_gdbserver ==
  /\ emu = "detached" /\ sessions < MaxSessions /\ sessions' = sessions + 1
  /\ stub' = "idle" /\ rx' = <<>> /\ finished' = FALSE /\ asleep' = {}
  /\ stop_signal' = "none" /\ stopped' = TRUE /\ emu' = "entering" /\ stale' = FALSE
  /\ running' = FALSE /\ deferred' = "none"
  /\ UNCHANGED <<asked, req, breakpoints>>

-----------------------------------------------------------------------------
\* The server thread.  debugger_request: send and wait at the condition variable.
debugger_request(request) ==
  /\ stub' = "asking" /\ asked' = request
  /\ rx' = Append(rx, request)
  /\ asleep' = IF finished THEN asleep ELSE asleep \cup {"stub"}
  /\ UNCHANGED <<running, deferred, finished, stop_signal, emuVars, sessions>>

\* Packets are answered while the client takes its target for stopped.
AskWhileStopped == stub = "idle" /\ \E r \in Queries \cup Resumes : debugger_request(r)

\* A Ctrl-C is never refused: one that crosses the report of a stop finds the
\* library idle.
on_interrupt == stub \in {"idle", "waiting"} /\ debugger_request("Interrupt")

\* What the library does of a request that returned: after a resume it reports the
\* reason it kept, if there is one, and else waits for the next.
AfterRequest ==
  LET told == asked \in Resumes /\ deferred # "none" IN
  /\ stub' = CASE asked = "Interrupt" -> "blocking"
               [] asked \in Resumes /\ ~told -> "waiting"
               [] OTHER -> "idle"
  /\ running' = (running \/ (asked \in Resumes /\ ~told))
  /\ deferred' = IF told THEN "none" ELSE deferred

IsFinished == stub = "asking" /\ "stub" \notin asleep /\ finished

AckWithoutReset ==
  /\ IsFinished /\ AfterRequest /\ asleep' = asleep \ {"emu"}
  /\ UNCHANGED <<asked, rx, stop_signal, finished, emuVars, sessions>>

AckWithoutNotify ==
  /\ IsFinished /\ AfterRequest /\ finished' = FALSE
  /\ UNCHANGED <<asked, rx, stop_signal, asleep, emuVars, sessions>>

\* Woken and finished: the acknowledgement.
Acknowledge ==
  /\ IsFinished /\ AfterRequest /\ finished' = FALSE /\ asleep' = asleep \ {"emu"}
  /\ UNCHANGED <<asked, rx, stop_signal, emuVars, sessions>>

\* wait_for_stop_reason (its time-outs only look again) and the blocking wait.  The
\* client is told, unless it takes its target for stopped already.
TakeStopReason ==
  /\ stub \in {"waiting", "blocking"} /\ stop_signal # "none"
  /\ stop_signal' = "none" /\ stub' = "idle" /\ running' = FALSE
  /\ deferred' = IF running THEN deferred ELSE stop_signal
  /\ UNCHANGED <<asked, rx, signals, emuVars, sessions>>

\* Detach or kill: the last message.  A connection error panics the thread.
Disconnect ==
  /\ stub = "idle" /\ stub' = "ended"
  /\ rx' = Append(rx, "Disconnected")
  /\ UNCHANGED <<asked, running, deferred, stop_signal, signals, emuVars, sessions>>

ConnectionError ==
  /\ stub \in {"idle", "waiting"} /\ stub' = "died"
  /\ UNCHANGED <<asked, running, deferred, rx, stop_signal, signals, emuVars, sessions>>

Client == AskWhileStopped \/ on_interrupt \/ Disconnect \/ ConnectionError

-----------------------------------------------------------------------------
\* The emulator: debugger_run is handle_incoming_requests, then a frame.
EmuGoes(from, to) == emu = from /\ emu' = to

\* The thread is joined; if it panicked, so does the emulator.
terminate ==
  /\ stop_signal' = "Exited"
  /\ emu' = IF stub = "died" THEN "crashed" ELSE "joining"

EnterRun ==
  /\ emu = "entering"
  /\ \/ stub \in {"ended", "died"} /\ terminate
     \/ stub \notin {"ended", "died"} /\ emu' = "polling" /\ UNCHANGED stop_signal
  /\ UNCHANGED <<stubVars, rx, signals, req, stopped, breakpoints, stale, sessions>>

Receive ==
  /\ emu = "polling" /\ rx # <<>>
  /\ rx' = Tail(rx) /\ req' = Head(rx)
  /\ \/ req' = "Disconnected" /\ terminate
     \/ req' # "Disconnected" /\ emu' = "handling" /\ UNCHANGED stop_signal
  /\ UNCHANGED <<stubVars, signals, stopped, breakpoints, stale, sessions>>

\* No more messages: stays while stopped, else runs a frame.
LeaveLoop ==
  /\ EmuGoes("polling", "frame") /\ rx = <<>> /\ ~stopped
  /\ UNCHANGED <<stubVars, rx, stop_signal, signals, req, stopped, breakpoints, stale, sessions>>

Stopping == {"Interrupt", "Reset", "SingleStep"}

\* handle_request, up to setting finished and waiting for the acknowledgement.
handle_request ==
  /\ EmuGoes("handling", "acking")
  /\ stopped' = (req \in Stopping \/ (stopped /\ req # "Resume"))
  /\ breakpoints' = (req = "AddSwBreakpoint" \/ (breakpoints /\ req # "DelSwBreakpoint"))
  /\ stale' = IF req = "Resume" THEN stop_signal # "none" \/ deferred # "none"
               ELSE stale /\ req \notin Stopping
  /\ finished' = TRUE
  /\ asleep' = (asleep \ {"stub"}) \cup {"emu"}
  /\ UNCHANGED <<stubVars, rx, stop_signal, req, sessions>>

SeeAck ==
  /\ EmuGoes("acking", "reporting") /\ "emu" \notin asleep /\ ~finished
  /\ UNCHANGED <<stubVars, rx, stop_signal, signals, req, stopped, breakpoints, stale, sessions>>

\* complete_request: the stop reason of the request, if it has one.
Reasons == [r \in Stopping |->
              CASE r = "Interrupt" -> "SIGINT" [] r = "Reset" -> "SIGTRAP" [] OTHER -> "DoneStep"]

ReportReason ==
  /\ EmuGoes("reporting", "polling")
  /\ stop_signal' = IF req \in Stopping THEN Reasons[req] ELSE stop_signal
  /\ UNCHANGED <<stubVars, rx, signals, req, stopped, breakpoints, stale, sessions>>

\* frame_interruptible, with or without a breakpoint hit; notify_breakpoint.
RunFrame ==
  /\ EmuGoes("frame", "entering")
  /\ UNCHANGED <<stubVars, rx, stop_signal, signals, req, stopped, breakpoints, stale, sessions>>

BreakpointRunsOn ==
  /\ EmuGoes("frame", "entering") /\ breakpoints
  /\ stop_signal' = "SwBreak"
  /\ UNCHANGED <<stubVars, rx, signals, req, stopped, breakpoints, stale, sessions>>

BreakpointUntold ==
  /\ EmuGoes("frame", "entering") /\ breakpoints
  /\ stopped' = TRUE /\ stale' = FALSE
  /\ UNCHANGED <<stubVars, rx, stop_signal, signals, req, breakpoints, sessions>>

notify_breakpoint ==
  /\ EmuGoes("frame", "entering") /\ breakpoints
  /\ stopped' = TRUE /\ stop_signal' = "SwBreak" /\ stale' = FALSE
  /\ UNCHANGED <<stubVars, rx, signals, req, breakpoints, sessions>>

\* The thread has ended and is joined; the frame that follows has no debugger.
JoinThread ==
  /\ EmuGoes("joining", "detached") /\ stub = "ended"
  /\ UNCHANGED <<stubVars, rx, stop_signal, signals, req, stopped, breakpoints, stale, sessions>>

Emulator == EnterRun \/ Receive \/ LeaveLoop \/ handle_request \/ SeeAck \/ ReportReason
              \/ RunFrame \/ notify_breakpoint \/ JoinThread

-----------------------------------------------------------------------------
\* A condition variable may wake a waiter for nothing; both look again.
SpuriousWake ==
  /\ \E t \in asleep : asleep' = asleep \ {t}
  /\ UNCHANGED <<stubVars, rx, stop_signal, finished, emuVars, sessions>>

SleepAgain ==
  /\ \/ stub = "asking" /\ ~finished /\ asleep' = asleep \cup {"stub"}
     \/ emu = "acking" /\ finished /\ asleep' = asleep \cup {"emu"}
  /\ UNCHANGED <<stubVars, rx, stop_signal, finished, emuVars, sessions>>

Server == Acknowledge \/ TakeStopReason

Next == start_gdbserver \/ Client \/ Server \/ Emulator \/ SpuriousWake \/ SleepAgain

\* Both threads run; the client, the user and the connection need not act, and a
\* condition variable need not wake anyone without being told.
Spec == Init /\ [][Next]_gvars /\ WF_gvars(Server) /\ WF_gvars(Emulator)

-----------------------------------------------------------------------------
\* debugger_request returns when its own request has been carried out: while the
\* server does not wait for an answer no request is in the channel or at work, so
\* what it reads of the shared registers and buffers is the answer.
ReturnedIsDone ==
  stub \in {"idle", "waiting", "blocking"} => rx = <<>> /\ emu # "handling"

\* A client that was told that its target stopped finds it stopped, if the reason
\* was written since it ran on: neither an interrupt that meets a breakpoint, nor a
\* reset, nor a step reports a stop that is not there.  A reason older than the
\* Resume - one nobody had taken, or the answer to a Ctrl-C that found the target
\* stopped - is reported all the same, and the target runs.
StopIsReal == stub = "idle" /\ ~stale => stopped

\* A stopped emulator and a server that waits for it to stop never wait for each
\* other: whichever requests and breakpoints share the place for a reason, one is
\* there or is the emulator's next step.
StopIsTold ==
  stub = "waiting" /\ stopped =>
    stop_signal # "none" \/ (emu \in {"acking", "reporting"} /\ req \in Stopping)

\* Every request returns, and an interrupted target is reported, whatever wakes
\* up when: neither thread sleeps through the other's notification.
RequestsReturn == stub \in {"asking", "blocking"} ~> stub \in {"idle", "waiting"}
=============================================================================
