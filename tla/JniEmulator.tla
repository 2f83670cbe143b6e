----------------------------- MODULE JniEmulator -----------------------------
(***************************************************************************)
(* The native half of the Android front end                               *)
(* (platform/rustboyadvance-jni/src): an emulation thread inside           *)
(* native_run, the audio worker it spawns, and the calls of one other      *)
(* thread, which share emustate under a mutex and the console under        *)
(* nothing.  A call is a sequence of steps: what the other thread still    *)
(* has to do is todo.                                                      *)
(***************************************************************************)
EXTENDS Naturals, Sequences, SequencesExt

CONSTANT MaxQueue   \* bound on the commands that wait for the audio worker

ASSUME JniAssumption == MaxQueue \in Nat \ {0}

Running(turbo) == IF turbo THEN "RunningTurbo" ELSE "Running"
IsRunning(s) == \E turbo \in BOOLEAN : s = Running(turbo)

EmulationState == {"Initial", "Pausing", "Paused", "Stopping", "Stopped"}
                    \cup {Running(turbo) : turbo \in BOOLEAN}
MainPcs == {"none", "starting", "spawning", "reading", "pausing", "frame", "sending",
            "terminating", "joining", "cleaning", "returned"}

VARIABLES emustate,
          locked,    \* the other thread holds the mutex across several steps
          main,      \* where the emulation thread is
          audio,     \* the worker: "none", "receiving" or "ended"
          commands,  \* its channel
          consumer,  \* audio_consumer is in the context
          playing,   \* the AudioPlayer plays
          todo,      \* what the other thread still has to do
          early      \* it asked for a pause before the main loop had begun

jniVars == <<emustate, locked, main, audio, commands, consumer, playing, todo, early>>

native_open_context ==
  /\ emustate = "Initial" /\ locked = FALSE
  /\ main = "none" /\ audio = "none" /\ commands = <<>>
  /\ consumer = TRUE /\ playing = FALSE /\ todo = <<>> /\ early = FALSE

-----------------------------------------------------------------------------
\* The other thread's calls.
Store(s) == <<"store", s>>
Await(s) == <<"await", s>>
Step(name) == <<name, "">>

PauseWithoutWaiting == <<Store("Pausing")>>

pause == <<Store("Pausing"), Await("Paused")>>

resume == <<Store(Running(FALSE))>>

set_turbo(turbo) == <<Store(Running(turbo))>>

request_stop == <<Step("test_stopped"), Store("Stopping")>>

stop == request_stop \o <<Await("Stopped")>>

closeEmulator == stop \o <<Step("free")>>

native_get_framebuffer == pause \o <<Step("read_frame")>> \o resume

\* saveState and loadState: the console under the lock; an error returns.
WithGba(what) == pause \o <<Step("lock"), Step(what), Step("unlock")>> \o resume
saveState == WithGba("save_state")
loadState == WithGba("load_state")

Touches == {Step("save_state"), Step("load_state"), Step("read_frame")}
Next1 == Head(todo)
Goes == todo # <<>>
Does(step) == Goes /\ Next1 = step
Done == todo' = Tail(todo)

StoreState ==
  /\ Goes /\ Next1[1] = "store" /\ ~locked
  /\ emustate' = Next1[2] /\ Done
  /\ early' = (early \/ (Next1[2] = "Pausing" /\ main \in {"none", "starting"}))
  /\ UNCHANGED <<locked, main, audio, commands, consumer, playing>>

AwaitState ==
  /\ Goes /\ Next1[1] = "await" /\ ~locked
  /\ emustate = Next1[2] /\ Done
  /\ UNCHANGED <<emustate, locked, main, audio, commands, consumer, playing, early>>

StopAnyway ==
  /\ Does(Step("test_stopped")) /\ ~locked /\ Done
  /\ UNCHANGED <<emustate, locked, main, audio, commands, consumer, playing, early>>

\* The test of request_stop, and the store that it may leave out.
TestStopped ==
  /\ Does(Step("test_stopped")) /\ ~locked
  /\ todo' = IF emustate = "Stopped" THEN Tail(Tail(todo)) ELSE Tail(todo)
  /\ UNCHANGED <<emustate, locked, main, audio, commands, consumer, playing, early>>

SetLock(b) ==
  /\ Does(Step(IF b THEN "lock" ELSE "unlock"))
  /\ locked # b /\ locked' = b /\ Done
  /\ UNCHANGED <<emustate, main, audio, commands, consumer, playing, early>>

UseGba ==
  /\ Goes /\ Next1 \in Touches /\ Done
  /\ UNCHANGED <<emustate, locked, main, audio, commands, consumer, playing, early>>

\* An error: the guard is dropped, the caller's handler goes on, nobody resumes.
FailGba ==
  /\ \E s \in Touches \ {Step("read_frame")} : Does(s)
  /\ locked' = FALSE
  /\ LET handler == SelectInSeq(todo, LAMBDA s : s = Step("catch"))
     IN todo' = IF handler = 0 THEN <<>> ELSE SubSeq(todo, handler + 1, Len(todo))
  /\ UNCHANGED <<emustate, main, audio, commands, consumer, playing, early>>

PlayOrPause ==
  /\ Goes /\ Next1 \in {Step("play"), Step("silence")}
  /\ playing' = (Next1 = Step("play")) /\ Done
  /\ UNCHANGED <<emustate, locked, main, audio, commands, consumer, early>>

\* Emulator.java and EmulationThread.java
EmulatorPause == pause \o <<Step("silence")>>
EmulatorResume == resume \o <<Step("play")>>
EmulatorStop == stop \o <<Step("silence")>>

StartThread ==
  /\ Does(Step("start")) /\ main = "none"
  /\ main' = "starting" /\ Done
  /\ UNCHANGED <<emustate, locked, audio, commands, consumer, playing, early>>

JoinThread ==
  /\ Does(Step("join")) /\ main = "returned"
  /\ main' = "none" /\ Done
  /\ UNCHANGED <<emustate, locked, audio, commands, consumer, playing, early>>

PassStep ==
  /\ Goes /\ Next1 \in {Step("catch"), Step("free")} /\ Done
  /\ UNCHANGED <<emustate, locked, main, audio, commands, consumer, playing, early>>

Caller == StoreState \/ AwaitState \/ TestStopped \/ (\E b \in BOOLEAN : SetLock(b)) \/ UseGba
            \/ FailGba \/ PlayOrPause \/ StartThread \/ JoinThread \/ PassStep

-----------------------------------------------------------------------------
\* The emulation thread: EmulationThread.run and native_run.
Begin ==
  /\ main = "starting" /\ ~locked
  /\ emustate' = Running(FALSE) /\ main' = "spawning"
  /\ UNCHANGED <<locked, audio, commands, consumer, playing, todo, early>>

SpawnAudio ==
  /\ main = "spawning" /\ consumer
  /\ consumer' = FALSE /\ audio' = "receiving" /\ commands' = <<>>
  /\ main' = "reading"
  /\ UNCHANGED <<emustate, locked, playing, todo, early>>

\* Reads emustate; Paused is read again and again.
ReadState ==
  /\ main = "reading" /\ ~locked
  /\ \/ emustate = "Pausing" /\ main' = "pausing"
     \/ emustate = "Stopping" /\ main' = "terminating"
     \/ IsRunning(emustate) /\ main' = "frame"
  /\ UNCHANGED <<emustate, locked, audio, commands, consumer, playing, todo, early>>

StorePaused ==
  /\ main = "pausing" /\ ~locked
  /\ emustate' = "Paused" /\ main' = "reading"
  /\ UNCHANGED <<locked, audio, commands, consumer, playing, todo, early>>

Frame ==
  /\ main = "frame" /\ main' = "sending"
  /\ UNCHANGED <<emustate, locked, audio, commands, consumer, playing, todo, early>>

SendRenderAudio ==
  /\ main = "sending" /\ Len(commands) < MaxQueue
  /\ commands' = Append(commands, "RenderAudio") /\ main' = "reading"
  /\ UNCHANGED <<emustate, locked, audio, consumer, playing, todo, early>>

SendTerminate ==
  /\ main = "terminating" /\ main' = "joining"
  /\ commands' = Append(commands, "Terminate")
  /\ UNCHANGED <<emustate, locked, audio, consumer, playing, todo, early>>

JoinableAnyway == TRUE

Joinable == audio = "ended"

JoinAudio ==
  /\ main = "joining" /\ Joinable
  /\ consumer' = TRUE /\ main' = "cleaning"
  /\ UNCHANGED <<emustate, locked, audio, commands, playing, todo, early>>

StoreStopped ==
  /\ main = "cleaning" /\ ~locked
  /\ playing' = FALSE
  /\ emustate' = "Stopped" /\ main' = "returned"
  /\ UNCHANGED <<locked, audio, commands, consumer, todo, early>>

Emulation == SpawnAudio \/ ReadState \/ StorePaused \/ Frame \/ SendRenderAudio
               \/ SendTerminate \/ JoinAudio \/ StoreStopped

-----------------------------------------------------------------------------
\* spawn_audio_worker_thread; nobody sends Pause or Play.
RenderAudio ==
  /\ audio = "receiving" /\ commands # <<>> /\ Head(commands) = "RenderAudio"
  /\ commands' = Tail(commands)
  /\ UNCHANGED <<emustate, locked, main, audio, consumer, playing, todo, early>>

Terminate ==
  /\ audio = "receiving" /\ commands # <<>> /\ Head(commands) = "Terminate"
  /\ commands' = Tail(commands) /\ audio' = "ended"
  /\ UNCHANGED <<emustate, locked, main, consumer, playing, todo, early>>

AudioWorker == RenderAudio \/ Terminate

-----------------------------------------------------------------------------
(***************************************************************************)
(* The user-interface thread of the Android application                    *)
(* (ui/EmulatorActivity.java over core/Emulator.java) as the one caller of *)
(* JniEmulator: every callback of the activity's life cycle that touches   *)
(* the emulator, in the orders the platform calls them, and the finalizer  *)
(* that closes the context.                                                *)
(***************************************************************************)

CONSTANT MaxCalls   \* bound on the callbacks of a run

ASSUME ActivityAssumption == MaxCalls \in Nat

VARIABLES phase,     \* of the activity
          hasThread, \* emulationThread # null
          open,      \* the Emulator holds a context
          calls      \* callbacks made so far

Phases == {"launched", "created", "resumed", "paused", "destroyed"}

activityVars == <<phase, hasThread, open, calls>>
avars == <<jniVars, activityVars>>

Init ==
  /\ native_open_context
  /\ phase = "launched" /\ hasThread = FALSE /\ open = FALSE /\ calls = 0

isEmulatorRunning == open /\ hasThread

IfThread(steps) == IF hasThread THEN steps ELSE <<>>

pauseEmulation == IfThread(EmulatorPause)
resumeEmulation == IfThread(EmulatorResume)

Callback(from, to, steps) ==
  /\ todo = <<>> /\ calls < MaxCalls /\ calls' = calls + 1
  /\ phase \in from /\ phase' = to /\ todo' = steps
  /\ UNCHANGED <<emustate, locked, main, audio, commands, consumer, playing, early>>

Stays(phases, steps) == \E p \in phases : phase = p /\ Callback({p}, p, steps)

\* createThreads; a saved state also sets the turbo button.
createThreads(checked) == set_turbo(checked) \o <<Step("start")>>

onCreate(checked, restored) ==
  /\ Callback({"launched"}, "created",
              createThreads(checked) \o (IF restored THEN set_turbo(FALSE) ELSE <<>>))
  /\ hasThread' = TRUE /\ open' = TRUE

onResume ==
  /\ Callback({"created", "paused"}, "resumed", resumeEmulation \o <<Step("play")>>)
  /\ UNCHANGED <<hasThread, open>>

onPause ==
  /\ Callback({"resumed"}, "paused", pauseEmulation)
  /\ UNCHANGED <<hasThread, open>>

onSaveInstanceState ==
  /\ Stays({"paused"}, IF isEmulatorRunning THEN saveState ELSE <<>>)
  /\ UNCHANGED <<hasThread, open>>

\* The picked snapshot, before onResume.
onActivityResult ==
  /\ Stays({"paused"}, pauseEmulation \o loadState \o <<Step("catch")>> \o resumeEmulation)
  /\ isEmulatorRunning
  /\ UNCHANGED <<hasThread, open>>

onClickTurbo(checked) ==
  /\ isEmulatorRunning /\ Stays({"resumed"}, set_turbo(checked))
  /\ UNCHANGED <<hasThread, open>>

doSaveScreenshotToLibrary ==
  /\ isEmulatorRunning
  /\ Stays({"resumed"}, pauseEmulation \o native_get_framebuffer \o resumeEmulation)
  /\ UNCHANGED <<hasThread, open>>

SnapshotWithoutFinally ==
  /\ isEmulatorRunning
  /\ Stays({"resumed"}, pauseEmulation \o saveState \o native_get_framebuffer \o resumeEmulation)
  /\ UNCHANGED <<hasThread, open>>

doSaveSnapshot ==
  /\ isEmulatorRunning
  /\ Stays({"resumed"}, pauseEmulation \o saveState \o native_get_framebuffer
                          \o <<Step("catch")>> \o resumeEmulation)
  /\ UNCHANGED <<hasThread, open>>

\* With the library's first picture or without; killThreads.
onDestroy(screenshot) ==
  /\ Callback({"paused"}, "destroyed",
              pauseEmulation \o (IF screenshot THEN native_get_framebuffer ELSE <<>>)
                \o IfThread(EmulatorStop \o <<Step("join")>>))
  /\ hasThread' = FALSE /\ UNCHANGED open

\* Emulator.finalize, close.
finalize ==
  /\ phase = "destroyed" /\ open /\ main = "none"
  /\ Callback({"destroyed"}, "destroyed", closeEmulator)
  /\ open' = FALSE /\ UNCHANGED hasThread

UserInterface ==
  \/ \E checked, restored \in BOOLEAN : onCreate(checked, restored)
  \/ onResume \/ onPause \/ onSaveInstanceState \/ onActivityResult
  \/ \E checked \in BOOLEAN : onClickTurbo(checked)
  \/ doSaveScreenshotToLibrary \/ doSaveSnapshot
  \/ \E screenshot \in BOOLEAN : onDestroy(screenshot)
  \/ finalize

Next == UserInterface \/ ((Caller \/ Begin \/ Emulation \/ AudioWorker) /\ UNCHANGED activityVars)

\* Three threads that the system schedules.  Nothing makes the user act, or the
\* screen ready (Begin).
Fairness ==
  /\ WF_avars(Caller /\ UNCHANGED activityVars)
  /\ WF_avars(Emulation /\ UNCHANGED activityVars)
  /\ WF_avars(AudioWorker /\ UNCHANGED activityVars)

Spec == Init /\ [][Next]_avars /\ Fairness

-----------------------------------------------------------------------------
(* What the calls say that is left to do, once the main loop reads its state. *)

\* The user interface reads or writes the console only while the emulation
\* thread is between two frames: nothing but emustate keeps run() and save_state
\* or load_state apart (the context is borrowed mutably by both threads).
GbaExclusive ==
  Goes /\ Next1 \in Touches => main \notin {"frame", "pausing", "terminating"}

\* Once the state says Stopped the worker has ended and handed its ring buffer
\* back: the context can be run again or freed.
StoppedIsClean == emustate = "Stopped" => consumer /\ audio # "receiving" /\ commands = <<>>

\* While the user looks at the game and no call is under way, it is not left
\* paused: every callback that pauses resumes, also when saving or loading fails.
ForegroundRuns ==
  phase = "resumed" /\ todo = <<>> => IsRunning(emustate)

\* Every call returns: the emulation thread sees a request and answers it, the
\* worker ends when it is told to, and nobody overwrites an answer before it is
\* read.  A pause asked for before native_run has stored Running(false) is
\* excepted: that store overwrites it, and the caller spins for ever.
CallsReturn == (todo # <<>> /\ ~early) ~> (todo = <<>> \/ early)
=============================================================================
