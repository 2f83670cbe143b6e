------------------------------ MODULE JniProofs ------------------------------
(***************************************************************************)
(* The Android front end for any number of callbacks and any length of the *)
(* audio worker's channel.  What is left of a call is a suffix of a script *)
(* the callback put together; the invariant says what every such suffix    *)
(* still promises: a pause waits for its answer, the console is touched    *)
(* between that answer and the next store, and in the foreground a store   *)
(* of Running comes last.                                                  *)
(***************************************************************************)
EXTENDS JniEmulator, WellFoundedInduction, TLAPS

Stored == {"Pausing", "Stopping"} \cup {Running(turbo) : turbo \in BOOLEAN}
Fallible == {Step("save_state"), Step("load_state")}
Plain == {Step(name) : name \in {"test_stopped", "lock", "unlock", "catch", "free",
                                 "play", "silence", "start", "join"}}
Steps == {Store(s) : s \in Stored} \cup {Await("Paused"), Await("Stopped")} \cup Touches \cup Plain

\* A request is followed by the wait for its answer.
Waits(s) ==
  \A k \in 1..Len(s) :
    /\ s[k] = Store("Pausing") => k < Len(s) /\ s[k + 1] = Await("Paused")
    /\ s[k] = Store("Stopping") => k < Len(s) /\ s[k + 1] = Await("Stopped")
    /\ s[k] = Step("test_stopped") => k < Len(s) /\ s[k + 1] = Store("Stopping")

\* Nothing from step i to step k lets the emulation go on.
Quiet(s, i, k) == \A j \in i..k : s[j][1] \notin {"store", "catch"}

\* The wait for Paused comes before step k, and nothing resumes in between.
Opened(s, k) == \E i \in 1..(k - 1) : s[i] = Await("Paused") /\ Quiet(s, i + 1, k - 1)

Opens(s) == \A k \in 1..Len(s) : s[k] \in Touches => Opened(s, k)

\* Nothing left that stores or fails.
Settled(s, i) ==
  \A j \in i..Len(s) : s[j][1] \notin {"store", "test_stopped"} /\ s[j] \notin Fallible

CaughtBefore(s, i, k) ==
  s[i] \in Fallible => \E c \in (i + 1)..(k - 1) : s[c] = Step("catch")

\* Running is stored last, also when a step before it fails.
Resumes(s) ==
  \E k \in 1..Len(s) :
    /\ \E turbo \in BOOLEAN : s[k] = Store(Running(turbo))
    /\ Settled(s, k + 1)
    /\ \A i \in 1..(k - 1) : CaughtBefore(s, i, k)

JTypeOK ==
  /\ emustate \in EmulationState /\ locked \in BOOLEAN /\ main \in MainPcs
  /\ audio \in {"none", "receiving", "ended"}
  /\ commands \in Seq({"RenderAudio", "Terminate"})
  /\ consumer \in BOOLEAN /\ playing \in BOOLEAN /\ early \in BOOLEAN
  /\ todo \in Seq(Steps)
  /\ phase \in Phases /\ hasThread \in BOOLEAN /\ open \in BOOLEAN
  /\ calls \in 0..MaxCalls

\* The worker, its channel and its ring buffer, from where the emulation thread is.
Rendering(n) == \A k \in 1..n : commands[k] = "RenderAudio"
WorkerInv ==
  /\ main \in {"none", "starting", "spawning", "cleaning", "returned"} =>
       consumer /\ audio # "receiving" /\ commands = <<>>
  /\ main \in {"reading", "pausing", "frame", "sending", "terminating"} =>
       audio = "receiving" /\ Rendering(Len(commands))
  /\ main = "joining" /\ audio = "receiving" =>
       commands # <<>> /\ Rendering(Len(commands) - 1) /\ commands[Len(commands)] = "Terminate"
  /\ main = "joining" /\ audio # "receiving" => commands = <<>>

\* The state, from where both threads are.
StateInv ==
  /\ emustate = "Pausing" => Goes /\ Next1 = Await("Paused")
  /\ emustate = "Stopping" => Goes /\ Next1 = Await("Stopped")
  /\ emustate = "Paused" => main = "reading"
  /\ emustate = "Stopped" => main \in {"none", "starting", "returned"}
  /\ main = "pausing" => emustate = "Pausing"
  /\ main \in {"terminating", "joining", "cleaning"} => emustate = "Stopping"

TouchInv ==
  \A k \in 1..Len(todo) : todo[k] \in Touches =>
    Opened(todo, k) \/ (emustate = "Paused" /\ Quiet(todo, 1, k - 1))

ForegroundInv ==
  /\ phase \in {"created", "resumed", "paused"} => hasThread
  /\ phase = "resumed" => Resumes(todo) \/ (IsRunning(emustate) /\ Settled(todo, 1))

JInv == JTypeOK /\ Waits(todo) /\ WorkerInv /\ StateInv /\ TouchInv /\ ForegroundInv

-----------------------------------------------------------------------------
(* Scripts: one after the other, and what is left of them. *)

LEMMA ConcatElement ==
  ASSUME NEW s \in Seq(Steps), NEW t \in Seq(Steps)
  PROVE  /\ s \o t \in Seq(Steps) /\ Len(s \o t) = Len(s) + Len(t)
         /\ \A k \in 1..Len(s) : (s \o t)[k] = s[k]
         /\ \A k \in (Len(s) + 1)..(Len(s) + Len(t)) : (s \o t)[k] = t[k - Len(s)]
  OBVIOUS

\* s is a script whose parts are in order.
Script(s) == s \in Seq(Steps) /\ Waits(s) /\ Opens(s)

LEMMA ShiftedPlace ==
  ASSUME NEW m \in Nat, NEW n \in Nat, NEW k \in 1..(m + n), k - m \in 1..n,
         NEW i \in 1..((k - m) - 1), NEW j \in ((m + i) + 1)..(k - 1)
  PROVE  j \in (m + 1)..(m + n) /\ j - m \in (i + 1)..((k - m) - 1)
  OBVIOUS

LEMMA ConcatScript ==
  ASSUME NEW s, NEW t, Script(s), Script(t)
  PROVE  Script(s \o t)
  <1> DEFINE r == s \o t
             m == Len(s)
             n == Len(t)
  <1>1. /\ s \in Seq(Steps) /\ t \in Seq(Steps) /\ m \in Nat /\ n \in Nat
        /\ Waits(s) /\ Waits(t) /\ Opens(s) /\ Opens(t)
    BY DEF Script
  <1>2. /\ r \in Seq(Steps) /\ Len(r) = m + n
        /\ \A k \in 1..m : r[k] = s[k]
        /\ \A k \in (m + 1)..(m + n) : r[k] = t[k - m]
    BY <1>1, ConcatElement
  <1> HIDE DEF r
  <1>3. Waits(r)
    <2> SUFFICES ASSUME NEW k \in 1..(m + n)
                 PROVE  /\ r[k] = Store("Pausing") => k < m + n /\ r[k + 1] = Await("Paused")
                        /\ r[k] = Store("Stopping") => k < m + n /\ r[k + 1] = Await("Stopped")
                        /\ r[k] = Step("test_stopped") => k < m + n /\ r[k + 1] = Store("Stopping")
      BY <1>2 DEF Waits
    <2>1. CASE k \in 1..m
      <3>1. r[k] = s[k]
        BY <2>1, <1>2
      <3>2. k < m => r[k + 1] = s[k + 1]
        BY <2>1, <1>1, <1>2
      <3> HIDE DEF m, n
      <3>3. m = Len(s)
        BY DEF m
      <3>4. QED
        BY <1>1, <2>1, <3>1, <3>2, <3>3 DEF Waits
    <2>2. CASE k \in (m + 1)..(m + n)
      <3> DEFINE i == k - m
      <3>1. r[k] = t[i] /\ i \in 1..n
        BY <2>2, <1>1, <1>2
      <3>2. i < n => r[k + 1] = t[i + 1]
        <4> HIDE DEF m, n
        <4>1. i < n => k + 1 \in (m + 1)..(m + n) /\ (k + 1) - m = i + 1
          BY <1>1, <2>2
        <4>2. QED
          BY <4>1, <1>2
      <3>3. i < n <=> k < m + n
        BY <1>1
      <3>4. n = Len(t)
        OBVIOUS
      <3> HIDE DEF m, n, i
      <3>5. QED
        BY <1>1, <3>1, <3>2, <3>3, <3>4 DEF Waits
    <2>3. QED
      BY <1>1, <2>1, <2>2
  <1>4. Opens(r)
    <2> SUFFICES ASSUME NEW k \in 1..(m + n), r[k] \in Touches
                 PROVE  Opened(r, k)
      BY <1>2 DEF Opens
    <2>1. CASE k \in 1..m
      <3>1. s[k] \in Touches
        BY <2>1, <1>2
      <3>2. PICK i \in 1..(k - 1) : s[i] = Await("Paused") /\ Quiet(s, i + 1, k - 1)
        BY <2>1, <3>1, <1>1 DEF Opens, Opened
      <3>3. r[i] = Await("Paused") /\ Quiet(r, i + 1, k - 1)
        <4> HIDE DEF m, n
        <4>1. QED
          BY <2>1, <3>2, <1>1, <1>2 DEF Quiet
      <3>4. QED
        BY <3>3 DEF Opened
    <2>2. CASE k \in (m + 1)..(m + n)
      <3> DEFINE q == k - m
      <3>1. t[q] \in Touches /\ q \in 1..n
        BY <2>2, <1>1, <1>2
      <3>2. PICK i \in 1..(q - 1) : t[i] = Await("Paused") /\ Quiet(t, i + 1, q - 1)
        BY <3>1, <1>1 DEF Opens, Opened
      <3>3. m + i \in 1..(k - 1) /\ r[m + i] = Await("Paused") /\ Quiet(r, (m + i) + 1, k - 1)
        <4> HIDE DEF m, n
        <4>1. m + i \in (m + 1)..(m + n) /\ (m + i) - m = i /\ m + i \in 1..(k - 1)
          BY <3>1, <3>2, <1>1
        <4>2. ASSUME NEW j \in ((m + i) + 1)..(k - 1)
              PROVE  r[j][1] \notin {"store", "catch"}
          <5>1. j \in (m + 1)..(m + n) /\ j - m \in (i + 1)..(q - 1)
            BY ShiftedPlace, <1>1, <3>1, <3>2
          <5>2. r[j] = t[j - m]
            BY <5>1, <1>2
          <5>3. QED
            BY <5>1, <5>2, <3>2 DEF Quiet
        <4>3. QED
          BY <4>1, <4>2, <3>2, <1>2 DEF Quiet
      <3>4. QED
        BY <3>3 DEF Opened
    <2>3. QED
      BY <1>1, <2>1, <2>2
  <1>5. QED
    BY <1>2, <1>3, <1>4 DEF Script, r

\* t is what is left of s after its first d steps.
Left(s, t, d) ==
  /\ t \in Seq(Steps) /\ d \in Nat /\ Len(s) = d + Len(t)
  /\ \A k \in 1..Len(t) : t[k] = s[d + k]

LEMMA TailLeft ==
  ASSUME NEW s \in Seq(Steps), s # <<>>
  PROVE  Left(s, Tail(s), 1) /\ Head(s) = s[1] /\ Len(s) >= 1
  BY DEF Left

LEMMA TailTailLeft ==
  ASSUME NEW s \in Seq(Steps), Len(s) >= 2
  PROVE  Left(s, Tail(Tail(s)), 2)
  <1>1. Tail(s) \in Seq(Steps) /\ Len(Tail(s)) = Len(s) - 1 /\ \A k \in 1..(Len(s) - 1) : Tail(s)[k] = s[k + 1]
    OBVIOUS
  <1> DEFINE t == Tail(s)
  <1> HIDE DEF t
  <1>2. t \in Seq(Steps) /\ Len(t) = Len(s) - 1 /\ \A k \in 1..(Len(s) - 1) : t[k] = s[k + 1]
    BY <1>1 DEF t
  <1>3. /\ Tail(t) \in Seq(Steps) /\ Len(Tail(t)) = Len(s) - 2
        /\ \A k \in 1..(Len(s) - 2) : Tail(t)[k] = t[k + 1]
    BY <1>2
  <1>4. QED
    BY <1>2, <1>3 DEF Left, t

LEMMA SubSeqLeft ==
  ASSUME NEW s \in Seq(Steps), NEW d \in 0..Len(s)
  PROVE  Left(s, SubSeq(s, d + 1, Len(s)), d)
  BY DEF Left

-----------------------------------------------------------------------------
(* The scripts of the callbacks. *)

LEMMA Kinds ==
  /\ \A x, y : Store(x) = Store(y) => x = y
  /\ \A x, y : Await(x) = Await(y) => x = y
  /\ \A x, y : Step(x) = Step(y) => x = y
  /\ \A x, y : Store(x) # Await(y)
  /\ \A x, y : x # "store" => Store(y) # Step(x)
  /\ \A x, y : x # "await" => Await(y) # Step(x)
  /\ \A x : Store(x)[1] = "store" /\ Await(x)[1] = "await" /\ Step(x)[1] = x
  /\ \A x : Store(x)[2] = x /\ Await(x)[2] = x
  BY DEF Store, Await, Step

LEMMA StepsAre ==
  /\ \A s \in Stored : Store(s) \in Steps
  /\ Await("Paused") \in Steps /\ Await("Stopped") \in Steps
  /\ Touches \subseteq Steps /\ Plain \subseteq Steps
  /\ Fallible \subseteq Touches
  BY DEF Steps, Touches, Fallible

LEMMA pauseScript == Script(pause)
  <1>1. pause \in Seq(Steps) /\ Len(pause) = 2 /\ pause[1] = Store("Pausing") /\ pause[2] = Await("Paused")
    BY StepsAre DEF pause, Stored
  <1>2. Waits(pause)
    BY <1>1, Kinds DEF Waits
  <1>3. Opens(pause)
    BY <1>1, Kinds DEF Opens, Touches
  <1>4. QED
    BY <1>1, <1>2, <1>3 DEF Script

LEMMA runningScript == \A turbo \in BOOLEAN : Script(<<Store(Running(turbo))>>)
  <1> TAKE turbo \in BOOLEAN
  <1> DEFINE s == <<Store(Running(turbo))>>
  <1>0. Running(turbo) \in Stored
    BY DEF Stored
  <1>1. s \in Seq(Steps) /\ Len(s) = 1 /\ s[1] = Store(Running(turbo))
    BY <1>0, StepsAre
  <1> HIDE DEF s
  <1>2. Waits(s)
    BY <1>1, Kinds DEF Waits, Running
  <1>3. Opens(s)
    BY <1>1, Kinds DEF Opens, Touches
  <1>4. QED
    BY <1>1, <1>2, <1>3 DEF Script, s

LEMMA plainScript == \A p \in Plain \ {Step("test_stopped")} : Script(<<p>>)
  <1> TAKE p \in Plain \ {Step("test_stopped")}
  <1> DEFINE s == <<p>>
  <1>1. s \in Seq(Steps) /\ Len(s) = 1 /\ s[1] = p
    BY StepsAre
  <1> HIDE DEF s
  <1>2. Waits(s)
    BY <1>1, Kinds DEF Waits, Plain
  <1>3. Opens(s)
    BY <1>1, Kinds DEF Opens, Touches, Plain
  <1>4. QED
    BY <1>1, <1>2, <1>3 DEF Script, s

LEMMA emptyScript == Script(<<>>)
  BY DEF Script, Waits, Opens

LEMMA stopScript == Script(stop)
  <1>1. /\ stop \in Seq(Steps) /\ Len(stop) = 3 /\ stop[1] = Step("test_stopped")
        /\ stop[2] = Store("Stopping") /\ stop[3] = Await("Stopped")
    BY StepsAre DEF stop, request_stop, Stored, Plain
  <1>2. Waits(stop)
    BY <1>1, Kinds DEF Waits
  <1>3. Opens(stop)
    BY <1>1, Kinds DEF Opens, Touches
  <1>4. QED
    BY <1>1, <1>2, <1>3 DEF Script

\* One touch between the pause and the resumption, with the lock or without.
LEMMA WithGbaScript == \A what \in {"save_state", "load_state"} : Script(WithGba(what))
  <1> TAKE what \in {"save_state", "load_state"}
  <1> DEFINE s == (<<Store("Pausing"), Await("Paused")>> \o <<Step("lock"), Step(what), Step("unlock")>>)
                    \o <<Store(Running(FALSE))>>
  <1>0. WithGba(what) = s
    BY DEF WithGba, pause, resume
  <1>1. /\ s \in Seq(Steps) /\ Len(s) = 6 /\ s[1] = Store("Pausing") /\ s[2] = Await("Paused")
        /\ s[3] = Step("lock") /\ s[4] = Step(what) /\ s[5] = Step("unlock")
        /\ s[6] = Store(Running(FALSE))
    <2>1. Store("Pausing") \in Steps /\ Store(Running(FALSE)) \in Steps /\ Await("Paused") \in Steps
      BY StepsAre DEF Stored
    <2>2. Step("lock") \in Steps /\ Step("unlock") \in Steps
      BY StepsAre DEF Plain
    <2>3. Step(what) \in Steps
      BY StepsAre DEF Touches
    <2> DEFINE a == Store("Pausing")
               b == Await("Paused")
               c == Step("lock")
               d == Step(what)
               e == Step("unlock")
               f == Store(Running(FALSE))
               r == (<<a, b>> \o <<c, d, e>>) \o <<f>>
    <2> HIDE DEF a, b, c, d, e, f
    <2>4. a \in Steps /\ b \in Steps /\ c \in Steps /\ d \in Steps /\ e \in Steps /\ f \in Steps
      BY <2>1, <2>2, <2>3 DEF a, b, c, d, e, f
    <2>5. /\ r \in Seq(Steps) /\ Len(r) = 6 /\ r[1] = a /\ r[2] = b /\ r[3] = c
          /\ r[4] = d /\ r[5] = e /\ r[6] = f
      BY <2>4
    <2>6. QED
      BY <2>5 DEF a, b, c, d, e, f
  <1> HIDE DEF s
  <1>2. Waits(s)
    BY <1>1, Kinds DEF Waits, Running
  <1>3. Opened(s, 4)
    BY <1>1, Kinds DEF Opened, Quiet
  <1>4. \A k \in 1..Len(s) : s[k] \in Touches => k = 4
    <2>1. Store("Pausing") \notin Touches /\ Await("Paused") \notin Touches
            /\ Store(Running(FALSE)) \notin Touches
      BY Kinds DEF Touches
    <2>2. Step("lock") \notin Touches /\ Step("unlock") \notin Touches
      BY Kinds DEF Touches
    <2>3. s[1] \notin Touches /\ s[2] \notin Touches /\ s[3] \notin Touches
            /\ s[5] \notin Touches /\ s[6] \notin Touches
      BY <1>1, <2>1, <2>2
    <2>4. Len(s) = 6
      BY <1>1
    <2>5. QED
      BY <2>3, <2>4
  <1>5. Opens(s)
    BY <1>3, <1>4 DEF Opens
  <1>6. QED
    BY <1>0, <1>1, <1>2, <1>5 DEF Script

LEMMA framebufferScript == Script(native_get_framebuffer)
  <1> DEFINE s == (<<Store("Pausing"), Await("Paused")>> \o <<Step("read_frame")>>)
                    \o <<Store(Running(FALSE))>>
  <1>0. native_get_framebuffer = s
    BY DEF native_get_framebuffer, pause, resume
  <1>1. /\ s \in Seq(Steps) /\ Len(s) = 4 /\ s[1] = Store("Pausing") /\ s[2] = Await("Paused")
        /\ s[3] = Step("read_frame") /\ s[4] = Store(Running(FALSE))
    <2>1. Store("Pausing") \in Steps /\ Store(Running(FALSE)) \in Steps /\ Await("Paused") \in Steps
      BY StepsAre DEF Stored
    <2>2. Step("read_frame") \in Steps
      BY StepsAre DEF Touches
    <2> DEFINE a == Store("Pausing")
               b == Await("Paused")
               c == Step("read_frame")
               d == Store(Running(FALSE))
               r == (<<a, b>> \o <<c>>) \o <<d>>
    <2> HIDE DEF a, b, c, d
    <2>3. a \in Steps /\ b \in Steps /\ c \in Steps /\ d \in Steps
      BY <2>1, <2>2 DEF a, b, c, d
    <2>4. r \in Seq(Steps) /\ Len(r) = 4 /\ r[1] = a /\ r[2] = b /\ r[3] = c /\ r[4] = d
      BY <2>3
    <2>5. QED
      BY <2>4 DEF a, b, c, d
  <1> HIDE DEF s
  <1>2. Waits(s)
    BY <1>1, Kinds DEF Waits, Running
  <1>3. Opened(s, 3)
    BY <1>1, Kinds DEF Opened, Quiet
  <1>4. \A k \in 1..Len(s) : s[k] \in Touches => k = 3
    <2>1. s[1] \notin Touches /\ s[2] \notin Touches /\ s[4] \notin Touches
      BY <1>1, Kinds DEF Touches
    <2>2. Len(s) = 4
      BY <1>1
    <2>3. QED
      BY <2>1, <2>2
  <1>5. Opens(s)
    BY <1>3, <1>4 DEF Opens
  <1>6. QED
    BY <1>0, <1>1, <1>2, <1>5 DEF Script

LEMMA EmulatorScripts ==
  /\ \A turbo \in BOOLEAN : Script(set_turbo(turbo)) /\ Script(createThreads(turbo))
  /\ Script(resume) /\ Script(saveState) /\ Script(loadState) /\ Script(closeEmulator)
  /\ Script(EmulatorPause) /\ Script(EmulatorResume) /\ Script(EmulatorStop)
  /\ Script(pauseEmulation) /\ Script(resumeEmulation)
  <1>1. \A name \in {"start", "play", "silence", "free"} : Script(<<Step(name)>>)
    BY plainScript, Kinds DEF Plain
  <1>2. \A turbo \in BOOLEAN : Script(set_turbo(turbo)) /\ Script(createThreads(turbo))
    BY <1>1, runningScript, ConcatScript DEF set_turbo, createThreads
  <1>3. Script(resume)
    BY runningScript DEF resume
  <1>4. Script(saveState) /\ Script(loadState)
    BY WithGbaScript DEF saveState, loadState
  <1>5. Script(closeEmulator) /\ Script(EmulatorStop)
    BY <1>1, stopScript, ConcatScript DEF closeEmulator, EmulatorStop
  <1>6. Script(EmulatorPause) /\ Script(EmulatorResume)
    BY <1>1, <1>3, pauseScript, ConcatScript DEF EmulatorPause, EmulatorResume
  <1>7. Script(pauseEmulation) /\ Script(resumeEmulation)
    BY <1>6, emptyScript DEF pauseEmulation, resumeEmulation, IfThread
  <1>8. QED
    BY <1>2, <1>3, <1>4, <1>5, <1>6, <1>7

-----------------------------------------------------------------------------
(* The scripts of the foreground store Running last. *)

ResumesAt(s, k) ==
  /\ \E turbo \in BOOLEAN : s[k] = Store(Running(turbo))
  /\ Settled(s, k + 1)
  /\ \A i \in 1..(k - 1) : CaughtBefore(s, i, k)

LEMMA ResumesSomewhere == \A s : Resumes(s) <=> \E k \in 1..Len(s) : ResumesAt(s, k)
  BY DEF Resumes, ResumesAt

\* A step of s that fails is caught in s.
Caught(s) == \A i \in 1..Len(s) : CaughtBefore(s, i, Len(s) + 1)

LEMMA CaughtScripts ==
  Caught(pauseEmulation) /\ Caught(native_get_framebuffer) /\ Caught(<<Step("catch")>>)
  <1> USE DEF Caught, CaughtBefore, Fallible
  <1>1. Caught(<<>>) /\ Caught(<<Step("catch")>>)
    <2>1. Step("catch") \notin Fallible
      BY Kinds
    <2>2. QED
      BY <2>1
  <1>2. Store("Pausing") \notin Fallible /\ Await("Paused") \notin Fallible
          /\ Step("silence") \notin Fallible /\ Step("read_frame") \notin Fallible
          /\ Store(Running(FALSE)) \notin Fallible
    BY Kinds
  <1> DEFINE a == Store("Pausing")
             b == Await("Paused")
             c == Step("silence")
             d == Step("read_frame")
             e == Store(Running(FALSE))
             s == <<a, b>> \o <<c>>
             r == (<<a, b>> \o <<d>>) \o <<e>>
  <1> USE DEF Fallible
  <1>3. a \notin Fallible /\ b \notin Fallible /\ c \notin Fallible /\ d \notin Fallible /\ e \notin Fallible
    BY <1>2
  <1>4. EmulatorPause = s /\ native_get_framebuffer = r
    BY DEF EmulatorPause, native_get_framebuffer, pause, resume
  <1> HIDE DEF a, b, c, d, e, Fallible
  <1>5. Len(s) = 3 /\ s[1] = a /\ s[2] = b /\ s[3] = c
    OBVIOUS
  <1>6. Len(r) = 4 /\ r[1] = a /\ r[2] = b /\ r[3] = d /\ r[4] = e
    OBVIOUS
  <1> HIDE DEF s, r
  <1>7. \A i \in 1..Len(s) : s[i] \notin Fallible
    BY <1>3, <1>5
  <1>8. \A i \in 1..Len(r) : r[i] \notin Fallible
    BY <1>3, <1>6
  <1>9. Caught(EmulatorPause)
    BY <1>4, <1>7
  <1>10. Caught(pauseEmulation)
    BY <1>1, <1>9 DEF pauseEmulation, IfThread
  <1>11. QED
    BY <1>1, <1>4, <1>8, <1>10

LEMMA ConcatCaught ==
  ASSUME NEW s \in Seq(Steps), NEW t \in Seq(Steps), Caught(t),
         Caught(s) \/ t = <<Step("catch")>>
  PROVE  Caught(s \o t)
  <1> DEFINE r == s \o t
             m == Len(s)
             n == Len(t)
  <1>1. /\ r \in Seq(Steps) /\ Len(r) = m + n /\ m \in Nat /\ n \in Nat
        /\ \A k \in 1..m : r[k] = s[k]
        /\ \A k \in (m + 1)..(m + n) : r[k] = t[k - m]
    BY ConcatElement
  <1> HIDE DEF r
  <1> SUFFICES ASSUME NEW i \in 1..(m + n), r[i] \in Fallible
               PROVE  \E c \in (i + 1)..(m + n) : r[c] = Step("catch")
    BY <1>1 DEF Caught, CaughtBefore, r
  <1>2. CASE i \in 1..m /\ Caught(s)
    <2>1. PICK c \in (i + 1)..m : s[c] = Step("catch")
      BY <1>1, <1>2 DEF Caught, CaughtBefore
    <2> HIDE DEF m, n
    <2>2. c \in 1..m /\ c \in (i + 1)..(m + n)
      BY <1>1, <1>2, <2>1
    <2>3. QED
      BY <1>1, <2>1, <2>2
  <1>3. CASE i \in 1..m /\ t = <<Step("catch")>>
    <2>1. n = 1 /\ t[1] = Step("catch")
      BY <1>3
    <2> HIDE DEF m, n
    <2>2. r[m + 1] = Step("catch")
      BY <1>1, <2>1
    <2>3. QED
      BY <1>1, <1>3, <2>1, <2>2
  <1>4. CASE i \in (m + 1)..(m + n)
    <2>1. i - m \in 1..n /\ t[i - m] \in Fallible
      BY <1>1, <1>4
    <2>2. PICK c \in ((i - m) + 1)..n : t[c] = Step("catch")
      BY <1>1, <2>1 DEF Caught, CaughtBefore
    <2> HIDE DEF m, n
    <2>3. m + c \in (m + 1)..(m + n) /\ (m + c) - m = c /\ m + c \in (i + 1)..(m + n)
      BY <1>1, <1>4, <2>2
    <2>4. QED
      BY <1>1, <2>2, <2>3
  <1>5. QED
    BY <1>1, <1>2, <1>3, <1>4

LEMMA ConcatResumes ==
  ASSUME NEW s \in Seq(Steps), NEW t \in Seq(Steps), Caught(s), Resumes(t)
  PROVE  Resumes(s \o t)
  <1> DEFINE r == s \o t
             m == Len(s)
             n == Len(t)
  <1>1. /\ r \in Seq(Steps) /\ Len(r) = m + n /\ m \in Nat /\ n \in Nat
        /\ \A k \in 1..m : r[k] = s[k]
        /\ \A k \in (m + 1)..(m + n) : r[k] = t[k - m]
    BY ConcatElement
  <1>2. PICK q \in 1..n : ResumesAt(t, q)
    BY ResumesSomewhere
  <1> DEFINE k == m + q
  <1> HIDE DEF r
  <1>3. k \in 1..(m + n) /\ k \in (m + 1)..(m + n) /\ k - m = q
    BY <1>1
  <1>4. \E turbo \in BOOLEAN : r[k] = Store(Running(turbo))
    BY <1>1, <1>2, <1>3 DEF ResumesAt
  <1>5. Settled(r, k + 1)
    <2> SUFFICES ASSUME NEW j \in (k + 1)..(m + n)
                 PROVE  r[j][1] \notin {"store", "test_stopped"} /\ r[j] \notin Fallible
      BY <1>1 DEF Settled
    <2>1. j \in (m + 1)..(m + n) /\ j - m \in (q + 1)..n
      BY <1>1
    <2>2. r[j] = t[j - m]
      BY <1>1, <2>1
    <2>3. Settled(t, q + 1)
      BY <1>2 DEF ResumesAt
    <2>4. QED
      BY <2>1, <2>2, <2>3 DEF Settled
  <1>6. ASSUME NEW i \in 1..(k - 1), r[i] \in Fallible
        PROVE  \E c \in (i + 1)..(k - 1) : r[c] = Step("catch")
    <2>1. CASE i \in 1..m
      <3>0. s[i] \in Fallible
        BY <1>1, <1>6, <2>1
      <3>1. PICK c \in (i + 1)..m : s[c] = Step("catch")
        BY <1>1, <2>1, <3>0 DEF Caught, CaughtBefore
      <3> HIDE DEF m, n
      <3>2. c \in 1..m /\ c \in (i + 1)..(k - 1)
        BY <1>1, <2>1, <3>1
      <3>3. QED
        BY <1>1, <3>1, <3>2
    <2>2. CASE i \in (m + 1)..(k - 1)
      <3> HIDE DEF m, n
      <3>1. i - m \in 1..(q - 1) /\ i \in (m + 1)..(m + n)
        BY <1>1, <2>2
      <3>2. PICK c \in ((i - m) + 1)..(q - 1) : t[c] = Step("catch")
        BY <1>1, <1>2, <1>6, <3>1 DEF ResumesAt, CaughtBefore
      <3>3. m + c \in (m + 1)..(m + n) /\ (m + c) - m = c /\ m + c \in (i + 1)..(k - 1)
        BY <1>1, <2>2, <3>2
      <3>4. QED
        BY <1>1, <3>2, <3>3
    <2>3. QED
      BY <1>1, <1>3, <2>1, <2>2
  <1>7. ResumesAt(r, k)
    BY <1>4, <1>5, <1>6 DEF ResumesAt, CaughtBefore
  <1>8. QED
    BY <1>1, <1>3, <1>7, ResumesSomewhere DEF r

-----------------------------------------------------------------------------
(* What a suffix keeps. *)

\* A set of numbers has a smallest.
LEMMA NatMin ==
  ASSUME NEW S, S \subseteq Nat, S # {}
  PROVE  Min(S) \in S /\ \A y \in S : Min(S) <= y
  <1>1. PICK x \in S : \A y \in S : ~ (<<y, x>> \in OpToRel(<, Nat))
    BY NatLessThanWellFounded, WFMin
  <1>2. ASSUME NEW y \in S PROVE x <= y
    <2>1. x \in Nat /\ y \in Nat /\ <<y, x>> \in Nat \X Nat /\ <<y, x>>[1] = y /\ <<y, x>>[2] = x
      OBVIOUS
    <2>2. y < x => <<y, x>> \in OpToRel(<, Nat)
      BY <2>1, Zenon DEF OpToRel
    <2>3. ~ (y < x)
      BY <1>1, <2>2, Zenon
    <2>4. QED
      BY <2>1, <2>3
  <1>3. QED
    BY <1>2 DEF Min

\* SelectInSeq finds the first handler of an error, when there is one.
LEMMA Handler ==
  ASSUME NEW S, NEW s \in Seq(S),
         NEW h, h = SelectInSeq(s, LAMBDA x : x = Step("catch"))
  PROVE  \/ h = 0 /\ \A c \in 1..Len(s) : s[c] # Step("catch")
         \/ /\ h \in 1..Len(s) /\ s[h] = Step("catch")
            /\ \A c \in 1..Len(s) : s[c] = Step("catch") => h <= c
  <1> DEFINE I == {i \in 1..Len(s) : s[i] = Step("catch")}
  <1>1. h = IF I # {} THEN Min(I) ELSE 0
    BY DEF SelectInSeq
  <1>2. I # {} => Min(I) \in I /\ \A c \in I : Min(I) <= c
    <2>1. I \subseteq Nat
      OBVIOUS
    <2> HIDE DEF I
    <2>2. QED
      BY <2>1, NatMin
  <1>3. QED
    BY <1>1, <1>2

LEMMA LeftWaits ==
  ASSUME NEW s \in Seq(Steps), NEW t, NEW d, Left(s, t, d), Waits(s)
  PROVE  Waits(t)
  <1>1. /\ t \in Seq(Steps) /\ d \in Nat /\ Len(s) = d + Len(t) /\ Len(t) \in Nat
        /\ \A k \in 1..Len(t) : t[k] = s[d + k]
    BY DEF Left
  <1> SUFFICES ASSUME NEW k \in 1..Len(t)
               PROVE  /\ t[k] = Store("Pausing") => k < Len(t) /\ t[k + 1] = Await("Paused")
                      /\ t[k] = Store("Stopping") => k < Len(t) /\ t[k + 1] = Await("Stopped")
                      /\ t[k] = Step("test_stopped") => k < Len(t) /\ t[k + 1] = Store("Stopping")
    BY DEF Waits
  <1> DEFINE q == d + k
  <1>2. q \in 1..Len(s) /\ t[k] = s[q] /\ (q < Len(s) <=> k < Len(t))
    BY <1>1
  <1>3. k < Len(t) => t[k + 1] = s[q + 1]
    <2>1. k < Len(t) => k + 1 \in 1..Len(t) /\ d + (k + 1) = q + 1
      BY <1>1
    <2> HIDE DEF q
    <2>2. QED
      BY <1>1, <2>1
  <1> HIDE DEF q
  <1>4. QED
    BY <1>2, <1>3 DEF Waits

\* A touch that is left was opened, or it is open now.
LEMMA LeftTouch ==
  ASSUME todo \in Seq(Steps), TouchInv, NEW d, Left(todo, todo', d),
         \A i \in 1..d : todo[i] = Await("Paused") /\ Quiet(todo, i + 1, d) => emustate' = "Paused",
         emustate = "Paused" /\ Quiet(todo, 1, d) => emustate' = "Paused"
  PROVE  TouchInv'
  <1>1. /\ todo' \in Seq(Steps) /\ d \in Nat /\ Len(todo) = d + Len(todo') /\ Len(todo') \in Nat
        /\ \A k \in 1..Len(todo') : todo'[k] = todo[d + k]
    BY DEF Left
  <1> SUFFICES ASSUME NEW k \in 1..Len(todo'), todo'[k] \in Touches
               PROVE  Opened(todo', k) \/ (emustate' = "Paused" /\ Quiet(todo', 1, k - 1))
    BY DEF TouchInv
  <1> DEFINE q == d + k
  <1>2. q \in 1..Len(todo) /\ todo[q] \in Touches
    BY <1>1
  <1>3. Opened(todo, q) \/ (emustate = "Paused" /\ Quiet(todo, 1, q - 1))
    BY <1>2 DEF TouchInv
  <1>4. ASSUME NEW i \in 1..k, Quiet(todo, d + i, q - 1)
        PROVE  Quiet(todo', i, k - 1)
    <2> SUFFICES ASSUME NEW j \in i..(k - 1)
                 PROVE  todo'[j][1] \notin {"store", "catch"}
      BY DEF Quiet
    <2>1. j \in 1..Len(todo') /\ d + j \in (d + i)..(q - 1)
      BY <1>1
    <2>2. todo'[j] = todo[d + j]
      BY <1>1, <2>1
    <2>3. QED
      BY <1>4, <2>1, <2>2 DEF Quiet
  <1>5. ASSUME NEW i \in 1..(q - 1), todo[i] = Await("Paused"), Quiet(todo, i + 1, q - 1)
        PROVE  Opened(todo', k) \/ (emustate' = "Paused" /\ Quiet(todo', 1, k - 1))
    <2>1. CASE i <= d
      <3>1. Quiet(todo, i + 1, d) /\ Quiet(todo, d + 1, q - 1)
        BY <1>1, <1>5, <2>1 DEF Quiet
      <3>2. emustate' = "Paused"
        BY <1>1, <1>5, <2>1, <3>1
      <3>3. Quiet(todo', 1, k - 1)
        BY <1>4, <3>1
      <3>4. QED
        BY <3>2, <3>3
    <2>2. CASE i > d
      <3> DEFINE p == i - d
      <3>1. p \in 1..(k - 1) /\ p \in 1..Len(todo') /\ d + p = i /\ p + 1 \in 1..k /\ d + (p + 1) = i + 1
        BY <1>1, <2>2
      <3> HIDE DEF p
      <3>2. todo'[p] = Await("Paused")
        BY <1>1, <1>5, <3>1
      <3>3. Quiet(todo', p + 1, k - 1)
        BY <1>4, <1>5, <3>1
      <3>4. QED
        BY <3>1, <3>2, <3>3 DEF Opened
    <2>3. QED
      BY <1>1, <2>1, <2>2
  <1>6. CASE emustate = "Paused" /\ Quiet(todo, 1, q - 1)
    <2>1. Quiet(todo, 1, d) /\ Quiet(todo, d + 1, q - 1)
      BY <1>1, <1>6 DEF Quiet
    <2>2. QED
      BY <1>4, <1>6, <2>1
  <1>7. QED
    BY <1>3, <1>5, <1>6 DEF Opened

LEMMA LeftSettled ==
  ASSUME NEW s \in Seq(Steps), NEW t, NEW d, Left(s, t, d),
         NEW k \in 0..d, Settled(s, k + 1)
  PROVE  Settled(t, 1)
  <1>1. /\ t \in Seq(Steps) /\ d \in Nat /\ Len(s) = d + Len(t) /\ Len(t) \in Nat
        /\ \A j \in 1..Len(t) : t[j] = s[d + j]
    BY DEF Left
  <1> SUFFICES ASSUME NEW j \in 1..Len(t)
               PROVE  t[j][1] \notin {"store", "test_stopped"} /\ t[j] \notin Fallible
    BY DEF Settled
  <1>2. d + j \in (k + 1)..Len(s) /\ t[j] = s[d + j]
    BY <1>1
  <1>3. QED
    BY <1>2 DEF Settled

LEMMA LeftResumes ==
  ASSUME NEW s \in Seq(Steps), NEW t, NEW d, Left(s, t, d),
         NEW k \in 1..Len(s), k > d, ResumesAt(s, k)
  PROVE  Resumes(t)
  <1>1. /\ t \in Seq(Steps) /\ d \in Nat /\ Len(s) = d + Len(t) /\ Len(t) \in Nat
        /\ \A j \in 1..Len(t) : t[j] = s[d + j]
    BY DEF Left
  <1> DEFINE q == k - d
  <1>2. q \in 1..Len(t) /\ d + q = k
    BY <1>1
  <1>3. \E turbo \in BOOLEAN : t[q] = Store(Running(turbo))
    BY <1>1, <1>2 DEF ResumesAt
  <1>4. Settled(t, q + 1)
    <2> SUFFICES ASSUME NEW j \in (q + 1)..Len(t)
                 PROVE  t[j][1] \notin {"store", "test_stopped"} /\ t[j] \notin Fallible
      BY DEF Settled
    <2>1. j \in 1..Len(t) /\ d + j \in (k + 1)..Len(s)
      BY <1>1, <1>2
    <2>2. t[j] = s[d + j]
      BY <1>1, <2>1
    <2>3. QED
      BY <2>1, <2>2 DEF Settled, ResumesAt
  <1>5. ASSUME NEW i \in 1..(q - 1), t[i] \in Fallible
        PROVE  \E c \in (i + 1)..(q - 1) : t[c] = Step("catch")
    <2> HIDE DEF q
    <2>1. i \in 1..Len(t) /\ d + i \in 1..(k - 1)
      BY <1>1, <1>2
    <2>2. s[d + i] \in Fallible
      BY <1>1, <1>5, <2>1
    <2>3. PICK c \in ((d + i) + 1)..(k - 1) : s[c] = Step("catch")
      BY <2>1, <2>2 DEF ResumesAt, CaughtBefore
    <2>4. c - d \in (i + 1)..(q - 1) /\ c - d \in 1..Len(t) /\ d + (c - d) = c
      BY <1>1, <1>2, <2>1, <2>3
    <2>5. QED
      BY <1>1, <2>3, <2>4
  <1>6. ResumesAt(t, q)
    BY <1>3, <1>4, <1>5 DEF ResumesAt, CaughtBefore
  <1>7. QED
    BY <1>2, <1>6, ResumesSomewhere

-----------------------------------------------------------------------------
(* The worker and its channel. *)

LEMMA WorkerStep ==
  ASSUME JTypeOK, WorkerInv, AudioWorker
  PROVE  WorkerInv'
  <1>1. audio = "receiving" /\ commands # <<>> /\ commands \in Seq({"RenderAudio", "Terminate"})
          /\ main' = main /\ consumer' = consumer /\ commands' = Tail(commands)
    BY DEF AudioWorker, RenderAudio, Terminate, JTypeOK
  <1> DEFINE n == Len(commands)
  <1>2. /\ n \in Nat /\ n >= 1 /\ Head(commands) = commands[1] /\ Len(commands') = n - 1
        /\ \A k \in 1..(n - 1) : commands'[k] = commands[k + 1]
        /\ commands' \in Seq({"RenderAudio", "Terminate"})
    BY <1>1
  <1>3. main \in {"reading", "pausing", "frame", "sending", "terminating", "joining"}
    BY <1>1 DEF WorkerInv, JTypeOK, MainPcs
  <1>4. CASE RenderAudio
    <2>1. audio' = audio /\ commands[1] = "RenderAudio"
      BY <1>2, <1>4 DEF RenderAudio
    <2>2. CASE main # "joining"
      <3>1. Rendering(n)
        BY <1>3, <2>2 DEF WorkerInv
      <3>2. Rendering(n)' <=> \A k \in 1..n' : commands'[k] = "RenderAudio"
        BY DEF Rendering
      <3>3. \A k \in 1..Len(commands') : commands'[k] = "RenderAudio"
        BY <1>2, <3>1 DEF Rendering
      <3>4. QED
        BY <1>1, <1>3, <2>1, <2>2, <3>3 DEF WorkerInv, Rendering
    <2>3. CASE main = "joining"
      <3>1. Rendering(n - 1) /\ commands[n] = "Terminate"
        BY <1>1, <2>3 DEF WorkerInv
      <3>2. n # 1
        BY <2>1, <3>1
      <3> HIDE DEF n
      <3>3. /\ \A k \in 1..(Len(commands') - 1) : commands'[k] = "RenderAudio"
            /\ commands'[Len(commands')] = "Terminate"
        BY <1>2, <3>1, <3>2 DEF Rendering
      <3>4. commands' # <<>>
        BY <1>2, <3>2
      <3>5. QED
        BY <1>1, <2>1, <2>3, <3>3, <3>4 DEF WorkerInv, Rendering
    <2>4. QED
      BY <2>2, <2>3
  <1>5. CASE Terminate
    <2>1. audio' = "ended" /\ commands[1] = "Terminate"
      BY <1>2, <1>5 DEF Terminate
    <2>2. main = "joining"
      BY <1>2, <1>3, <2>1 DEF WorkerInv, Rendering
    <2>3. Rendering(n - 1)
      BY <1>1, <2>2 DEF WorkerInv
    <2>4. n = 1
      BY <1>2, <2>1, <2>3 DEF Rendering
    <2>5. commands' = <<>>
      BY <1>2, <2>4
    <2>6. QED
      BY <1>1, <2>1, <2>2, <2>5 DEF WorkerInv
  <1>6. QED
    BY <1>4, <1>5 DEF AudioWorker

LEMMA EmulationWorker ==
  ASSUME JTypeOK, WorkerInv, Begin \/ Emulation
  PROVE  WorkerInv'
  <1> DEFINE n == Len(commands)
  <1>1. commands \in Seq({"RenderAudio", "Terminate"}) /\ n \in Nat
    BY DEF JTypeOK
  <1>2. CASE SendRenderAudio
    <2>1. audio = "receiving" /\ Rendering(n)
      BY <1>2 DEF SendRenderAudio, WorkerInv
    <2>2. /\ Len(commands') = n + 1 /\ \A k \in 1..n : commands'[k] = commands[k]
          /\ commands'[n + 1] = "RenderAudio"
      BY <1>1, <1>2 DEF SendRenderAudio
    <2> HIDE DEF n
    <2>3. \A k \in 1..Len(commands') : commands'[k] = "RenderAudio"
      BY <1>1, <2>1, <2>2 DEF Rendering
    <2>4. QED
      BY <1>2, <2>1, <2>3 DEF SendRenderAudio, WorkerInv, Rendering
  <1>3. CASE SendTerminate
    <2>1. audio = "receiving" /\ Rendering(n)
      BY <1>3 DEF SendTerminate, WorkerInv
    <2>2. /\ Len(commands') = n + 1 /\ \A k \in 1..n : commands'[k] = commands[k]
          /\ commands'[n + 1] = "Terminate" /\ commands' # <<>>
      BY <1>1, <1>3 DEF SendTerminate
    <2> HIDE DEF n
    <2>3. /\ \A k \in 1..(Len(commands') - 1) : commands'[k] = "RenderAudio"
          /\ commands'[Len(commands')] = "Terminate"
      BY <1>1, <2>1, <2>2 DEF Rendering
    <2>4. QED
      BY <1>3, <2>1, <2>2, <2>3 DEF SendTerminate, WorkerInv, Rendering
  <1>4. CASE SpawnAudio
    <2>1. \A k \in 1..Len(commands') : commands'[k] = "RenderAudio"
      BY <1>4 DEF SpawnAudio
    <2>2. QED
      BY <1>4, <2>1 DEF SpawnAudio, WorkerInv, Rendering
  <1>5. CASE JoinAudio
    BY <1>5 DEF JoinAudio, Joinable, WorkerInv
  <1>6. CASE Begin \/ StoreStopped
    BY <1>6 DEF Begin, StoreStopped, WorkerInv
  <1>7. CASE ReadState \/ StorePaused \/ Frame
    <2>1. /\ main \in {"reading", "pausing", "frame"}
          /\ main' \in {"reading", "pausing", "frame", "sending", "terminating"}
          /\ commands' = commands /\ audio' = audio
      BY <1>7 DEF ReadState, StorePaused, Frame
    <2>2. QED
      BY <2>1 DEF WorkerInv, Rendering
  <1>8. QED
    BY <1>2, <1>3, <1>4, <1>5, <1>6, <1>7 DEF Emulation

\* The calls leave the worker alone; the thread starts and is joined when it is clean.
LEMMA CallerWorker ==
  ASSUME WorkerInv, UNCHANGED <<audio, commands, consumer>>,
         main' = main \/ (main = "none" /\ main' = "starting") \/ (main = "returned" /\ main' = "none")
  PROVE  WorkerInv'
  BY DEF WorkerInv, Rendering

-----------------------------------------------------------------------------
(* The emulation thread and the worker. *)

Kept == <<todo, phase, hasThread, open, calls>>

LEMMA TodoKept ==
  ASSUME JInv, UNCHANGED Kept, emustate = "Paused" => emustate' = "Paused",
         IsRunning(emustate) => IsRunning(emustate')
  PROVE  Waits(todo)' /\ TouchInv' /\ ForegroundInv'
  <1>1. Waits(todo)' /\ ForegroundInv'
    BY DEF JInv, Kept, Waits, ForegroundInv, Resumes, Settled, CaughtBefore
  <1>2. TouchInv'
    BY DEF JInv, Kept, TouchInv, Opened, Quiet
  <1>3. QED
    BY <1>1, <1>2

LEMMA NotRunning ==
  /\ ~IsRunning("Pausing") /\ ~IsRunning("Paused") /\ ~IsRunning("Stopping") /\ ~IsRunning("Stopped")
  /\ \A turbo \in BOOLEAN : Running(turbo) \in {"Running", "RunningTurbo"} /\ IsRunning(Running(turbo))
  /\ \A s : IsRunning(s) => s \in EmulationState \ {"Initial", "Pausing", "Paused", "Stopping", "Stopped"}
  BY DEF IsRunning, Running, EmulationState

LEMMA EmulationType ==
  ASSUME JTypeOK, Begin \/ Emulation, UNCHANGED <<phase, hasThread, open, calls>>
  PROVE  JTypeOK'
  <1>1. commands' \in Seq({"RenderAudio", "Terminate"})
    <2>1. commands \in Seq({"RenderAudio", "Terminate"})
      BY DEF JTypeOK
    <2>2. commands' \in {commands, <<>>, Append(commands, "RenderAudio"), Append(commands, "Terminate")}
      BY DEF Begin, Emulation, SpawnAudio, ReadState, StorePaused, Frame, SendRenderAudio,
             SendTerminate, JoinAudio, StoreStopped
    <2>3. \A c \in {"RenderAudio", "Terminate"} : Append(commands, c) \in Seq({"RenderAudio", "Terminate"})
      BY <2>1
    <2>4. <<>> \in Seq({"RenderAudio", "Terminate"})
      OBVIOUS
    <2>5. QED
      BY <2>1, <2>2, <2>3, <2>4
  <1>2. emustate' \in EmulationState /\ main' \in MainPcs
    BY NotRunning
       DEF JTypeOK, Begin, Emulation, SpawnAudio, ReadState, StorePaused, Frame, SendRenderAudio,
           SendTerminate, JoinAudio, StoreStopped, EmulationState, MainPcs
  <1>3. /\ locked' = locked /\ early' = early /\ todo' = todo
        /\ audio' \in {"none", "receiving", "ended"} /\ consumer' \in BOOLEAN /\ playing' \in BOOLEAN
    BY DEF JTypeOK, Begin, Emulation, SpawnAudio, ReadState, StorePaused, Frame, SendRenderAudio,
           SendTerminate, JoinAudio, StoreStopped
  <1>4. QED
    BY <1>1, <1>2, <1>3 DEF JTypeOK

LEMMA EmulationState1 ==
  ASSUME JInv, Begin \/ Emulation, UNCHANGED <<phase, hasThread, open, calls>>
  PROVE  StateInv' /\ (emustate = "Paused" => emustate' = "Paused")
           /\ (IsRunning(emustate) => IsRunning(emustate'))
  <1>1. StateInv /\ todo' = todo
    BY DEF JInv, Begin, Emulation, SpawnAudio, ReadState, StorePaused, Frame, SendRenderAudio,
           SendTerminate, JoinAudio, StoreStopped
  <1> USE DEF StateInv, Goes, Next1
  <1>2. CASE Begin
    <2>1. emustate' \in {"Running", "RunningTurbo"} /\ IsRunning(emustate') /\ main' = "spawning"
            /\ main = "starting"
      BY <1>2, NotRunning DEF Begin
    <2>2. QED
      BY <1>1, <2>1
  <1>3. CASE ReadState
    BY <1>1, <1>3, NotRunning DEF ReadState
  <1>4. CASE StorePaused
    BY <1>1, <1>4, NotRunning DEF StorePaused
  <1>5. CASE StoreStopped
    BY <1>1, <1>5, NotRunning DEF StoreStopped
  <1>6. CASE SpawnAudio \/ Frame \/ SendRenderAudio
    BY <1>1, <1>6 DEF SpawnAudio, Frame, SendRenderAudio
  <1>7. CASE SendTerminate \/ JoinAudio
    BY <1>1, <1>7 DEF SendTerminate, JoinAudio
  <1>8. QED
    BY <1>2, <1>3, <1>4, <1>5, <1>6, <1>7 DEF Emulation

LEMMA EmulationStep ==
  ASSUME JInv, Begin \/ Emulation, UNCHANGED <<phase, hasThread, open, calls>>
  PROVE  JInv'
  <1>1. todo' = todo
    BY DEF Begin, Emulation, SpawnAudio, ReadState, StorePaused, Frame, SendRenderAudio,
           SendTerminate, JoinAudio, StoreStopped
  <1>2. JTypeOK' /\ WorkerInv'
    BY EmulationType, EmulationWorker DEF JInv
  <1>3. StateInv' /\ (emustate = "Paused" => emustate' = "Paused")
           /\ (IsRunning(emustate) => IsRunning(emustate'))
    BY EmulationState1
  <1>4. Waits(todo)' /\ TouchInv' /\ ForegroundInv'
    BY <1>1, <1>3, TodoKept DEF Kept
  <1>5. QED
    BY <1>2, <1>3, <1>4 DEF JInv

LEMMA AudioStep ==
  ASSUME JInv, AudioWorker, UNCHANGED <<phase, hasThread, open, calls>>
  PROVE  JInv'
  <1>1. /\ UNCHANGED <<emustate, locked, main, consumer, playing, todo, early>>
        /\ commands # <<>> /\ commands' = Tail(commands) /\ audio' \in {audio, "ended"}
    BY DEF AudioWorker, RenderAudio, Terminate
  <1>2. JTypeOK'
    BY <1>1 DEF JInv, JTypeOK
  <1>3. WorkerInv'
    BY WorkerStep DEF JInv
  <1>4. StateInv'
    BY <1>1 DEF JInv, StateInv, Goes, Next1
  <1>5. Waits(todo)' /\ TouchInv' /\ ForegroundInv'
    BY <1>1, TodoKept DEF Kept
  <1>6. QED
    BY <1>2, <1>3, <1>4, <1>5 DEF JInv

-----------------------------------------------------------------------------
(* The calls. *)

LEMMA Heads ==
  ASSUME JTypeOK, Goes
  PROVE  Left(todo, Tail(todo), 1) /\ Next1 = todo[1] /\ todo[1] \in Steps /\ 1 \in 1..Len(todo)
  <1>1. todo \in Seq(Steps) /\ todo # <<>>
    BY DEF JTypeOK, Goes
  <1>2. QED
    BY <1>1, TailLeft DEF Next1

\* Steps that are done without a store, an answer that is not there, or an error.
LEMMA Dropped ==
  ASSUME JInv, UNCHANGED <<emustate, phase, hasThread>>, NEW d, Left(todo, todo', d),
         emustate \notin {"Pausing", "Stopping"},
         \A i \in 1..d : todo[i] = Await("Paused") /\ Quiet(todo, i + 1, d) => emustate = "Paused",
         \A i \in 1..d, turbo \in BOOLEAN : todo[i] # Store(Running(turbo)),
         main' = main \/ (main = "none" /\ main' = "starting") \/ (main = "returned" /\ main' = "none")
  PROVE  Waits(todo)' /\ StateInv' /\ TouchInv' /\ ForegroundInv'
  <1>1. /\ todo \in Seq(Steps) /\ Waits(todo) /\ StateInv /\ TouchInv /\ ForegroundInv
        /\ d \in Nat /\ todo' \in Seq(Steps)
    BY DEF JInv, JTypeOK, Left
  <1>2. Waits(todo)'
    <2>1. Waits(todo')
      BY <1>1, LeftWaits
    <2>2. QED
      BY <2>1 DEF Waits
  <1>3. StateInv'
    BY <1>1 DEF StateInv
  <1>4. TouchInv'
    BY <1>1, LeftTouch
  <1>5. ASSUME phase = "resumed"
        PROVE  Resumes(todo') \/ (IsRunning(emustate) /\ Settled(todo', 1))
    <2>1. CASE Resumes(todo)
      <3>1. PICK k \in 1..Len(todo) : ResumesAt(todo, k)
        BY <2>1, ResumesSomewhere
      <3>2. k > d
        BY <1>1, <3>1 DEF ResumesAt
      <3>3. QED
        BY <1>1, <3>1, <3>2, LeftResumes
    <2>2. CASE IsRunning(emustate) /\ Settled(todo, 1)
      <3>1. 0 \in 0..d /\ Settled(todo, 0 + 1)
        BY <1>1, <2>2
      <3>2. QED
        BY <1>1, <2>2, <3>1, LeftSettled
    <2>3. QED
      BY <1>1, <1>5, <2>1, <2>2 DEF ForegroundInv
  <1>6. ForegroundInv'
    BY <1>1, <1>5 DEF ForegroundInv, Resumes, Settled, CaughtBefore
  <1>7. QED
    BY <1>2, <1>3, <1>4, <1>6

LEMMA StoreStep ==
  ASSUME JInv, StoreState, UNCHANGED <<phase, hasThread, open, calls>>
  PROVE  JInv'
  <1>1. /\ JTypeOK /\ Waits(todo) /\ WorkerInv /\ StateInv /\ TouchInv /\ ForegroundInv
        /\ todo \in Seq(Steps)
    BY DEF JInv, JTypeOK
  <1>2. /\ Goes /\ Next1[1] = "store" /\ emustate' = Next1[2] /\ todo' = Tail(todo)
        /\ UNCHANGED <<locked, main, audio, commands, consumer, playing>>
    BY DEF StoreState, Done
  <1>3. /\ Left(todo, todo', 1) /\ Next1 = todo[1] /\ todo[1] \in Steps /\ 1 \in 1..Len(todo)
        /\ todo' \in Seq(Steps) /\ Len(todo) = 1 + Len(todo') /\ Len(todo') \in Nat
        /\ \A k \in 1..Len(todo') : todo'[k] = todo[1 + k]
    BY <1>1, <1>2, Heads DEF Left
  <1>4. PICK s \in Stored : todo[1] = Store(s)
    <2>1. todo[1][1] = "store"
      BY <1>2, <1>3
    <2>2. \A p \in Touches \cup Plain : p[1] # "store"
      BY Kinds DEF Touches, Plain
    <2>3. Await("Paused")[1] # "store" /\ Await("Stopped")[1] # "store"
      BY Kinds
    <2>4. QED
      BY <1>3, <2>1, <2>2, <2>3 DEF Steps
  <1>5. emustate' = s
    BY <1>2, <1>3, <1>4, Kinds
  <1>6. Stored \subseteq EmulationState \ {"Paused", "Stopped"}
    BY NotRunning DEF Stored, EmulationState
  <1>7. JTypeOK'
    <2>1. early' \in BOOLEAN
      BY DEF JInv, JTypeOK, StoreState
    <2>2. QED
      BY <1>1, <1>2, <1>3, <1>5, <1>6, <2>1 DEF JTypeOK
  <1>8. WorkerInv'
    BY <1>1, <1>2, CallerWorker
  <1>9. StateInv'
    <2>1. Next1 # Await("Paused") /\ Next1 # Await("Stopped")
      BY <1>3, <1>4, Kinds
    <2>2. main \notin {"pausing", "terminating", "joining", "cleaning"}
      BY <1>1, <2>1 DEF StateInv
    <2>3. ASSUME NEW a, todo[2] = Await(a), 1 < Len(todo)
          PROVE  (Goes /\ Next1 = Await(a))'
      <3>1. todo' # <<>> /\ 1 \in 1..Len(todo')
        BY <1>3, <2>3
      <3>2. Head(todo') = todo'[1]
        BY <1>3, <3>1
      <3>3. QED
        BY <1>3, <2>3, <3>1, <3>2 DEF Goes, Next1
    <2>4. s = "Pausing" => (Goes /\ Next1 = Await("Paused"))'
      <3>1. s = "Pausing" => 1 < Len(todo) /\ todo[1 + 1] = Await("Paused")
        BY <1>1, <1>3, <1>4 DEF Waits
      <3>2. QED
        BY <2>3, <3>1
    <2>5. s = "Stopping" => (Goes /\ Next1 = Await("Stopped"))'
      <3>1. s = "Stopping" => 1 < Len(todo) /\ todo[1 + 1] = Await("Stopped")
        BY <1>1, <1>3, <1>4 DEF Waits
      <3>2. QED
        BY <2>3, <3>1
    <2>6. QED
      BY <1>2, <1>5, <1>6, <2>2, <2>4, <2>5 DEF StateInv
  <1>10. Waits(todo)'
    <2>1. Waits(todo')
      BY <1>1, <1>3, LeftWaits
    <2>2. QED
      BY <2>1 DEF Waits
  <1>11. TouchInv'
    <2>1. todo[1] # Await("Paused") /\ ~Quiet(todo, 1, 1)
      BY <1>2, <1>3, <1>4, Kinds DEF Quiet
    <2>2. \A i \in 1..1 : todo[i] = Await("Paused") /\ Quiet(todo, i + 1, 1) => emustate' = "Paused"
      BY <2>1
    <2>3. QED
      BY <1>1, <1>3, <2>1, <2>2, LeftTouch
  <1>12. ASSUME phase = "resumed"
         PROVE  Resumes(todo') \/ (IsRunning(emustate') /\ Settled(todo', 1))
    <2>1. ~Settled(todo, 1)
      BY <1>2, <1>3 DEF Settled
    <2>2. PICK k \in 1..Len(todo) : ResumesAt(todo, k)
      BY <1>1, <1>12, <2>1, ResumesSomewhere DEF ForegroundInv
    <2>3. CASE k > 1
      BY <1>1, <1>3, <2>2, <2>3, LeftResumes
    <2>4. CASE k = 1
      <3>1. PICK turbo \in BOOLEAN : todo[1] = Store(Running(turbo))
        BY <2>2, <2>4 DEF ResumesAt
      <3>2. s = Running(turbo)
        BY <1>4, <3>1, Kinds
      <3>3. IsRunning(emustate')
        BY <1>5, <3>2, NotRunning
      <3>4. 1 \in 0..1 /\ Settled(todo, 1 + 1)
        BY <2>2, <2>4 DEF ResumesAt
      <3>5. QED
        BY <1>1, <1>3, <3>3, <3>4, LeftSettled
    <2>5. QED
      BY <1>3, <2>3, <2>4
  <1>13. ForegroundInv'
    BY <1>1, <1>12 DEF ForegroundInv, Resumes, Settled, CaughtBefore
  <1>14. QED
    BY <1>7, <1>8, <1>9, <1>10, <1>11, <1>13 DEF JInv

LEMMA FailStep ==
  ASSUME JInv, FailGba, UNCHANGED <<phase, hasThread, open, calls>>
  PROVE  JInv'
  <1> DEFINE h == SelectInSeq(todo, LAMBDA s : s = Step("catch"))
  <1>1. /\ JTypeOK /\ Waits(todo) /\ WorkerInv /\ StateInv /\ TouchInv /\ ForegroundInv
        /\ todo \in Seq(Steps)
    BY DEF JInv, JTypeOK
  <1>2. /\ Goes /\ Next1 \in Fallible /\ locked' = FALSE
        /\ todo' = IF h = 0 THEN <<>> ELSE SubSeq(todo, h + 1, Len(todo))
        /\ UNCHANGED <<emustate, main, audio, commands, consumer, playing, early>>
    BY Kinds DEF FailGba, Does, Touches, Fallible
  <1>3. Next1 = todo[1] /\ 1 \in 1..Len(todo) /\ Len(todo) \in Nat
    BY <1>1, <1>2, Heads
  <1>4. \/ h = 0 /\ \A c \in 1..Len(todo) : todo[c] # Step("catch")
        \/ /\ h \in 1..Len(todo) /\ todo[h] = Step("catch")
           /\ \A c \in 1..Len(todo) : todo[c] = Step("catch") => h <= c
    BY <1>1, Handler
  <1> HIDE DEF h
  <1> DEFINE d == IF h = 0 THEN Len(todo) ELSE h
  <1>5. Left(todo, todo', d)
    <2>1. CASE h = 0
      <3>1. todo' = <<>> /\ d = Len(todo)
        BY <1>2, <2>1
      <3>2. QED
        BY <1>3, <3>1 DEF Left
    <2>2. CASE h # 0
      <3>1. h \in 0..Len(todo) /\ todo' = SubSeq(todo, h + 1, Len(todo)) /\ d = h
        BY <1>2, <1>4, <2>2
      <3>2. QED
        BY <1>1, <3>1, SubSeqLeft
    <2>3. QED
      BY <2>1, <2>2
  <1> HIDE DEF d
  <1>6. todo' \in Seq(Steps) /\ d \in Nat /\ (todo' = <<>> \/ (d = h /\ todo[h] = Step("catch") /\ h \in 1..Len(todo)))
    BY <1>2, <1>4, <1>5 DEF Left, d
  <1>7. JTypeOK'
    BY <1>1, <1>2, <1>6 DEF JTypeOK
  <1>8. WorkerInv'
    BY <1>1, <1>2, CallerWorker
  <1>9. StateInv'
    <2>1. Next1 # Await("Paused") /\ Next1 # Await("Stopped")
      BY <1>2, Kinds DEF Fallible
    <2>2. QED
      BY <1>1, <1>2, <2>1 DEF StateInv
  <1>10. Waits(todo)'
    <2>1. Waits(todo')
      BY <1>1, <1>5, LeftWaits
    <2>2. QED
      BY <2>1 DEF Waits
  <1>11. TouchInv'
    <2>1. CASE todo' = <<>>
      <3>1. Len(todo') = 0
        BY <2>1
      <3>2. QED
        BY <3>1 DEF TouchInv
    <2>2. CASE d = h /\ todo[h] = Step("catch") /\ h \in 1..Len(todo)
      <3>1. todo[d] # Await("Paused") /\ todo[d][1] = "catch"
        BY <2>2, Kinds
      <3>2. \A i \in 1..d : ~(todo[i] = Await("Paused") /\ Quiet(todo, i + 1, d))
        BY <1>6, <3>1 DEF Quiet
      <3>3. QED
        BY <1>1, <1>2, <1>5, <3>2, LeftTouch
    <2>3. QED
      BY <1>6, <2>1, <2>2
  <1>12. ASSUME phase = "resumed"
         PROVE  Resumes(todo')
    <2>1. ~Settled(todo, 1)
      BY <1>2, <1>3 DEF Settled
    <2>2. PICK k \in 1..Len(todo) : ResumesAt(todo, k)
      BY <1>1, <1>12, <2>1, ResumesSomewhere DEF ForegroundInv
    <2>3. k # 1
      <3>1. \A s : Store(s) \notin Fallible
        BY Kinds DEF Fallible
      <3>2. QED
        BY <1>2, <1>3, <2>2, <3>1 DEF ResumesAt
    <2>4. PICK c \in 2..(k - 1) : todo[c] = Step("catch")
      BY <1>2, <1>3, <2>2, <2>3 DEF ResumesAt, CaughtBefore
    <2>5. h # 0 /\ h <= c
      BY <1>3, <1>4, <2>2, <2>4
    <2>6. d = h
      BY <2>5 DEF d
    <2>7. k > d
      BY <1>3, <1>4, <2>2, <2>4, <2>5, <2>6
    <2>8. QED
      BY <1>1, <1>5, <2>2, <2>7, LeftResumes
  <1>13. ForegroundInv'
    BY <1>1, <1>12 DEF ForegroundInv, Resumes, Settled, CaughtBefore
  <1>14. QED
    BY <1>7, <1>8, <1>9, <1>10, <1>11, <1>13 DEF JInv

LEMMA DoneStep ==
  ASSUME JInv, UNCHANGED <<phase, hasThread, open, calls>>,
         AwaitState \/ (\E b \in BOOLEAN : SetLock(b)) \/ UseGba \/ PlayOrPause \/ StartThread
           \/ JoinThread \/ PassStep
  PROVE  JInv'
  <1>1. JTypeOK /\ WorkerInv /\ StateInv /\ todo \in Seq(Steps)
    BY DEF JInv, JTypeOK
  <1>2. /\ Goes /\ todo' = Tail(todo)
        /\ UNCHANGED <<emustate, audio, commands, consumer, early>>
        /\ main' = main \/ (main = "none" /\ main' = "starting") \/ (main = "returned" /\ main' = "none")
        /\ locked' \in BOOLEAN \cup {locked} /\ playing' \in BOOLEAN \cup {playing}
    BY DEF AwaitState, SetLock, UseGba, PlayOrPause, StartThread, JoinThread, PassStep, Done, Does
  <1>3. /\ Left(todo, todo', 1) /\ Next1 = todo[1] /\ todo' \in Seq(Steps) /\ 1 \in 1..Len(todo)
    BY <1>1, <1>2, Heads DEF Left
  <1>4. \/ Next1[1] = "await" /\ emustate = Next1[2]
        \/ Next1 \in Touches \cup Plain
    BY DEF AwaitState, SetLock, UseGba, PlayOrPause, StartThread, JoinThread, PassStep, Does, Plain
  <1>5. /\ \A s : Next1 # Store(s)
        /\ \A s : Next1 = Await(s) => emustate = s
    BY <1>4, Kinds DEF Touches, Plain
  <1>6. emustate \notin {"Pausing", "Stopping"}
    BY <1>1, <1>5 DEF StateInv
  <1>7. Waits(todo)' /\ StateInv' /\ TouchInv' /\ ForegroundInv'
    <2>1. \A i \in 1..1 : todo[i] = Await("Paused") /\ Quiet(todo, i + 1, 1) => emustate = "Paused"
      BY <1>3, <1>5
    <2>2. \A i \in 1..1, turbo \in BOOLEAN : todo[i] # Store(Running(turbo))
      BY <1>3, <1>5
    <2>3. QED
      BY <1>2, <1>3, <1>6, <2>1, <2>2, Dropped
  <1>8. JTypeOK'
    BY <1>1, <1>2, <1>3 DEF JTypeOK, MainPcs
  <1>9. WorkerInv'
    BY <1>1, <1>2, CallerWorker
  <1>10. QED
    BY <1>7, <1>8, <1>9 DEF JInv

LEMMA TestStep ==
  ASSUME JInv, TestStopped, UNCHANGED <<phase, hasThread, open, calls>>
  PROVE  JInv'
  <1>1. JTypeOK /\ WorkerInv /\ StateInv /\ todo \in Seq(Steps) /\ Waits(todo)
    BY DEF JInv, JTypeOK
  <1>2. /\ Goes /\ Next1 = Step("test_stopped") /\ todo' \in {Tail(todo), Tail(Tail(todo))}
        /\ UNCHANGED <<emustate, locked, main, audio, commands, consumer, playing, early>>
    BY DEF TestStopped, Does
  <1>3. Left(todo, Tail(todo), 1) /\ todo[1] = Step("test_stopped") /\ 1 \in 1..Len(todo)
    BY <1>1, <1>2, Heads
  <1>4. Len(todo) >= 2 /\ todo[2] = Store("Stopping")
    BY <1>1, <1>3 DEF Waits
  <1>5. PICK d \in 1..2 : Left(todo, todo', d)
    <2>1. Left(todo, Tail(Tail(todo)), 2)
      BY <1>1, <1>4, TailTailLeft
    <2>2. CASE todo' = Tail(todo)
      BY <1>3, <2>2
    <2>3. CASE todo' = Tail(Tail(todo))
      BY <2>1, <2>3
    <2>4. QED
      BY <1>2, <2>2, <2>3
  <1>6. emustate \notin {"Pausing", "Stopping"}
    BY <1>1, <1>2, Kinds DEF StateInv
  <1>7. \A i \in 1..d : todo[i] # Await("Paused") /\ \A turbo \in BOOLEAN : todo[i] # Store(Running(turbo))
    <2>1. \A turbo \in BOOLEAN : Running(turbo) # "Stopping"
      BY NotRunning
    <2>2. todo[1] # Await("Paused") /\ \A turbo \in BOOLEAN : todo[1] # Store(Running(turbo))
      BY <1>3, Kinds
    <2>3. todo[2] # Await("Paused") /\ \A turbo \in BOOLEAN : todo[2] # Store(Running(turbo))
      BY <1>4, <2>1, Kinds
    <2>4. QED
      BY <1>5, <2>2, <2>3
  <1>8. Waits(todo)' /\ StateInv' /\ TouchInv' /\ ForegroundInv'
    BY <1>2, <1>5, <1>6, <1>7, Dropped
  <1>9. JTypeOK'
    BY <1>1, <1>2, <1>5 DEF JTypeOK, Left
  <1>10. WorkerInv'
    BY <1>1, <1>2, CallerWorker
  <1>11. QED
    BY <1>8, <1>9, <1>10 DEF JInv

-----------------------------------------------------------------------------
(* The callbacks of the activity. *)

LEMMA ResumeScripts ==
  /\ \A turbo \in BOOLEAN : Resumes(set_turbo(turbo))
  /\ Resumes(EmulatorResume) /\ Resumes(EmulatorResume \o <<Step("play")>>)
  <1> DEFINE p == Step("play")
             r == Store(Running(FALSE))
             s == <<r>> \o <<p>>
             t == (<<r>> \o <<p>>) \o <<p>>
  <1>1. \A turbo \in BOOLEAN : Resumes(set_turbo(turbo))
    <2> TAKE turbo \in BOOLEAN
    <2> DEFINE u == <<Store(Running(turbo))>>
    <2>1. Len(u) = 1 /\ u[1] = Store(Running(turbo))
      OBVIOUS
    <2> HIDE DEF u
    <2>2. ResumesAt(u, 1)
      BY <2>1 DEF ResumesAt, Settled
    <2>3. Resumes(u)
      BY <2>1, <2>2, ResumesSomewhere
    <2>4. QED
      BY <2>3 DEF u, set_turbo
  <1>2. EmulatorResume = s /\ EmulatorResume \o <<Step("play")>> = t
    BY DEF EmulatorResume, resume
  <1>3. p[1] \notin {"store", "test_stopped"} /\ p \notin Fallible
    BY Kinds DEF Fallible
  <1>4. \E turbo \in BOOLEAN : r = Store(Running(turbo))
    OBVIOUS
  <1> HIDE DEF p, r
  <1>5. Len(s) = 2 /\ s[1] = r /\ s[2] = p /\ Len(t) = 3 /\ t[1] = r /\ t[2] = p /\ t[3] = p
    OBVIOUS
  <1> HIDE DEF s, t
  <1>6. Settled(s, 2) /\ Settled(t, 2)
    BY <1>3, <1>5 DEF Settled
  <1>7. ResumesAt(s, 1) /\ ResumesAt(t, 1)
    BY <1>4, <1>5, <1>6 DEF ResumesAt
  <1>8. Resumes(s) /\ Resumes(t)
    BY <1>5, <1>7, ResumesSomewhere
  <1>9. QED
    BY <1>1, <1>2, <1>8

\* A callback starts on an empty script.
LEMMA CallbackStep ==
  ASSUME JInv, NEW from, NEW to \in Phases, NEW steps, Callback(from, to, steps), Script(steps),
         hasThread' \in BOOLEAN, open' \in BOOLEAN,
         to \in {"created", "resumed", "paused"} => hasThread',
         to = "resumed" => Resumes(steps)
  PROVE  JInv'
  <1>1. /\ JTypeOK /\ WorkerInv /\ StateInv
        /\ todo = <<>> /\ calls < MaxCalls /\ calls' = calls + 1 /\ phase' = to /\ todo' = steps
        /\ UNCHANGED <<emustate, locked, main, audio, commands, consumer, playing, early>>
    BY DEF JInv, Callback
  <1>2. steps \in Seq(Steps) /\ Waits(steps) /\ Opens(steps)
    BY DEF Script
  <1>3. calls' \in 0..MaxCalls
    BY <1>1, ActivityAssumption DEF JTypeOK
  <1>4. JTypeOK'
    BY <1>1, <1>2, <1>3 DEF JTypeOK
  <1>5. WorkerInv'
    BY <1>1, CallerWorker
  <1>6. StateInv'
    BY <1>1 DEF StateInv, Goes
  <1>7. Waits(todo)'
    BY <1>1, <1>2 DEF Waits
  <1>8. TouchInv'
    BY <1>1, <1>2 DEF TouchInv, Opens, Opened, Quiet
  <1>9. ForegroundInv'
    BY <1>1 DEF ForegroundInv, Resumes, Settled, CaughtBefore
  <1>10. QED
    BY <1>4, <1>5, <1>6, <1>7, <1>8, <1>9 DEF JInv

LEMMA UserStep ==
  ASSUME JInv, UserInterface
  PROVE  JInv'
  <1>1. hasThread \in BOOLEAN /\ open \in BOOLEAN
          /\ (phase \in {"created", "resumed", "paused"} => hasThread)
    BY DEF JInv, JTypeOK, ForegroundInv
  <1>2. {"created", "resumed", "paused", "destroyed"} \subseteq Phases
    BY DEF Phases
  <1>3. \A name \in {"play", "join", "catch"} : Script(<<Step(name)>>)
    BY plainScript, Kinds DEF Plain
  <1>4. \A s, t : Script(s) /\ Script(t) => Script(s \o t)
    BY ConcatScript
  <1>5. CASE \E checked, restored \in BOOLEAN : onCreate(checked, restored)
    <2>1. PICK checked, restored \in BOOLEAN : onCreate(checked, restored)
      BY <1>5
    <2> DEFINE steps == createThreads(checked) \o (IF restored THEN set_turbo(FALSE) ELSE <<>>)
    <2>2. Script(steps)
      BY <1>4, EmulatorScripts, emptyScript
    <2>3. Callback({"launched"}, "created", steps) /\ hasThread' = TRUE /\ open' = TRUE
      BY <2>1 DEF onCreate
    <2> HIDE DEF steps
    <2>4. QED
      BY <1>2, <2>2, <2>3, CallbackStep
  <1>6. CASE onResume
    <2> DEFINE steps == resumeEmulation \o <<Step("play")>>
    <2>1. Callback({"created", "paused"}, "resumed", steps) /\ UNCHANGED <<hasThread, open>>
      BY <1>6 DEF onResume
    <2>2. Script(steps)
      BY <1>3, <1>4, EmulatorScripts
    <2>3. hasThread
      BY <1>1, <2>1 DEF Callback
    <2>4. Resumes(steps)
      BY <2>3, ResumeScripts DEF resumeEmulation, IfThread
    <2> HIDE DEF steps
    <2>5. QED
      BY <1>1, <1>2, <2>1, <2>2, <2>3, <2>4, CallbackStep
  <1>7. CASE onPause
    <2>1. Callback({"resumed"}, "paused", pauseEmulation) /\ UNCHANGED <<hasThread, open>>
      BY <1>7 DEF onPause
    <2>2. hasThread
      BY <1>1, <2>1 DEF Callback
    <2>3. QED
      BY <1>1, <1>2, <2>1, <2>2, EmulatorScripts, CallbackStep
  <1>8. CASE onSaveInstanceState
    <2> DEFINE steps == IF isEmulatorRunning THEN saveState ELSE <<>>
    <2>1. Callback({"paused"}, "paused", steps) /\ UNCHANGED <<hasThread, open>>
      BY <1>8 DEF onSaveInstanceState, Stays
    <2>2. Script(steps)
      BY EmulatorScripts, emptyScript
    <2>3. hasThread
      BY <1>1, <2>1 DEF Callback
    <2> HIDE DEF steps
    <2>4. QED
      BY <1>1, <1>2, <2>1, <2>2, <2>3, CallbackStep
  <1>9. CASE onActivityResult
    <2> DEFINE steps == pauseEmulation \o loadState \o <<Step("catch")>> \o resumeEmulation
    <2>1. Callback({"paused"}, "paused", steps) /\ UNCHANGED <<hasThread, open>>
      BY <1>9 DEF onActivityResult, Stays
    <2>2. Script(steps)
      BY <1>3, <1>4, EmulatorScripts
    <2>3. hasThread
      BY <1>1, <2>1 DEF Callback
    <2> HIDE DEF steps
    <2>4. QED
      BY <1>1, <1>2, <2>1, <2>2, <2>3, CallbackStep
  <1>10. CASE \E checked \in BOOLEAN : onClickTurbo(checked)
    <2>1. PICK checked \in BOOLEAN : onClickTurbo(checked)
      BY <1>10
    <2>2. Callback({"resumed"}, "resumed", set_turbo(checked)) /\ UNCHANGED <<hasThread, open>>
      BY <2>1 DEF onClickTurbo, Stays
    <2>3. hasThread
      BY <1>1, <2>2 DEF Callback
    <2>4. Script(set_turbo(checked)) /\ Resumes(set_turbo(checked))
      BY EmulatorScripts, ResumeScripts
    <2>5. QED
      BY <1>1, <1>2, <2>2, <2>3, <2>4, CallbackStep
  <1>11. pauseEmulation \in Seq(Steps) /\ native_get_framebuffer \in Seq(Steps)
           /\ saveState \in Seq(Steps) /\ resumeEmulation \in Seq(Steps)
           /\ <<Step("catch")>> \in Seq(Steps) /\ \A s, t : s \in Seq(Steps) /\ t \in Seq(Steps) => s \o t \in Seq(Steps)
    BY <1>3, EmulatorScripts, framebufferScript, ConcatElement DEF Script
  <1>12. phase = "resumed" => Resumes(resumeEmulation)
    BY <1>1, ResumeScripts DEF resumeEmulation, IfThread
  <1>13. CASE doSaveScreenshotToLibrary
    <2> DEFINE first == pauseEmulation \o native_get_framebuffer
               steps == first \o resumeEmulation
    <2>1. Callback({"resumed"}, "resumed", steps) /\ UNCHANGED <<hasThread, open>>
      BY <1>13 DEF doSaveScreenshotToLibrary, Stays
    <2>2. Script(steps)
      BY <1>4, EmulatorScripts, framebufferScript
    <2>3. hasThread /\ phase = "resumed"
      BY <1>1, <2>1 DEF Callback
    <2>4. first \in Seq(Steps) /\ Caught(first)
      BY <1>11, CaughtScripts, ConcatCaught
    <2> HIDE DEF first
    <2>5. Resumes(steps)
      BY <1>11, <1>12, <2>3, <2>4, ConcatResumes
    <2> HIDE DEF steps
    <2>6. QED
      BY <1>1, <1>2, <2>1, <2>2, <2>3, <2>5, CallbackStep
  <1>14. CASE doSaveSnapshot
    <2> DEFINE inner == pauseEmulation \o saveState \o native_get_framebuffer
               first == inner \o <<Step("catch")>>
               steps == first \o resumeEmulation
    <2>1. Callback({"resumed"}, "resumed", steps) /\ UNCHANGED <<hasThread, open>>
      BY <1>14 DEF doSaveSnapshot, Stays
    <2>2. Script(steps)
      BY <1>3, <1>4, EmulatorScripts, framebufferScript
    <2>3. hasThread /\ phase = "resumed"
      BY <1>1, <2>1 DEF Callback
    <2>4. inner \in Seq(Steps)
      BY <1>11
    <2> HIDE DEF inner
    <2>5. first \in Seq(Steps) /\ Caught(first)
      BY <1>11, <2>4, CaughtScripts, ConcatCaught
    <2> HIDE DEF first
    <2>6. Resumes(steps)
      BY <1>11, <1>12, <2>3, <2>5, ConcatResumes
    <2> HIDE DEF steps
    <2>7. QED
      BY <1>1, <1>2, <2>1, <2>2, <2>3, <2>6, CallbackStep
  <1>15. CASE \E screenshot \in BOOLEAN : onDestroy(screenshot)
    <2>1. PICK screenshot \in BOOLEAN : onDestroy(screenshot)
      BY <1>15
    <2> DEFINE picture == IF screenshot THEN native_get_framebuffer ELSE <<>>
               ending == IfThread(EmulatorStop \o <<Step("join")>>)
               steps == pauseEmulation \o picture \o ending
    <2>2. Callback({"paused"}, "destroyed", steps) /\ hasThread' = FALSE /\ UNCHANGED open
      BY <2>1 DEF onDestroy
    <2>3. Script(picture) /\ Script(ending)
      BY <1>3, <1>4, EmulatorScripts, framebufferScript, emptyScript DEF IfThread
    <2> HIDE DEF picture, ending
    <2>4. Script(steps)
      BY <1>4, <2>3, EmulatorScripts
    <2> HIDE DEF steps
    <2>5. QED
      BY <1>1, <1>2, <2>2, <2>4, CallbackStep
  <1>16. CASE finalize
    <2>1. Callback({"destroyed"}, "destroyed", closeEmulator) /\ open' = FALSE /\ UNCHANGED hasThread
      BY <1>16 DEF finalize
    <2>2. QED
      BY <1>1, <1>2, <2>1, EmulatorScripts, CallbackStep
  <1>17. QED
    BY <1>5, <1>6, <1>7, <1>8, <1>9, <1>10, <1>13, <1>14, <1>15, <1>16 DEF UserInterface

-----------------------------------------------------------------------------
LEMMA JniInit == Init => JInv
  <1> SUFFICES ASSUME Init PROVE JInv
    OBVIOUS
  <1> USE DEF Init, native_open_context
  <1>1. JTypeOK
    <2>1. commands \in Seq({"RenderAudio", "Terminate"}) /\ todo \in Seq(Steps)
      OBVIOUS
    <2>2. calls \in 0..MaxCalls
      BY ActivityAssumption
    <2>3. emustate \in EmulationState /\ main \in MainPcs /\ phase \in Phases
      BY DEF EmulationState, MainPcs, Phases
    <2>4. QED
      BY <2>1, <2>2, <2>3 DEF JTypeOK
  <1>2. Waits(todo) /\ TouchInv /\ Len(todo) = 0
    BY DEF Waits, TouchInv
  <1>3. WorkerInv /\ StateInv /\ ForegroundInv
    BY DEF WorkerInv, StateInv, ForegroundInv
  <1>4. QED
    BY <1>1, <1>2, <1>3 DEF JInv

LEMMA JniStutter == JInv /\ UNCHANGED avars => JInv'
  <1> SUFFICES ASSUME JInv, UNCHANGED avars PROVE JInv'
    OBVIOUS
  <1>1. UNCHANGED jniVars /\ UNCHANGED Kept
    BY DEF avars, jniVars, activityVars, Kept
  <1>2. JTypeOK' /\ WorkerInv' /\ StateInv'
    BY <1>1 DEF JInv, jniVars, Kept, JTypeOK, WorkerInv, StateInv, Rendering, Goes, Next1
  <1>3. Waits(todo)' /\ TouchInv' /\ ForegroundInv'
    BY <1>1, TodoKept DEF jniVars
  <1>4. QED
    BY <1>2, <1>3 DEF JInv

LEMMA JniNext == JInv /\ [Next]_avars => JInv'
  <1> SUFFICES ASSUME JInv, [Next]_avars PROVE JInv'
    OBVIOUS
  <1>1. CASE UserInterface
    BY <1>1, UserStep
  <1>2. CASE (Caller \/ Begin \/ Emulation \/ AudioWorker) /\ UNCHANGED activityVars
    <2>1. UNCHANGED <<phase, hasThread, open, calls>>
      BY <1>2 DEF activityVars
    <2>2. CASE Begin \/ Emulation
      BY <2>1, <2>2, EmulationStep
    <2>3. CASE AudioWorker
      BY <2>1, <2>3, AudioStep
    <2>4. CASE Caller
      BY <2>1, <2>4, StoreStep, FailStep, TestStep, DoneStep DEF Caller
    <2>5. QED
      BY <1>2, <2>2, <2>3, <2>4
  <1>3. QED
    BY <1>1, <1>2, JniStutter DEF Next

LEMMA JniInvariant == Spec => []JInv
  BY JniInit, JniNext, PTL DEF Spec

\* Every variable of the front end stays in its range: a state the code can name, a
\* position of each thread that it has, a rest of the calls that are written.
THEOREM JniTypeCorrect == Spec => []JTypeOK
  <1>1. JInv => JTypeOK
    BY DEF JInv
  <1>2. QED
    BY <1>1, JniInvariant, PTL

\* While the user interface saves, loads or copies a frame, the emulation thread is not
\* inside the console, its main loop's run() or the clean-up: the answer Paused that the
\* call waited for still stands, though nothing but emustate keeps the two apart.
THEOREM JniGbaExclusive == Spec => []GbaExclusive
  <1>1. JInv => GbaExclusive
    <2> SUFFICES ASSUME JInv, Goes, Next1 \in Touches
                 PROVE  main \notin {"frame", "pausing", "terminating"}
      BY DEF GbaExclusive
    <2>1. Next1 = todo[1] /\ 1 \in 1..Len(todo)
      BY Heads DEF JInv
    <2>2. emustate = "Paused"
      BY <2>1 DEF JInv, TouchInv, Opened
    <2>3. main = "reading"
      BY <2>2 DEF JInv, StateInv
    <2>4. QED
      BY <2>3
  <1>2. QED
    BY <1>1, JniInvariant, PTL

\* Whoever reads Stopped finds the audio worker ended, its channel empty and the ring
\* buffer back in the context, whatever was in the channel when the stop was asked for.
THEOREM JniStoppedIsClean == Spec => []StoppedIsClean
  <1>1. JInv => StoppedIsClean
    BY DEF JInv, StateInv, WorkerInv, StoppedIsClean
  <1>2. QED
    BY <1>1, JniInvariant, PTL

\* Between the calls of the foreground the emulation runs: no callback leaves it paused,
\* not even one whose save failed halfway.
THEOREM JniForegroundRuns == Spec => []ForegroundRuns
  <1>1. JInv => ForegroundRuns
    <2> SUFFICES ASSUME JInv, phase = "resumed", todo = <<>>
                 PROVE  IsRunning(emustate)
      BY DEF ForegroundRuns
    <2>1. Len(todo) = 0
      OBVIOUS
    <2>2. ~Resumes(todo)
      BY <2>1 DEF Resumes
    <2>3. QED
      BY <2>2 DEF JInv, ForegroundInv
  <1>2. QED
    BY <1>1, JniInvariant, PTL
=============================================================================
