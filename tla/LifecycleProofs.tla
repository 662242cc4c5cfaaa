--------------------------- MODULE LifecycleProofs ---------------------------
(***************************************************************************)
(* Nothing of an earlier session runs on but what was aborted, for every   *)
(* set of endpoints, any number of sessions, edits and signals, and        *)
(* however many tasks block, and for how long.                             *)
(***************************************************************************)
EXTENDS Lifecycle, TLAPS

\* Ports belong to sessions that there were.
OwnersOK == owner \in [Endpoint -> 0 .. session]

\* A session that is served has been started, and one that is torn down is cancelled.
SessionOK ==
  /\ run \notin {"loading", "exited"} => session > 0
  /\ run = "teardown" => Tasks(session) \subseteq cancelled

\* Between two sessions, too, nothing runs on but what was aborted.
NothingLeft ==
  \A t \in Supervised :
    t[1] < session \/ run \in {"loading", "exited"} => phase[t] = "stopped" \/ t \in aborted

\* TypeOK in three parts: flags, the loop's other variables, and the tasks'.
Flags ==
  /\ reload \in BOOLEAN
  /\ hup \in BOOLEAN /\ term \in BOOLEAN /\ ctrl_c \in BOOLEAN /\ told \in BOOLEAN

LoopTypes ==
  /\ run \in {"loading", "select", "checking", "validating", "teardown", "exited"}
  /\ session \in Nat
  /\ disk \in Seq(Version)
  /\ serving \in 0 .. Len(disk) /\ candidate \in 0 .. Len(disk)
  /\ asked \in 0 .. Len(disk) /\ examined \in 0 .. Len(disk)

TaskTypes ==
  /\ phase \in [Supervised -> Phase]
  /\ cancelled \in SUBSET Supervised /\ aborted \in SUBSET cancelled
  /\ stuck \in SUBSET {t \in Supervised : phase[t] = "running"}
  /\ \A e \in Endpoint : owner[e] # 0 => phase[<<owner[e], e>>] = "running"

IInv == LoopTypes /\ TaskTypes /\ OwnersOK /\ SessionOK /\ NothingLeft

LEMMA TypeParts == TypeOK <=> Flags /\ LoopTypes /\ TaskTypes
BY DEF TypeOK, Flags, LoopTypes, TaskTypes

\* The flags, for every step.
LEMMA FlagsKept ==
  ASSUME Flags, [Next]_vars PROVE Flags'
BY DEF Flags, Next, RunLoop, Edit, Hup, Term, CtrlC, StartSession, NewSession, Exit, TakeShutdown, TearDown, TakeHup,
       ReadConfig, Reject, Accept, Leave, AllEnded, TimedOut, TaskStep, Stall, Unstall,
       loop, signals, tasks, history, vars

-----------------------------------------------------------------------------
(* The supervised tasks as a set of pairs.                                 *)

LEMMA SupervisedGrows ==
  ASSUME session \in Nat
  PROVE  /\ (1 .. (session + 1)) \X Endpoint = Supervised \cup Tasks(session + 1)
         /\ \A t \in Tasks(session + 1) : t \notin Supervised
         /\ \A t \in Supervised : t[1] \in 1 .. session /\ t[2] \in Endpoint /\ t = <<t[1], t[2]>>
         /\ \A t \in Supervised : t[1] < session \/ t \in Tasks(session)
         /\ session > 0 => Tasks(session) \subseteq Supervised
BY DEF Supervised, Tasks

\* What the steps of the loop do not touch.
LEMMA TasksUntouched ==
  ASSUME UNCHANGED <<session, phase, owner, stuck>>
  PROVE  /\ UNCHANGED <<Supervised, OwnersOK, Tasks(session)>>
         /\ UNCHANGED <<cancelled, aborted>> => UNCHANGED TaskTypes
BY DEF Supervised, OwnersOK, TaskTypes, Tasks

LEMMA InitIInv == Init => IInv
<1> SUFFICES ASSUME Init PROVE IInv
  OBVIOUS
<1>1. LoopTypes
  <2>1. PICK v \in Version : disk = <<v>>
    BY DEF Init
  <2>2. disk \in Seq(Version) /\ Len(disk) = 1
    BY <2>1
  <2> QED
    BY <2>2 DEF Init, LoopTypes
<1>2. Supervised = {}
  BY DEF Init, Supervised
<1>3. TaskTypes /\ NothingLeft
  BY <1>2 DEF Init, TaskTypes, NothingLeft
<1>4. OwnersOK /\ SessionOK
  BY DEF Init, OwnersOK, SessionOK
<1> QED
  BY <1>1, <1>3, <1>4 DEF IInv

-----------------------------------------------------------------------------
(* The environment, and the loop.                                          *)

LEMMA EnvironmentKeeps ==
  ASSUME IInv, Edit \/ Hup \/ Term \/ CtrlC PROVE IInv'
<1>1. UNCHANGED <<loop, tasks>>
  BY DEF Edit, Hup, Term, CtrlC
<1>2. LoopTypes /\ TaskTypes
  BY DEF IInv
<1>3. LoopTypes'
  <2>1. CASE Edit
    <3>1. PICK v \in Version : disk' = Append(disk, v)
      BY <2>1 DEF Edit
    <3>2. disk' \in Seq(Version) /\ Len(disk') = Len(disk) + 1 /\ Len(disk) \in Nat
      BY <3>1, <1>2 DEF LoopTypes
    <3> QED
      BY <2>1, <3>2, <1>2, <1>1 DEF Edit, LoopTypes, loop, signals, history
  <2>2. CASE Hup \/ Term \/ CtrlC
    BY <2>2, <1>1, <1>2 DEF Hup, Term, CtrlC, LoopTypes, loop, signals, history
  <2> QED
    BY <2>1, <2>2
<1>4. TaskTypes' /\ OwnersOK'
  BY <1>1, <1>2, TasksUntouched DEF loop, tasks, IInv
<1>5. SessionOK' /\ NothingLeft'
  BY <1>1 DEF IInv, SessionOK, NothingLeft, loop, tasks, Supervised, Tasks
<1> QED
  BY <1>3, <1>4, <1>5 DEF IInv

LEMMA StartSessionKeeps ==
  ASSUME IInv, StartSession PROVE IInv'
<1> DEFINE v == IF candidate = 0 THEN Len(disk) ELSE candidate
<1>0. LoopTypes /\ TaskTypes
  BY DEF IInv
<1>1. v \in 0 .. Len(disk) /\ session \in Nat
  BY <1>0 DEF LoopTypes
<1>2. CASE disk[v] = "valid"
  <2>1. /\ run = "loading" /\ run' = "select" /\ session' = session + 1 /\ serving' = v
        /\ examined' = v /\ reload' = FALSE /\ candidate' = 0
        /\ phase' = [t \in DOMAIN phase \cup Tasks(session + 1) |->
                       IF t \in DOMAIN phase THEN phase[t] ELSE "running"]
        /\ UNCHANGED <<cancelled, disk, signals, owner, aborted, stuck, stalls, asked, told>>
    BY <1>2 DEF StartSession, NewSession
  <2>2. Supervised' = Supervised \cup Tasks(session + 1) /\ DOMAIN phase = Supervised
    BY <1>0, <1>1, <2>1, SupervisedGrows DEF TaskTypes, Supervised
  <2>3. /\ phase' \in [Supervised' -> Phase]
        /\ \A t \in Supervised : phase'[t] = phase[t]
    BY <2>1, <2>2, <1>0 DEF TaskTypes, Phase
  <2>4. OwnersOK' /\ SessionOK'
    BY <2>1, <1>1 DEF IInv, OwnersOK, SessionOK
  <2>5. \A e \in Endpoint : owner[e] # 0 => <<owner[e], e>> \in Supervised
    BY <1>1 DEF IInv, OwnersOK, Supervised
  <2>6. LoopTypes'
    BY <2>1, <1>0, <1>1 DEF LoopTypes, signals
  <2>7. TaskTypes'
    BY <2>1, <2>2, <2>3, <2>5, <1>0 DEF TaskTypes
  <2>8. NothingLeft'
    BY <2>1, <2>2, <2>3, <1>1 DEF IInv, NothingLeft, Tasks
  <2> QED
    BY <2>4, <2>6, <2>7, <2>8 DEF IInv
<1>3. CASE disk[v] # "valid"
  <2>1. /\ run = "loading" /\ run' = "exited" /\ examined' = v
        /\ UNCHANGED <<session, serving, reload, candidate, phase, cancelled, disk, signals,
                       owner, aborted, stuck, stalls, asked, told>>
    BY <1>3 DEF StartSession, Exit
  <2>2. LoopTypes'
    BY <2>1, <1>0, <1>1 DEF LoopTypes, signals
  <2>3. TaskTypes' /\ OwnersOK'
    BY <2>1, <1>0, TasksUntouched DEF IInv
  <2>4. SessionOK' /\ NothingLeft'
    BY <2>1 DEF IInv, SessionOK, NothingLeft, Supervised
  <2> QED
    BY <2>2, <2>3, <2>4 DEF IInv
<1> QED
  BY <1>2, <1>3

\* The steps of a reload that keep the session.
LEMMA ReloadKeeps ==
  ASSUME IInv, TakeHup \/ ReadConfig \/ Reject PROVE IInv'
<1>1. /\ UNCHANGED <<session, serving, reload, cancelled, disk, phase, owner, aborted, stuck>>
      /\ run \in {"select", "checking", "validating"}
      /\ run' \in {"select", "checking", "validating"}
  BY DEF TakeHup, ReadConfig, Reject, tasks
<1>2. LoopTypes /\ TaskTypes
  BY DEF IInv
<1>3. LoopTypes'
  BY <1>1, <1>2 DEF LoopTypes, TakeHup, ReadConfig, Reject, history, signals
<1>4. TaskTypes' /\ OwnersOK'
  BY <1>1, <1>2, TasksUntouched DEF IInv
<1>5. SessionOK' /\ NothingLeft'
  BY <1>1 DEF IInv, SessionOK, NothingLeft, Supervised
<1> QED
  BY <1>3, <1>4, <1>5 DEF IInv

\* The token of the session is cancelled.
LEMMA TearDownKeeps ==
  ASSUME IInv, TakeShutdown \/ Accept PROVE IInv'
<1>1. /\ run \in {"select", "validating"} /\ run' = "teardown" /\ reload' \in BOOLEAN
      /\ cancelled' = cancelled \cup Tasks(session)
      /\ UNCHANGED <<session, serving, candidate, disk, hup, tasks, asked, examined>>
      /\ term' \in {FALSE, term} /\ ctrl_c' \in {FALSE, ctrl_c} /\ told' \in {TRUE, told}
  BY DEF TakeShutdown, Accept, TearDown, signals
<1>2. LoopTypes /\ TaskTypes
  BY DEF IInv
<1>3. LoopTypes'
  BY <1>1, <1>2 DEF LoopTypes
<1>4. Supervised' = Supervised /\ session > 0 /\ Tasks(session) \subseteq Supervised
  BY <1>1, <1>2, SupervisedGrows DEF IInv, SessionOK, Supervised, LoopTypes
<1>5. TaskTypes'
  BY <1>1, <1>2, <1>4 DEF TaskTypes, tasks
<1>6. OwnersOK' /\ SessionOK' /\ NothingLeft'
  BY <1>1, <1>4 DEF IInv, OwnersOK, SessionOK, NothingLeft, tasks, Tasks
<1> QED
  BY <1>3, <1>5, <1>6 DEF IInv

\* The session is left, and with it only what was aborted.
LEMMA LeaveKeeps ==
  ASSUME IInv, AllEnded \/ TimedOut PROVE IInv'
<1>1. /\ run = "teardown" /\ run' \in {"loading", "exited"}
      /\ UNCHANGED <<session, serving, reload, candidate, cancelled, disk, signals,
                     phase, owner, stuck, stalls, history>>
  BY DEF AllEnded, TimedOut, Leave
<1>2. LoopTypes /\ TaskTypes
  BY DEF IInv
<1>3. LoopTypes'
  BY <1>1, <1>2 DEF LoopTypes, signals, history
<1>4. Supervised' = Supervised /\ OwnersOK' /\ SessionOK'
  BY <1>1 DEF IInv, OwnersOK, SessionOK, Supervised
<1>5. /\ aborted' \subseteq cancelled /\ aborted \subseteq aborted'
      /\ \A t \in Tasks(session) : phase[t] = "stopped" \/ t \in aborted'
  BY <1>1, <1>2 DEF AllEnded, TimedOut, SessionOver, TaskTypes, IInv, SessionOK
<1>6. TaskTypes'
  BY <1>1, <1>2, <1>4, <1>5 DEF TaskTypes
<1>7. NothingLeft'
  BY <1>1, <1>2, <1>4, <1>5, SupervisedGrows DEF IInv, NothingLeft, LoopTypes
<1> QED
  BY <1>3, <1>4, <1>6, <1>7 DEF IInv

-----------------------------------------------------------------------------
(* The tasks.                                                              *)

\* What the steps of a task do to the ports: the task of the port that changes hands
\* is the one that moves, and a port is only held by a task that runs.
LEMMA TaskStepKeeps ==
  ASSUME IInv, NEW t \in Supervised, TaskStep(t) PROVE IInv'
<1>1. /\ t \notin stuck
      /\ UNCHANGED <<run, session, serving, reload, candidate, cancelled, disk, signals,
                     aborted, stuck, stalls, history>>
  BY DEF TaskStep, loop
<1>2. /\ t = <<t[1], t[2]>> /\ t[1] \in 1 .. session /\ t[2] \in Endpoint
      /\ session \in Nat /\ phase \in [Supervised -> Phase] /\ Supervised' = Supervised
      /\ \A e \in Endpoint : owner[e] \in 0 .. session
      /\ \A e \in Endpoint : owner[e] # 0 => phase[<<owner[e], e>>] = "running"
      /\ \A e \in Endpoint : owner[e] # 0 => <<owner[e], e>> \in Supervised
      /\ owner \in [Endpoint -> 0 .. session]
  BY <1>1, SupervisedGrows DEF IInv, LoopTypes, TaskTypes, OwnersOK, Supervised
<1>3. /\ \/ phase' = phase
         \/ phase[t] # "stopped" /\ \E to \in Phase : Move(t, to)
      /\ owner' \in [Endpoint -> 0 .. session]
      /\ \A e \in Endpoint : owner'[e] # 0 => phase'[<<owner'[e], e>>] = "running"
  <2>1. CASE Open(t)
    BY <2>1, <1>2 DEF Open
  <2>2. CASE OpenFails(t)
    BY <2>2, <1>2 DEF OpenFails, TaskEnds, Move, Phase
  <2>3. CASE Ends(t) \/ Drop(t) \/ DieAborted(t)
    <3>1. /\ phase[t] # "stopped" /\ \E to \in Phase : Move(t, to)
          /\ owner' = [owner EXCEPT ![t[2]] = IF @ = t[1] THEN 0 ELSE @]
      BY <2>3, <1>2 DEF Ends, Drop, DieAborted, TaskEnds, DropTask, Move, Release, Phase
    <3>2. \A e \in Endpoint : owner'[e] # 0 => owner'[e] = owner[e] /\ <<owner[e], e>> # t
      BY <3>1, <1>2
    <3>3. \A x \in Supervised : x # t => phase'[x] = phase[x]
      BY <3>1, <1>2 DEF Move
    <3>4. owner' \in [Endpoint -> 0 .. session]
      BY <3>1, <1>2
    <3>5. \A e \in Endpoint : owner'[e] # 0 => phase'[<<owner'[e], e>>] = "running"
      BY <3>2, <3>3, <1>2
    <3> QED
      BY <3>1, <3>4, <3>5
  <2>4. CASE Backoff(t)
    BY <2>4, <1>2 DEF Backoff, BackoffEnds, WakeUp, StopWaiting, Move, Phase
  <2> QED
    BY <2>1, <2>2, <2>3, <2>4 DEF TaskStep
<1>4. /\ phase' \in [Supervised -> Phase]
      /\ \A x \in Supervised : x # t \/ phase[x] = "stopped" => phase'[x] = phase[x]
  BY <1>2, <1>3 DEF Move
<1>5. TaskTypes' /\ OwnersOK'
  BY <1>1, <1>2, <1>3, <1>4 DEF IInv, TaskTypes, OwnersOK
<1>6. LoopTypes' /\ SessionOK'
  BY <1>1 DEF IInv, LoopTypes, SessionOK, Tasks, history
<1>7. NothingLeft'
  BY <1>1, <1>2, <1>4 DEF IInv, NothingLeft
<1> QED
  BY <1>5, <1>6, <1>7 DEF IInv

LEMMA BlockingKeeps ==
  ASSUME IInv, NEW t \in Supervised, Stall(t) \/ Unstall(t) PROVE IInv'
<1>1. /\ UNCHANGED <<run, session, serving, candidate, cancelled, disk, phase, owner, aborted,
                     history>>
      /\ \A x \in stuck' : x \in stuck \/ (x = t /\ phase[t] = "running")
  BY DEF Stall, Unstall, loop
<1> QED
  BY <1>1 DEF IInv, LoopTypes, TaskTypes, OwnersOK, SessionOK, NothingLeft, Supervised, Tasks,
              history

-----------------------------------------------------------------------------

LEMMA NextIInv == IInv /\ [Next]_vars => IInv'
<1> SUFFICES ASSUME IInv, [Next]_vars PROVE IInv'
  OBVIOUS
<1>1. CASE RunLoop
  BY <1>1, StartSessionKeeps, ReloadKeeps, TearDownKeeps, LeaveKeeps DEF RunLoop
<1>2. ASSUME NEW t \in DOMAIN phase, TaskStep(t) \/ Stall(t) \/ Unstall(t) PROVE IInv'
  <2>1. t \in Supervised
    BY DEF IInv, TaskTypes
  <2> QED
    BY <1>2, <2>1, TaskStepKeeps, BlockingKeeps
<1>3. CASE UNCHANGED vars
  BY <1>3 DEF vars, loop, tasks, history, IInv, LoopTypes, TaskTypes, OwnersOK, SessionOK,
              NothingLeft, Supervised, Tasks
<1> QED
  BY <1>1, <1>2, <1>3, EnvironmentKeeps DEF Next

LEMMA Invariance == Spec => [](Flags /\ IInv)
<1>1. Init => Flags /\ IInv
  BY InitIInv DEF Init, Flags
<1>2. Flags /\ IInv /\ [Next]_vars => (Flags /\ IInv)'
  BY FlagsKept, NextIInv
<1> QED
  BY <1>1, <1>2, PTL DEF Spec

\* The loop, the tasks and the ports stay in their types: a port is held by a task that
\* runs, only a cancelled session's tasks are aborted, a blocked task is one that runs
\* (run_loop.rs, supervisor.rs).
THEOREM TypeCorrect == Spec => []TypeOK
<1>1. Flags /\ IInv => TypeOK
  BY TypeParts DEF IInv
<1> QED
  BY <1>1, Invariance, PTL

\* Whatever signals, edits and blocked tasks there are: once a session is left, its tasks
\* have stopped or have been aborted (run_loop.rs, teardown of a session).
THEOREM OnlyAbortedLeft == Spec => []EarlierSessionsOver
<1>1. IInv => EarlierSessionsOver
  BY DEF IInv, NothingLeft, EarlierSessionsOver
<1> QED
  BY <1>1, Invariance, PTL
=============================================================================
