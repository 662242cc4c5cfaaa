------------------------------ MODULE Lifecycle -----------------------------
(***************************************************************************)
(* run_with_signals (run_loop.rs): one session of endpoints after another. *)
(* SIGHUP makes it read the configuration and, if that is valid, replace   *)
(* the session; SIGTERM and Ctrl-C end it.  In both cases the session's    *)
(* token is cancelled, its tasks are awaited for five seconds, and those   *)
(* that are still there are aborted and left behind.  Every endpoint runs  *)
(* under its supervisor and needs a port, which a task that was left       *)
(* behind may still hold.                                                  *)
(***************************************************************************)
EXTENDS Supervisor, Integers, Sequences

CONSTANTS
  Endpoint,     \* the endpoints, in every valid configuration, by their ports
  MaxVersion,   \* bound: versions of the configuration on disk
  MaxSession,   \* bound: no SIGHUP is sent from that session on
  MaxStalls     \* bound: how often a task blocks inside a poll

ASSUME LifecycleAssumption ==
  /\ MaxVersion \in Nat \ {0} /\ MaxSession \in Nat /\ MaxStalls \in Nat

VARIABLES
  run,         \* where run_with_signals is
  session,     \* the sessions started so far; the last one is the current one
  serving,     \* the version it was started with
  reload,      \* another session follows when this one is torn down
  candidate,   \* the version that was read for the next session, or 0
  disk,        \* versions of the configuration written so far: the last counts
  hup, term, ctrl_c,   \* signals that wait to be received
  owner,       \* [endpoint -> the session that holds its port, or 0]
  aborted,     \* supervised tasks whose handle was aborted
  stuck,       \* supervised tasks that block inside a poll
  stalls,      \* how often that has happened
  asked,       \* history: the version on disk at the last SIGHUP, or 0
  examined,    \* history: the version that was read last
  told         \* history: a shutdown signal was received

signals == <<hup, term, ctrl_c>>
tasks   == <<phase, owner, aborted, stuck, stalls>>
history == <<asked, examined, told>>
loop    == <<run, session, serving, reload, candidate, cancelled>>
vars    == <<loop, disk, signals, tasks, history>>

Version == {"valid", "invalid", "empty"}

Tasks(s) == {s} \X Endpoint
SessionOver == \A t \in Tasks(session) : phase[t] = "stopped"

-----------------------------------------------------------------------------

Init ==
  /\ run = "loading" /\ session = 0 /\ serving = 0
  /\ reload = FALSE /\ candidate = 0
  /\ disk \in {<<v>> : v \in Version}
  /\ hup = FALSE /\ term = FALSE /\ ctrl_c = FALSE
  /\ phase = [t \in {} |-> "stopped"] /\ cancelled = {}
  /\ owner = [e \in Endpoint |-> 0]
  /\ aborted = {} /\ stuck = {} /\ stalls = 0
  /\ asked = 0 /\ examined = 0 /\ told = FALSE

-----------------------------------------------------------------------------
(* The environment.  SIGHUP and SIGTERM have handlers from the start and   *)
(* are kept, though not counted; every recv() listens for Ctrl-C anew.     *)

Edit ==
  /\ Len(disk) < MaxVersion
  /\ \E v \in Version : disk' = Append(disk, v)
  /\ UNCHANGED <<loop, signals, tasks, history>>

Hup ==
  /\ session < MaxSession /\ run # "exited"
  /\ hup' = TRUE /\ asked' = Len(disk)
  /\ UNCHANGED <<loop, disk, term, ctrl_c, tasks, examined, told>>

Term ==
  /\ run # "exited"
  /\ term' = TRUE
  /\ UNCHANGED <<loop, disk, hup, ctrl_c, tasks, history>>

CtrlC ==
  /\ run = "select"
  /\ ctrl_c' = TRUE
  /\ UNCHANGED <<loop, disk, hup, term, tasks, history>>

-----------------------------------------------------------------------------
(* The loop.                                                               *)

Exit == run' = "exited" /\ UNCHANGED <<session, serving, reload, candidate>>

NewSession(v) ==
  /\ run' = "select" /\ session' = session + 1 /\ serving' = v
  /\ reload' = FALSE /\ candidate' = 0
  /\ phase' = [t \in DOMAIN phase \cup Tasks(session + 1) |->
                 IF t \in DOMAIN phase THEN phase[t] ELSE "running"]

\* Mutant of StartSession: the signal is registered anew in every session.
StartDeaf ==
  LET v == IF candidate = 0 THEN Len(disk) ELSE candidate
  IN /\ run = "loading"
     /\ examined' = v
     /\ IF disk[v] = "valid" THEN NewSession(v) ELSE Exit /\ UNCHANGED phase
     /\ hup' = FALSE
     /\ UNCHANGED <<cancelled, disk, term, ctrl_c, owner, aborted, stuck, stalls, asked, told>>

\* The first configuration is read here and must be valid.  One without endpoints
\* ends the program, the first time and later.
StartSession ==
  LET v == IF candidate = 0 THEN Len(disk) ELSE candidate
  IN /\ run = "loading"
     /\ examined' = v
     /\ IF disk[v] = "valid" THEN NewSession(v) ELSE Exit /\ UNCHANGED phase
     /\ UNCHANGED <<cancelled, disk, signals, owner, aborted, stuck, stalls, asked, told>>

\* Mutant of TearDown: the token is not cancelled.
TearDownUncancelled(again) ==
  /\ run' = "teardown" /\ reload' = again
  /\ UNCHANGED <<session, serving, cancelled, disk, tasks, asked, examined>>

\* The select.  (Its third branch, all tasks having ended, is not taken: the
\* supervisors and the updater end on cancellation only.)
TearDown(again) ==
  /\ run' = "teardown" /\ reload' = again
  /\ cancelled' = cancelled \cup Tasks(session)
  /\ UNCHANGED <<session, serving, disk, tasks, asked, examined>>

TakeShutdown ==
  /\ run = "select"
  /\ term \/ ctrl_c
  /\ term' = FALSE /\ ctrl_c' = FALSE /\ told' = TRUE
  /\ TearDown(FALSE)
  /\ UNCHANGED <<candidate, hup>>

\* The select drops the other recv(), and with it a Ctrl-C.
TakeHup ==
  /\ run = "select" /\ hup
  /\ hup' = FALSE /\ ctrl_c' = FALSE
  /\ run' = "checking"
  /\ UNCHANGED <<session, serving, reload, candidate, cancelled, disk, term, tasks, history>>

\* load_merged, which is awaited: the files are read, and then parsed and validated.
ReadConfig ==
  /\ run = "checking" /\ run' = "validating"
  /\ candidate' = Len(disk) /\ examined' = Len(disk)
  /\ UNCHANGED <<session, serving, reload, cancelled, disk, signals, tasks, asked, told>>

Reject ==
  /\ run = "validating" /\ disk[candidate] = "invalid"
  /\ run' = "select" /\ candidate' = 0
  /\ UNCHANGED <<session, serving, reload, cancelled, disk, signals, tasks, history>>

Accept ==
  /\ run = "validating" /\ disk[candidate] # "invalid"
  /\ TearDown(TRUE)
  /\ UNCHANGED <<candidate, signals, told>>

Leave ==
  /\ run' = IF reload THEN "loading" ELSE "exited"
  /\ UNCHANGED <<session, serving, reload, candidate, cancelled, disk, signals,
                 phase, owner, stuck, stalls, history>>

AllEnded ==
  /\ run = "teardown" /\ SessionOver
  /\ Leave
  /\ UNCHANGED aborted

\* Mutants of TimedOut: the tasks are awaited without a limit; they are left
\* without an abort; an unclean end ends the program.
NoTimeout == FALSE /\ UNCHANGED vars
TimedOutUnaborted ==
  /\ run = "teardown" /\ ~SessionOver
  /\ UNCHANGED aborted
  /\ Leave
TimedOutExits ==
  /\ run = "teardown" /\ ~SessionOver
  /\ aborted' = aborted \cup {t \in Tasks(session) : phase[t] # "stopped"}
  /\ run' = "exited"
  /\ UNCHANGED <<session, serving, reload, candidate, cancelled, disk, signals,
                 phase, owner, stuck, stalls, history>>

\* Five seconds are over: what has not ended is aborted, and not awaited.
TimedOut ==
  /\ run = "teardown" /\ ~SessionOver
  /\ aborted' = aborted \cup {t \in Tasks(session) : phase[t] # "stopped"}
  /\ Leave

RunLoop ==
  \/ StartSession \/ TakeShutdown \/ TakeHup \/ ReadConfig \/ Reject \/ Accept
  \/ AllEnded \/ TimedOut

-----------------------------------------------------------------------------
(* The supervised tasks, of all sessions.                                  *)

Release(t) == owner' = [owner EXCEPT ![t[2]] = IF @ = t[1] THEN 0 ELSE @]

Holds(t) == owner[t[2]] = t[1]

\* The task opens its socket or device, which fails while another one has it.
\* (That it fails for other reasons is left out.)
Open(t) ==
  /\ phase[t] = "running" /\ owner[t[2]] = 0
  /\ owner' = [owner EXCEPT ![t[2]] = t[1]]
  /\ UNCHANGED phase

OpenFails(t) ==
  /\ owner[t[2]] \notin {0, t[1]}
  /\ TaskEnds(t)
  /\ UNCHANGED owner

\* An open task ends: by an error of its own, or since it sees the token.
Ends(t) == Holds(t) /\ TaskEnds(t) /\ Release(t)

Drop(t) == DropTask(t) /\ Release(t)

Backoff(t) == (BackoffEnds(t) \/ WakeUp(t) \/ StopWaiting(t)) /\ UNCHANGED owner

\* An aborted supervisor is dropped when it is next polled, with its task.
DieAborted(t) ==
  /\ t \in aborted /\ phase[t] # "stopped"
  /\ Move(t, "stopped") /\ Release(t)

TaskStep(t) ==
  /\ t \notin stuck
  /\ \/ Open(t) \/ OpenFails(t) \/ Ends(t) \/ Drop(t) \/ Backoff(t)
     \/ DieAborted(t)
  /\ UNCHANGED <<loop, disk, signals, aborted, stuck, stalls, history>>

\* A task blocks inside a poll, where neither token nor abort reach it (a name
\* that is resolved, a device that is opened), and perhaps goes on.
Stall(t) ==
  /\ stalls < MaxStalls /\ stalls' = stalls + 1
  /\ phase[t] = "running" /\ t \notin stuck
  /\ stuck' = stuck \cup {t}
  /\ UNCHANGED <<loop, disk, signals, phase, owner, aborted, history>>

Unstall(t) ==
  /\ t \in stuck /\ stuck' = stuck \ {t}
  /\ UNCHANGED <<loop, disk, signals, phase, owner, aborted, stalls, history>>

Next ==
  \/ Edit \/ Hup \/ Term \/ CtrlC
  \/ RunLoop
  \/ \E t \in DOMAIN phase : TaskStep(t) \/ Stall(t) \/ Unstall(t)

Spec == Init /\ [][Next]_vars

-----------------------------------------------------------------------------
(* Correctness.                                                            *)

Supervised == (1 .. session) \X Endpoint

\* Every session has its supervisors; ports are held by tasks that run, and only
\* tasks of a cancelled session are aborted.
TypeOK ==
  /\ run \in {"loading", "select", "checking", "validating", "teardown", "exited"}
  /\ session \in Nat /\ reload \in BOOLEAN
  /\ disk \in Seq(Version)
  /\ serving \in 0 .. Len(disk) /\ candidate \in 0 .. Len(disk)
  /\ asked \in 0 .. Len(disk) /\ examined \in 0 .. Len(disk)
  /\ hup \in BOOLEAN /\ term \in BOOLEAN /\ ctrl_c \in BOOLEAN /\ told \in BOOLEAN
  /\ phase \in [Supervised -> Phase]
  /\ cancelled \in SUBSET Supervised /\ aborted \in SUBSET cancelled
  /\ stuck \in SUBSET {t \in Supervised : phase[t] = "running"}
  /\ \A e \in Endpoint : owner[e] # 0 => phase[<<owner[e], e>>] = "running"

\* Nothing of an earlier session runs beside the current one, and nothing of any
\* session after the end, but what had to be aborted.
EarlierSessionsOver ==
  \A t \in Supervised :
    t[1] < session \/ run = "exited" => phase[t] = "stopped" \/ t \in aborted

-----------------------------------------------------------------------------
(* Liveness.  What is ready is polled; select! picks a ready branch at     *)
(* random, so a signal that waits is not passed over for ever.             *)

Fairness ==
  /\ WF_vars(RunLoop) /\ SF_vars(TakeShutdown)
  /\ \A s \in 1 .. MaxSession + 1, e \in Endpoint :
       WF_vars(<<s, e>> \in DOMAIN phase /\ TaskStep(<<s, e>>))

LiveSpec == Spec /\ Fairness

\* SIGTERM is honoured, also during a reload and when tasks do not end.
TermEnds == term ~> run = "exited"

\* SIGHUP is honoured, also while an earlier one is being carried out: in the end
\* the router serves what was on disk then, or something newer, unless that, or
\* something newer, is not valid, or the router has ended, because it was told to or
\* because of a configuration that ends it, and not of what a teardown met.
HupReloads ==
  \A v \in 1 .. MaxVersion :
    asked = v ~>
      \/ serving >= v
      \/ run = "exited" /\ (told \/ disk[examined] # "valid")
      \/ examined >= v /\ disk[examined] = "invalid"

\* The endpoints of a session that stays come up, although tasks that had to be
\* left behind held their ports for a while.
EndpointsComeUp ==
  \A s \in 1 .. MaxSession + 1, e \in Endpoint :
    run = "select" /\ session = s ~>
      owner[e] = s \/ session # s \/ run = "exited" \/ stuck # {}
=============================================================================
