------------------------------ MODULE Supervisor ------------------------------
(***************************************************************************)
(* The supervisor of scripts/start.ts: it keeps one backend running, pulls *)
(* updates, restarts the backend after an update or a crash, gives up      *)
(* after too many crashes in a short time, and ends with the backend when  *)
(* it is signalled.  The backend can be made to restart itself by the      *)
(* settings page, without the supervisor's knowledge.                      *)
(*                                                                         *)
(* Time is left out: an entry of the restart history may age at any time.  *)
(***************************************************************************)
EXTENDS Naturals, FiniteSets

CONSTANTS
  Process,           \* handles of processes
  ShutdownSignal,    \* SIGINT and SIGTERM
  MaxCrashRestarts,  \* MAX_CRASH_RESTARTS
  MaxVersion         \* bound: how often the repository moves on

ASSUME SupervisorAssumption ==
  /\ MaxCrashRestarts \in Nat
  /\ MaxVersion \in Nat

VARIABLES
  supervisor,            \* "waiting" for the child to exit, "sleeping" before a restart, or ended:
                         \* "returned" after the child, "gaveUp" after crashes, or "killed"
  shuttingDown,          \* state.shuttingDown
  updateRestartPending,  \* state.updateRestartPending
  child,                 \* state.child
  recentRestarts,        \* how many entries restartHistory has within the window
  handled,               \* the signals whose handlers are still registered
  backend,               \* backend[p]: "running", "stopping" after a signal, or "exited"
  detached,              \* the processes that a restart from the settings page has spawned
  head,                  \* the version of the working tree
  version,               \* version[p]: the version that p runs
  crashes                \* history: how often the child has exited unasked, up to MaxCrashRestarts + 1

stateVars   == <<shuttingDown, updateRestartPending, recentRestarts, handled>>
processVars == <<child, backend, detached, version>>
supervisorVars == <<supervisor, stateVars, processVars, head, crashes>>

SupervisorTypeOK ==
  /\ supervisor \in {"waiting", "sleeping", "returned", "gaveUp", "killed"}
  /\ shuttingDown \in BOOLEAN
  /\ updateRestartPending \in BOOLEAN
  /\ child \in Process
  /\ recentRestarts \in 0..(MaxCrashRestarts + 1)
  /\ handled \subseteq ShutdownSignal
  /\ backend \in [Process -> {"running", "stopping", "exited"}]
  /\ detached \subseteq Process
  /\ head \in 0..MaxVersion
  /\ version \in [Process -> 0..MaxVersion]
  /\ crashes \in 0..(MaxCrashRestarts + 1)

SupervisorInit ==
  /\ supervisor = "waiting"
  /\ shuttingDown = FALSE /\ updateRestartPending = FALSE
  /\ child \in Process
  /\ recentRestarts = 0 /\ crashes = 0
  /\ handled = ShutdownSignal
  /\ backend = [p \in Process |-> IF p = child THEN "running" ELSE "exited"]
  /\ detached = {}
  /\ head = 0 /\ version = [p \in Process |-> 0]

-----------------------------------------------------------------------------
Active == supervisor \in {"waiting", "sleeping"}

\* A handle for a new process
Free(p) == p # child /\ backend[p] = "exited"

\* stopChild(): nothing if the child has exited
Stopped ==
  IF backend[child] = "running" THEN [backend EXCEPT ![child] = "stopping"] ELSE backend

\* launchBackend()
Launch(p) ==
  /\ Free(p)
  /\ child' = p
  /\ backend' = [backend EXCEPT ![p] = "running"]
  /\ version' = [version EXCEPT ![p] = head]
  /\ detached' = detached \ {p}

-----------------------------------------------------------------------------
(* runSupervisorLoop(), each time the child has exited. *)

ChildExited == supervisor = "waiting" /\ backend[child] = "exited"

LoopReturns ==
  /\ ChildExited /\ shuttingDown
  /\ supervisor' = "returned"
  /\ UNCHANGED <<stateVars, processVars, head, crashes>>

\* Mutant of RelaunchAfterUpdate: the update is looked at before the shutdown.
RelaunchAfterUpdateFirst(p) ==
  /\ ChildExited /\ updateRestartPending
  /\ updateRestartPending' = FALSE
  /\ Launch(p)
  /\ UNCHANGED <<supervisor, shuttingDown, recentRestarts, handled, head, crashes>>

RelaunchAfterUpdate(p) ==
  /\ ChildExited /\ ~shuttingDown /\ updateRestartPending
  /\ updateRestartPending' = FALSE
  /\ Launch(p)
  /\ UNCHANGED <<supervisor, shuttingDown, recentRestarts, handled, head, crashes>>

\* Neither a shutdown nor an update explains the exit.
Crashed == ChildExited /\ ~shuttingDown /\ ~updateRestartPending

\* shouldAbortAfterCrash(), and the delay if it says no
CrashIsCounted ==
  /\ Crashed
  /\ recentRestarts' = recentRestarts + 1
  /\ supervisor' = IF recentRestarts' > MaxCrashRestarts THEN "gaveUp" ELSE "sleeping"
  /\ UNCHANGED <<shuttingDown, updateRestartPending, handled, processVars, head, crashes>>

\* RESTART_DELAY_MS is over; nothing is looked at again.
SleepEnds(p) ==
  /\ supervisor = "sleeping"
  /\ supervisor' = "waiting"
  /\ Launch(p)
  /\ UNCHANGED <<stateVars, head, crashes>>

\* trimRestartHistory()
RestartAges ==
  /\ Active /\ recentRestarts > 0
  /\ recentRestarts' = recentRestarts - 1
  /\ UNCHANGED <<supervisor, shuttingDown, updateRestartPending, handled, processVars, head, crashes>>

-----------------------------------------------------------------------------
(* Updates and signals, whatever the loop is doing. *)

\* The update timer, or the check at startup, gets as far as a pull that succeeds.
Pulls ==
  /\ Active /\ ~shuttingDown /\ ~updateRestartPending
  /\ head < MaxVersion
  /\ head' = head + 1

\* Mutant of UpdateIsApplied: the new backend is launched before the old one has exited.
UpdateIsAppliedAtOnce ==
  /\ Pulls
  /\ \E p \in Process :
       /\ Free(p)
       /\ child' = p
       /\ backend' = [Stopped EXCEPT ![p] = "running"]
       /\ version' = [version EXCEPT ![p] = head']
       /\ detached' = detached \ {p}
  /\ UNCHANGED <<supervisor, stateVars, crashes>>

\* Mutant of UpdateIsApplied: the restart waits for the child to exit by itself.
UpdateIsAppliedLater ==
  /\ Pulls
  /\ updateRestartPending' = TRUE
  /\ UNCHANGED <<supervisor, shuttingDown, recentRestarts, handled, processVars, crashes>>

\* requestUpdateRestart()
UpdateIsApplied ==
  /\ Pulls
  /\ updateRestartPending' = TRUE
  /\ backend' = Stopped
  /\ UNCHANGED <<supervisor, shuttingDown, recentRestarts, handled, child, detached, version, crashes>>

\* The dependencies cannot be installed: the tree has changed but nothing is restarted.
InstallFails ==
  /\ Pulls
  /\ UNCHANGED <<supervisor, stateVars, processVars, crashes>>

\* handleShutdown(), once for each signal
ShutdownIsHandled(s) ==
  /\ Active /\ s \in handled
  /\ handled' = handled \ {s}
  /\ shuttingDown' = TRUE
  /\ backend' = Stopped
  /\ UNCHANGED <<supervisor, updateRestartPending, recentRestarts, child, detached, version, head, crashes>>

\* A signal without a handler (the second of its kind, or SIGKILL) ends the supervisor only.
SupervisorIsKilled ==
  /\ Active
  /\ supervisor' = "killed"
  /\ UNCHANGED <<stateVars, processVars, head, crashes>>

-----------------------------------------------------------------------------
(* The backends. *)

\* The history takes note of a child that exits without having been told to.
NoteExit(p) ==
  crashes' = IF p = child /\ backend[p] = "running" /\ crashes =< MaxCrashRestarts
               THEN crashes + 1 ELSE crashes

\* A crash
BackendCrashes(p) ==
  /\ backend[p] = "running"
  /\ backend' = [backend EXCEPT ![p] = "exited"]
  /\ NoteExit(p)
  /\ UNCHANGED <<supervisor, stateVars, child, detached, version, head>>

\* The handler of the signal has released the leases.
BackendStops(p) ==
  /\ backend[p] = "stopping"
  /\ backend' = [backend EXCEPT ![p] = "exited"]
  /\ UNCHANGED <<supervisor, stateVars, child, detached, version, head, crashes>>

\* The handler of restart, 500 ms after it was asked: p spawns q and exits.  One handle is
\* kept for the supervisor.
RestartIsRequested(p, q) ==
  /\ backend[p] \in {"running", "stopping"}
  /\ Free(q) /\ \E r \in Process \ {q} : Free(r)
  /\ backend' = [backend EXCEPT ![p] = "exited", ![q] = "running"]
  /\ version' = [version EXCEPT ![q] = head]
  /\ detached' = detached \cup {q}
  /\ NoteExit(p)
  /\ UNCHANGED <<supervisor, stateVars, child, head>>

-----------------------------------------------------------------------------
LoopStep ==
  \/ LoopReturns
  \/ CrashIsCounted
  \/ \E p \in Process : RelaunchAfterUpdate(p) \/ SleepEnds(p)

SupervisorNext ==
  \/ LoopStep
  \/ RestartAges
  \/ UpdateIsApplied \/ InstallFails
  \/ \E s \in ShutdownSignal : ShutdownIsHandled(s)
  \/ SupervisorIsKilled
  \/ \E p \in Process : \/ BackendCrashes(p) \/ BackendStops(p)
                        \/ \E q \in Process : RestartIsRequested(p, q)

SupervisorSpec == SupervisorInit /\ [][SupervisorNext]_supervisorVars

\* The loop goes on, the delay ends, and a signalled backend exits.
FairSupervisorSpec ==
  /\ SupervisorSpec
  /\ WF_supervisorVars(LoopStep)
  /\ \A p \in Process : WF_supervisorVars(BackendStops(p))

-----------------------------------------------------------------------------
(* Properties. *)

\* Through crashes, updates and signals, at most one backend of the supervisor's runs at a
\* time, and none once it has returned or given up (backends that were restarted from the
\* settings page are not its own).
OneSupervisedBackend ==
  \A p \in Process : backend[p] # "exited" /\ p \notin detached =>
    p = child /\ supervisor \in {"waiting", "killed"}

\* The supervisor only gives up after more than MAX_CRASH_RESTARTS exits that nobody had
\* asked for; the restarts after updates do not count.
GivesUpOnlyAfterCrashes == supervisor = "gaveUp" => crashes > MaxCrashRestarts

\* A backend that has exited after the signal is not started again, even when an update
\* was about to restart it.  The one exception is a restart whose delay has begun.
ShutdownIsFinal ==
  [][ shuttingDown /\ child' # child => supervisor = "sleeping" ]_supervisorVars

\* A backend of at least the version v runs.
Runs(v) == backend[child] = "running" /\ version[child] >= v

\* Whenever the child has exited, or is to be replaced by an update, the supervisor gets a
\* backend of at least that version to run, unless it is ended or told to end.
BackendComesBack ==
  \A v \in 0..MaxVersion :
    (Active /\ head = v /\ (backend[child] = "exited" \/ updateRestartPending))
      ~> (Runs(v) \/ shuttingDown \/ ~Active)

=============================================================================
