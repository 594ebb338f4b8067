------------------------------ MODULE Launcher ------------------------------
(***************************************************************************)
(* The process that starts a training job: main of                         *)
(* liteopd/train/launcher.py.  It runs torchrun (here the agent) and       *)
(* waits for it; SIGINT and SIGTERM are handled between two bytecodes, by  *)
(* a handler that cleans up and then raises through whatever it            *)
(* interrupted.  The agent itself is torch's: it is modelled from how the  *)
(* launcher uses it (a command that can be waited for, terminated, killed) *)
(* and from what torchrun is for, running and stopping the ranks.          *)
(***************************************************************************)
EXTENDS Integers

CONSTANT MaxSignals   \* bound: signals that reach the launcher

VARIABLES
  lpc,       \* where the launcher is
  handle,    \* train_process is assigned
  cleaning,  \* cleanup_started
  signals,   \* signals so far
  agent,     \* none, running, stopping, succeeded, failed or killed
  term       \* SIGTERM has been sent to the agent

launcherVars == <<lpc, handle, cleaning, signals, agent, term>>

LauncherInit ==
  /\ lpc = "spawn"
  /\ handle = FALSE
  /\ cleaning = FALSE
  /\ signals = 0
  /\ agent = "none"
  /\ term = FALSE

AgentAlive == agent \in {"running", "stopping"}

\* subprocess.Popen has created the process before its result is assigned.
Popen ==
  /\ lpc = "spawn"
  /\ agent' = "running"
  /\ lpc' = "assign"
  /\ UNCHANGED <<handle, cleaning, signals, term>>

Assign ==
  /\ lpc = "assign"
  /\ handle' = TRUE
  /\ lpc' = "wait"
  /\ UNCHANGED <<cleaning, signals, agent, term>>

\* train_process.wait() returns; the finally clause runs the cleanup.
WaitReturns ==
  /\ lpc = "wait"
  /\ ~ AgentAlive
  /\ lpc' = "clean"
  /\ UNCHANGED <<handle, cleaning, signals, agent, term>>

\* A signal while launching or waiting: the handler enters the cleanup.  One
\* during the cleanup: the handler returns from it at once, for it has
\* started, and raises through it; the finally clause does nothing either.
Signal ==
  /\ signals < MaxSignals
  /\ lpc # "done"
  /\ signals' = signals + 1
  /\ lpc' = IF cleaning THEN "done" ELSE "clean"
  /\ UNCHANGED <<handle, cleaning, agent, term>>

\* _cleanup_launcher_runtime, up to wait(timeout=10).
Terminate ==
  /\ lpc = "clean"
  /\ cleaning' = TRUE
  /\ IF handle /\ AgentAlive
     THEN term' = TRUE /\ lpc' = "term_wait"
     ELSE lpc' = "done" /\ UNCHANGED term
  /\ UNCHANGED <<handle, signals, agent>>

TermWaitReturns ==
  /\ lpc = "term_wait"
  /\ ~ AgentAlive
  /\ lpc' = "done"
  /\ UNCHANGED <<handle, cleaning, signals, agent, term>>

\* TimeoutExpired: kill, and wait for what can only take an instant.
\* A slip: the timeout is logged like any other exception.
TermTimeoutLogged ==
  /\ lpc = "term_wait"
  /\ AgentAlive
  /\ lpc' = "done"
  /\ UNCHANGED <<handle, cleaning, signals, agent, term>>

TermTimeout ==
  /\ lpc = "term_wait"
  /\ AgentAlive
  /\ agent' = "killed"
  /\ lpc' = "done"
  /\ UNCHANGED <<handle, cleaning, signals, term>>

Launch ==
  Popen \/ Assign \/ WaitReturns \/ Signal \/ Terminate \/ TermWaitReturns \/ TermTimeout

\* No step of the launcher leaves the agent to itself but when a signal
\* interrupts Popen before its result is assigned, or a second one the cleanup.
LeavesNoAgent ==
  lpc = "done" /\ AgentAlive => ~ handle \/ signals > 1
=============================================================================
