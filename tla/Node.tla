-------------------------------- MODULE Node --------------------------------
(***************************************************************************)
(* The node lifecycle of src/unnamed/part_000 (package node): Start, Stop, *)
(* Wait and the run goroutine.  Status() and setStatus are separate        *)
(* critical sections of n.mu, so a method's check of the status and its   *)
(* change of it are separate steps.  stopCh and doneCh are made once, in  *)
(* New, and closed by Stop and by run's deferred close: closing a closed  *)
(* channel panics, which ends the process (crashed).  The run goroutines  *)
(* are counted, as they are interchangeable; each selects on the Start    *)
(* context, which the application may cancel, and on stopCh.  The         *)
(* ticker's case only logs.                                               *)
(***************************************************************************)
EXTENDS Naturals, TLAPS

CONSTANT Callers   \* goroutines calling Start, Stop and Wait

VARIABLES
    status,      \* n.status
    stopClosed,  \* n.stopCh has been closed
    doneClosed,  \* n.doneCh has been closed
    runs,        \* run goroutines alive
    cancelled,   \* the context passed to Start is cancelled
    crashed,     \* a close of a closed channel panicked
    pc           \* [Callers -> ...] where each caller is in its call

vars == <<status, stopClosed, doneClosed, runs, cancelled, crashed, pc>>

Status == {"Stopped", "Starting", "Running", "Stopping"}

CallerStates == {"idle", "starting", "spawn", "running", "stopping",
                 "close", "wait", "stopped", "waitDone"}

\* New: status StatusStopped, both channels open.
Init ==
    /\ status = "Stopped"
    /\ stopClosed = FALSE
    /\ doneClosed = FALSE
    /\ runs = 0
    /\ cancelled = FALSE
    /\ crashed = FALSE
    /\ pc = [c \in Callers |-> "idle"]

\* close(ch) on a channel whose flag is closed: the first close sets the
\* flag, a second one panics.
Close(closed) == crashed' = closed

-----------------------------------------------------------------------------
(* Start.                                                                  *)

\* if n.Status() != StatusStopped: return an error (no state changes).
StartCheck(c) ==
    /\ pc[c] = "idle"
    /\ status = "Stopped"
    /\ pc' = [pc EXCEPT ![c] = "starting"]
    /\ UNCHANGED <<status, stopClosed, doneClosed, runs, cancelled, crashed>>

\* n.setStatus(StatusStarting); initialize() always returns nil.
SetStarting(c) ==
    /\ pc[c] = "starting"
    /\ status' = "Starting"
    /\ pc' = [pc EXCEPT ![c] = "spawn"]
    /\ UNCHANGED <<stopClosed, doneClosed, runs, cancelled, crashed>>

\* go n.run(ctx)
SpawnRun(c) ==
    /\ pc[c] = "spawn"
    /\ runs' = runs + 1
    /\ pc' = [pc EXCEPT ![c] = "running"]
    /\ UNCHANGED <<status, stopClosed, doneClosed, cancelled, crashed>>

\* n.setStatus(StatusRunning); return nil.
SetRunning(c) ==
    /\ pc[c] = "running"
    /\ status' = "Running"
    /\ pc' = [pc EXCEPT ![c] = "idle"]
    /\ UNCHANGED <<stopClosed, doneClosed, runs, cancelled, crashed>>

\* run: ctx.Done() or stopCh is ready, and the deferred close(n.doneCh).
RunExit ==
    /\ runs > 0
    /\ cancelled \/ stopClosed
    /\ runs' = runs - 1
    /\ doneClosed' = TRUE
    /\ Close(doneClosed)
    /\ UNCHANGED <<status, stopClosed, cancelled, pc>>

-----------------------------------------------------------------------------
(* Stop and Wait.                                                          *)

\* if n.Status() != StatusRunning: return an error.
StopCheck(c) ==
    /\ pc[c] = "idle"
    /\ status = "Running"
    /\ pc' = [pc EXCEPT ![c] = "stopping"]
    /\ UNCHANGED <<status, stopClosed, doneClosed, runs, cancelled, crashed>>

\* n.setStatus(StatusStopping)
SetStopping(c) ==
    /\ pc[c] = "stopping"
    /\ status' = "Stopping"
    /\ pc' = [pc EXCEPT ![c] = "close"]
    /\ UNCHANGED <<stopClosed, doneClosed, runs, cancelled, crashed>>

\* close(n.stopCh)
CloseStop(c) ==
    /\ pc[c] = "close"
    /\ stopClosed' = TRUE
    /\ Close(stopClosed)
    /\ pc' = [pc EXCEPT ![c] = "wait"]
    /\ UNCHANGED <<status, doneClosed, runs, cancelled>>

\* The select on n.doneCh and the 10s shutdown timer: doneCh is ready, or
\* the timer fires first.
StopWait(c) ==
    /\ pc[c] = "wait"
    /\ pc' = [pc EXCEPT ![c] = "stopped"]
    /\ UNCHANGED <<status, stopClosed, doneClosed, runs, cancelled, crashed>>

\* n.setStatus(StatusStopped); return nil.
SetStopped(c) ==
    /\ pc[c] = "stopped"
    /\ status' = "Stopped"
    /\ pc' = [pc EXCEPT ![c] = "idle"]
    /\ UNCHANGED <<stopClosed, doneClosed, runs, cancelled, crashed>>

\* Wait: <-n.doneCh.
WaitCall(c) ==
    /\ pc[c] = "idle"
    /\ pc' = [pc EXCEPT ![c] = "waitDone"]
    /\ UNCHANGED <<status, stopClosed, doneClosed, runs, cancelled, crashed>>

WaitReturn(c) ==
    /\ pc[c] = "waitDone"
    /\ doneClosed
    /\ pc' = [pc EXCEPT ![c] = "idle"]
    /\ UNCHANGED <<status, stopClosed, doneClosed, runs, cancelled, crashed>>

\* The application cancels the context it passed to Start.
Cancel ==
    /\ ~cancelled
    /\ cancelled' = TRUE
    /\ UNCHANGED <<status, stopClosed, doneClosed, runs, crashed, pc>>

\* A panic ends the process: nothing runs after it.
Next ==
    /\ ~crashed
    /\ \/ RunExit \/ Cancel
       \/ \E c \in Callers :
            \/ StartCheck(c) \/ SetStarting(c) \/ SpawnRun(c) \/ SetRunning(c)
            \/ StopCheck(c) \/ SetStopping(c) \/ CloseStop(c) \/ StopWait(c)
            \/ SetStopped(c) \/ WaitCall(c) \/ WaitReturn(c)

Spec == Init /\ [][Next]_vars

-----------------------------------------------------------------------------
TypeOK ==
    /\ status \in Status
    /\ stopClosed \in BOOLEAN
    /\ doneClosed \in BOOLEAN
    /\ runs \in Nat
    /\ cancelled \in BOOLEAN
    /\ crashed \in BOOLEAN
    /\ pc \in [Callers -> CallerStates]

\* No call of Start, Stop or Wait, in any order and from any goroutines,
\* closes stopCh or doneCh a second time: neither a Stop after a Stop, nor
\* a second run goroutine's deferred close(n.doneCh).
NoDoubleClose == ~crashed

-----------------------------------------------------------------------------
\* The node's state keeps its type under every interleaving of Start, Stop,
\* Wait, run's exit and the context's cancellation: in particular the run
\* goroutines' count never goes below zero, because run exits only while
\* one is alive.
THEOREM TypeCorrect == Spec => []TypeOK
  <1>1. Init => TypeOK
    <2>1. Init => pc \in [Callers -> CallerStates]
      BY DEF Init, CallerStates
    <2>2. Init => status \in Status /\ runs \in Nat
      BY DEF Init, Status
    <2>3. Init => /\ stopClosed \in BOOLEAN /\ doneClosed \in BOOLEAN
                  /\ cancelled \in BOOLEAN /\ crashed \in BOOLEAN
      BY DEF Init
    <2>4. QED
      BY <2>1, <2>2, <2>3 DEF TypeOK
  <1>2. TypeOK /\ [Next]_vars => TypeOK'
    <2> SUFFICES ASSUME TypeOK, [Next]_vars PROVE TypeOK'
      OBVIOUS
    <2>1. CASE RunExit
      BY <2>1 DEF RunExit, Close, TypeOK
    <2>2. CASE Cancel
      BY <2>2 DEF Cancel, TypeOK
    <2>3. ASSUME NEW c \in Callers,
                 \/ StartCheck(c) \/ SetStarting(c) \/ SpawnRun(c) \/ SetRunning(c)
                 \/ StopCheck(c) \/ SetStopping(c) \/ CloseStop(c) \/ StopWait(c)
                 \/ SetStopped(c) \/ WaitCall(c) \/ WaitReturn(c)
          PROVE  TypeOK'
    <3>1. CASE StartCheck(c)
      BY <3>1 DEF StartCheck, TypeOK, CallerStates
    <3>2. CASE SetStarting(c)
      BY <3>2 DEF SetStarting, TypeOK, CallerStates, Status
    <3>3. CASE SpawnRun(c)
      BY <3>3 DEF SpawnRun, TypeOK, CallerStates
    <3>4. CASE SetRunning(c)
      BY <3>4 DEF SetRunning, TypeOK, CallerStates, Status
    <3>5. CASE StopCheck(c)
      BY <3>5 DEF StopCheck, TypeOK, CallerStates
    <3>6. CASE SetStopping(c)
      BY <3>6 DEF SetStopping, TypeOK, CallerStates, Status
    <3>7. CASE CloseStop(c)
      BY <3>7 DEF CloseStop, Close, TypeOK, CallerStates
    <3>8. CASE StopWait(c)
      BY <3>8 DEF StopWait, TypeOK, CallerStates
    <3>9. CASE SetStopped(c)
      BY <3>9 DEF SetStopped, TypeOK, CallerStates, Status
    <3>10. CASE WaitCall(c)
      BY <3>10 DEF WaitCall, TypeOK, CallerStates
    <3>11. CASE WaitReturn(c)
      BY <3>11 DEF WaitReturn, TypeOK, CallerStates
    <3>12. QED
      BY <2>3, <3>1, <3>2, <3>3, <3>4, <3>5, <3>6, <3>7, <3>8, <3>9, <3>10, <3>11
    <2>4. CASE UNCHANGED vars
      BY <2>4 DEF vars, TypeOK
    <2>5. QED
      BY <2>1, <2>2, <2>3, <2>4 DEF Next
  <1>3. QED
    BY <1>1, <1>2, PTL DEF Spec

=============================================================================
