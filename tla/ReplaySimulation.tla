--------------------------- MODULE ReplaySimulation ---------------------------
(***************************************************************************)
(* The replay check of -replay with -jobs: the game starts itself once for *)
(* every replay, runs a limited number of these workers at a time, and     *)
(* prints what they wrote in the order of the replays.  The exit code says *)
(* whether all of them were simulated without a mismatch.                  *)
(*                                                                         *)
(* The workers are processes of their own.  They end at any time, with any *)
(* exit code, and the parent polls them through a pipe.                    *)
(***************************************************************************)
EXTENDS Integers, Sequences, FiniteSets

CONSTANTS
  Replays,       \* number of replays to simulate
  MaxProcesses,  \* the argument of -jobs
  ExitCodes      \* exit codes of a worker; 0 says that all is well

(* parseJobs refuses 0, and -1 stands for the sequential simulation.       *)
ASSUME ReplayAssumption ==
  Replays \in Nat /\ MaxProcesses \in Nat \ {0} /\ ExitCodes \subseteq Nat

None == -1

VARIABLES
  step,                      \* where the loop is
  processes,                 \* the WorkerProcess objects, in order
  numProcessesRunning,       \* as counted for this pass of the loop
  filenamePositionStarted,
  filenamePositionDone,
  numErrors,
  exitCode,                  \* exitCode[r]: that of replay r's worker, or None
  printed                    \* history: replays with the exit code read

vars == <<step, processes, numProcessesRunning, filenamePositionStarted,
          filenamePositionDone, numErrors, exitCode, printed>>

(* A WorkerProcess: unstarted if CreateProcess failed, running while it    *)
(* has a process handle, done once update has seen the process exit.       *)
Worker == [replay : 1..Replays, state : {"unstarted", "running", "done"}]

Init ==
  /\ step = "update"
  /\ processes = <<>>
  /\ numProcessesRunning = 0
  /\ filenamePositionStarted = 0
  /\ filenamePositionDone = 0
  /\ numErrors = 0
  /\ exitCode = [r \in 1..Replays |-> None]
  /\ printed = <<>>

(* A worker ends.                                                          *)
Exit(w) ==
  /\ w.state = "running"
  /\ exitCode[w.replay] = None
  /\ \E code \in ExitCodes : exitCode' = [exitCode EXCEPT ![w.replay] = code]
  /\ UNCHANGED <<step, processes, numProcessesRunning, filenamePositionStarted,
                 filenamePositionDone, numErrors, printed>>

(* Mutant of Updated: only the worker started last is looked at.           *)
UpdatedLast(i) ==
  [processes[i] EXCEPT !.state =
     IF i = Len(processes) /\ @ = "running" /\ exitCode[processes[i].replay] # None
       THEN "done" ELSE @]

(* WorkerProcess::update: the pipe breaks when the process has ended.      *)
Updated(i) ==
  [processes[i] EXCEPT !.state =
     IF @ = "running" /\ exitCode[processes[i].replay] # None
       THEN "done" ELSE @]

UpdateAll ==
  /\ step = "update"
  /\ step' = "print"
  /\ processes' = [i \in 1..Len(processes) |-> Updated(i)]
  /\ UNCHANGED <<numProcessesRunning, filenamePositionStarted,
                 filenamePositionDone, numErrors, exitCode, printed>>

(* Mutant of FirstIsDone: it takes the first for done if any is.           *)
SomeIsDone == \E i \in 1..Len(processes) : processes[i].state = "done"

FirstIsDone == processes # <<>> /\ Head(processes).state = "done"

(* Mutant of Failed: an exit code of its own for each kind of error.       *)
Mismatched(code) == code = 1

Failed(code) == code # 0

PrintFirst ==
  /\ step = "print"
  /\ FirstIsDone
  /\ LET first == Head(processes).replay
     IN /\ printed' = Append(printed, [replay |-> first, code |-> exitCode[first]])
        /\ numErrors' = IF Failed(exitCode[first]) THEN numErrors + 1 ELSE numErrors
  /\ processes' = Tail(processes)
  /\ filenamePositionDone' = filenamePositionDone + 1
  /\ UNCHANGED <<step, numProcessesRunning, filenamePositionStarted, exitCode>>

(* Mutant of CountProcessesRunning: it counts what is left to print.       *)
CountProcessesDone ==
  Cardinality({i \in 1..Len(processes) : processes[i].state = "done"})

CountProcessesRunning ==
  Cardinality({i \in 1..Len(processes) : processes[i].state = "running"})

PrintedAll ==
  /\ step = "print"
  /\ ~FirstIsDone
  /\ step' = "start"
  /\ numProcessesRunning' = CountProcessesRunning
  /\ UNCHANGED <<processes, filenamePositionStarted, filenamePositionDone,
                 numErrors, exitCode, printed>>

MayStart ==
  numProcessesRunning < MaxProcesses /\ filenamePositionStarted < Replays

(* startProcess may fail: its result is not looked at.                     *)
Start ==
  /\ step = "start"
  /\ MayStart
  /\ \E s \in {"running", "unstarted"} :
       processes' = Append(processes, [replay |-> filenamePositionStarted + 1,
                                       state |-> s])
  /\ filenamePositionStarted' = filenamePositionStarted + 1
  /\ numProcessesRunning' = numProcessesRunning + 1
  /\ UNCHANGED <<step, filenamePositionDone, numErrors, exitCode, printed>>

(* The end of the loop, or of one pass of it, which sleeps.                *)
StartedAll ==
  /\ step = "start"
  /\ ~MayStart
  /\ step' = IF processes = <<>> THEN "exit" ELSE "update"
  /\ UNCHANGED <<processes, numProcessesRunning, filenamePositionStarted,
                 filenamePositionDone, numErrors, exitCode, printed>>

Parent == UpdateAll \/ PrintFirst \/ PrintedAll \/ Start \/ StartedAll

Worked == \E i \in 1..Len(processes) : Exit(processes[i])

Next == Parent \/ Worked

Spec == Init /\ [][Next]_vars

(* The parent runs, and every replay comes to its end.                     *)
FairSpec == Spec /\ WF_vars(Parent) /\ WF_vars(Worked)

-----------------------------------------------------------------------------

(* Types, and the positions the assertions after the loop compare.         *)
TypeOK ==
  /\ step \in {"update", "print", "start", "exit"}
  /\ processes \in Seq(Worker)
  /\ numProcessesRunning \in 0..MaxProcesses
  /\ filenamePositionStarted \in 0..Replays
  /\ filenamePositionDone \in 0..filenamePositionStarted
  /\ Len(processes) = filenamePositionStarted - filenamePositionDone
  /\ numErrors \in 0..filenamePositionDone
  /\ exitCode \in [1..Replays -> ExitCodes \cup {None}]

(* The output of the workers comes in the order of the replays, complete   *)
(* and each with the exit code of its own worker, in whatever order they   *)
(* end.                                                                    *)
OrderedOutput ==
  /\ Len(printed) = filenamePositionDone
  /\ \A i \in 1..Len(printed) : /\ printed[i].replay = i
                                /\ printed[i].code \in ExitCodes
                                /\ printed[i].code = exitCode[i]

(* Never more than MaxProcesses workers run at once, -jobs promises that.  *)
ProcessLimit ==
  Cardinality({i \in 1..Len(processes) :
                 /\ processes[i].state = "running"
                 /\ exitCode[processes[i].replay] = None}) <= MaxProcesses

(* The exit code is 0 only if every replay was simulated without an error: *)
(* what the scripts of the replay check go by.                             *)
ResultSound ==
  step = "exit" =>
    (numErrors = 0 <=> \A r \in 1..Replays : exitCode[r] = 0)

(* The simulation comes to an end, if all workers could be started.        *)
ExitsIfStarted ==
  <>(step = "exit" \/ \E i \in 1..Len(processes) : processes[i].state = "unstarted")

=============================================================================
