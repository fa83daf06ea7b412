----------------------- MODULE ReplaySimulationProofs -----------------------
(***************************************************************************)
(* Proofs about ReplaySimulation: for any number of replays, any limit of  *)
(* -jobs, and whichever workers end when and with what exit code, their    *)
(* output is printed in order, the limit is kept, and the exit code of the *)
(* parent tells the truth.                                                 *)
(***************************************************************************)
EXTENDS ReplaySimulation, FiniteSetTheorems, TLAPS

(*----------------------- the inductive invariant ------------------------*)

(* The processes that the parent takes for running.                        *)
RunningIn(p) == {i \in 1..Len(p) : p[i].state = "running"}

(* The list holds the replays from the first that is not printed on, and   *)
(* who is done in it has ended.                                            *)
ListInOrder ==
  \A i \in 1..Len(processes) :
    /\ processes[i].replay = filenamePositionDone + i
    /\ processes[i].state = "done" => exitCode[processes[i].replay] # None

Output == [replay : 1..Replays, code : ExitCodes]

(* An error has been counted exactly if a printed replay has one.          *)
ErrorsCounted == numErrors = 0 <=> \A r \in 1..filenamePositionDone : exitCode[r] = 0

(* The number counted for the pass is never too small, nor left over from  *)
(* processes that are gone.                                                *)
CountHolds ==
  /\ Cardinality(RunningIn(processes)) <= MaxProcesses
  /\ step = "start" => /\ Cardinality(RunningIn(processes)) <= numProcessesRunning
                       /\ processes = <<>> => numProcessesRunning = 0

NothingLeft == step = "exit" => processes = <<>> /\ filenamePositionStarted = Replays

IInv ==
  /\ TypeOK
  /\ ListInOrder
  /\ printed \in Seq(Output) /\ OrderedOutput
  /\ ErrorsCounted
  /\ CountHolds
  /\ NothingLeft

(*------------------------ counts of processes ---------------------------*)

(* The running processes of a list are a finite set of positions.          *)
LEMMA RunningFinite ==
  ASSUME NEW p, Len(p) \in Nat
  PROVE  IsFiniteSet(RunningIn(p)) /\ Cardinality(RunningIn(p)) \in Nat
<1>1. IsFiniteSet(1..Len(p))
  BY FS_Interval
<1>2. IsFiniteSet(RunningIn(p))
  BY <1>1, FS_Subset DEF RunningIn
<1> QED
  BY <1>2, FS_CardinalityType

(* Who is not counted twice: a list without its first element has no more  *)
(* running processes than before.                                          *)
LEMMA RunningOfTail ==
  ASSUME NEW p \in Seq(Worker), p # <<>>
  PROVE  Cardinality(RunningIn(Tail(p))) <= Cardinality(RunningIn(p))
<1>1. /\ Len(p) \in Nat /\ Len(Tail(p)) = Len(p) - 1
      /\ \A i \in 1..Len(Tail(p)) : Tail(p)[i] = p[i + 1]
  OBVIOUS
<1> DEFINE f == [i \in RunningIn(Tail(p)) |-> i + 1]
<1>2. f \in [RunningIn(Tail(p)) -> RunningIn(p)]
  BY <1>1 DEF RunningIn
<1>3. \A i, j \in RunningIn(Tail(p)) : f[i] = f[j] => i = j
  BY <1>1 DEF RunningIn
<1>4. f \in Injection(RunningIn(Tail(p)), RunningIn(p))
  BY <1>2, <1>3 DEF Injection, IsInjective
<1> QED
  BY <1>1, <1>4, FS_Injection, RunningFinite

(* A list that one is appended to has at most one more.                    *)
LEMMA RunningOfAppend ==
  ASSUME NEW p \in Seq(Worker), NEW w \in Worker
  PROVE  Cardinality(RunningIn(Append(p, w))) <= Cardinality(RunningIn(p)) + 1
<1> DEFINE n == Len(p) + 1
<1>1. Len(p) \in Nat /\ Len(Append(p, w)) = n
  OBVIOUS
<1>2. \A i \in 1..Len(p) : Append(p, w)[i] = p[i]
  OBVIOUS
<1>3. RunningIn(Append(p, w)) \subseteq RunningIn(p) \cup {n}
  BY <1>1, <1>2 DEF RunningIn
<1>4. IsFiniteSet(RunningIn(p)) /\ Cardinality(RunningIn(p)) \in Nat
  BY <1>1, RunningFinite
<1>5. /\ IsFiniteSet(RunningIn(p) \cup {n})
      /\ Cardinality(RunningIn(p) \cup {n}) <= Cardinality(RunningIn(p)) + 1
  <2> DEFINE R == RunningIn(p)
  <2> HIDE DEF n, R
  <2>1. /\ IsFiniteSet(R \cup {n})
        /\ Cardinality(R \cup {n}) = IF n \in R THEN Cardinality(R) ELSE Cardinality(R) + 1
    BY <1>4, FS_AddElement DEF R
  <2>2. Cardinality(R) \in Nat
    BY <1>4 DEF R
  <2>3. Cardinality(R \cup {n}) <= Cardinality(R) + 1
    BY <2>1, <2>2
  <2> QED
    BY <2>1, <2>3 DEF R
<1>6. /\ IsFiniteSet(RunningIn(Append(p, w)))
      /\ Cardinality(RunningIn(Append(p, w))) <= Cardinality(RunningIn(p) \cup {n})
  BY <1>3, <1>5, FS_Subset
<1> QED
  BY <1>4, <1>5, <1>6, FS_CardinalityType

(*------------------------------- the steps ------------------------------*)

LEMMA InitIInv == Init => IInv
<1> SUFFICES ASSUME Init PROVE IInv
  OBVIOUS
<1> USE ReplayAssumption DEF Init
<1>1. RunningIn(processes) = {}
  BY DEF RunningIn
<1>2. CountHolds
  BY <1>1, FS_EmptySet DEF CountHolds
<1>3. TypeOK
  BY DEF TypeOK, None
<1>4. ListInOrder /\ ErrorsCounted /\ NothingLeft
  BY DEF ListInOrder, ErrorsCounted, NothingLeft
<1>5. printed \in Seq(Output) /\ OrderedOutput
  BY DEF OrderedOutput
<1> QED
  BY <1>2, <1>3, <1>4, <1>5 DEF IInv

(* A worker ends: nothing printed is touched, for it was done before.      *)
LEMMA WorkedKeepsIInv ==
  ASSUME IInv, Worked
  PROVE  IInv'
<1>1. PICK i \in 1..Len(processes) : Exit(processes[i])
  BY DEF Worked
<1> DEFINE r == processes[i].replay
<1>2. PICK code \in ExitCodes : exitCode' = [exitCode EXCEPT ![r] = code]
  BY <1>1 DEF Exit
<1> USE ReplayAssumption
<1>a. /\ processes[i] \in Worker /\ Len(processes) \in Nat /\ filenamePositionDone \in Nat
  BY DEF IInv, TypeOK
<1>b. /\ exitCode[r] = None
      /\ UNCHANGED <<step, processes, numProcessesRunning, filenamePositionStarted,
                     filenamePositionDone, numErrors, printed>>
  BY <1>1 DEF Exit
<1>c. r \in 1..Replays
  BY <1>a DEF Worker
<1>d. r = filenamePositionDone + i /\ i \in Nat \ {0}
  BY <1>a DEF IInv, ListInOrder
<1>3. /\ Len(processes) \in Nat
      /\ r = filenamePositionDone + i /\ filenamePositionDone \in Nat /\ i \in Nat \ {0}
      /\ r \in 1..Replays /\ exitCode[r] = None
      /\ UNCHANGED <<step, processes, numProcessesRunning, filenamePositionStarted,
                     filenamePositionDone, numErrors, printed>>
  BY <1>a, <1>b, <1>c, <1>d
<1>4. \A q \in 1..Replays : q # r => exitCode'[q] = exitCode[q]
  BY <1>2 DEF IInv, TypeOK
<1>5. \A q \in 1..filenamePositionDone : q # r /\ q \in 1..Replays
  BY <1>3 DEF IInv, TypeOK
<1>6. TypeOK'
  BY <1>2, <1>3 DEF IInv, TypeOK
<1>7. ListInOrder'
  BY <1>2, <1>3 DEF IInv, TypeOK, ListInOrder, None
<1>8. printed' \in Seq(Output) /\ OrderedOutput'
  BY <1>3, <1>4, <1>5 DEF IInv, OrderedOutput
<1>9. ErrorsCounted'
  BY <1>3, <1>4, <1>5 DEF IInv, ErrorsCounted
<1>10. CountHolds' /\ NothingLeft'
  BY <1>3 DEF IInv, CountHolds, NothingLeft, RunningIn
<1> QED
  BY <1>6, <1>7, <1>8, <1>9, <1>10 DEF IInv

LEMMA UpdateAllKeepsIInv ==
  ASSUME IInv, UpdateAll
  PROVE  IInv'
<1> USE ReplayAssumption
<1>1. Len(processes) \in Nat /\ \A i \in 1..Len(processes) : processes[i] \in Worker
  BY DEF IInv, TypeOK
<1>2. \A i \in 1..Len(processes) :
        /\ Updated(i) \in Worker
        /\ Updated(i).replay = processes[i].replay
        /\ Updated(i).state = "running" => processes[i].state = "running"
        /\ Updated(i).state = "done" =>
             processes[i].state = "done" \/ exitCode[processes[i].replay] # None
  BY <1>1 DEF Updated, Worker
<1>3. /\ processes' \in Seq(Worker) /\ Len(processes') = Len(processes)
      /\ \A i \in 1..Len(processes) : processes'[i] = Updated(i)
  BY <1>1, <1>2 DEF UpdateAll
<1>4. RunningIn(processes') \subseteq RunningIn(processes)
  BY <1>2, <1>3 DEF RunningIn
<1>5. /\ IsFiniteSet(RunningIn(processes)) /\ Cardinality(RunningIn(processes)) \in Nat
      /\ Cardinality(RunningIn(processes')) \in Nat
      /\ Cardinality(RunningIn(processes')) <= Cardinality(RunningIn(processes))
  BY <1>1, <1>3, <1>4, RunningFinite, FS_Subset
<1>6. Cardinality(RunningIn(processes')) <= MaxProcesses
  BY <1>5 DEF IInv, CountHolds
<1>7. CountHolds'
  BY <1>6 DEF CountHolds, UpdateAll
<1>8. TypeOK'
  BY <1>3 DEF IInv, TypeOK, UpdateAll
<1>9. ListInOrder'
  BY <1>2, <1>3 DEF IInv, ListInOrder, UpdateAll
<1>10. printed' \in Seq(Output) /\ OrderedOutput' /\ ErrorsCounted' /\ NothingLeft'
  BY DEF IInv, OrderedOutput, ErrorsCounted, NothingLeft, UpdateAll
<1> QED
  BY <1>7, <1>8, <1>9, <1>10 DEF IInv

LEMMA PrintFirstKeepsIInv ==
  ASSUME IInv, PrintFirst
  PROVE  IInv'
<1> USE ReplayAssumption
<1> DEFINE d == filenamePositionDone + 1
           first == [replay |-> d, code |-> exitCode[d]]
<1>1. /\ processes \in Seq(Worker) /\ processes # <<>> /\ Len(processes) \in Nat \ {0}
      /\ Head(processes) = processes[1] /\ processes[1] \in Worker
  BY DEF PrintFirst, FirstIsDone, IInv, TypeOK
<1>2. /\ filenamePositionDone \in Nat /\ filenamePositionStarted \in 0..Replays
      /\ Len(processes) = filenamePositionStarted - filenamePositionDone
  BY DEF IInv, TypeOK
<1>3. processes[1].replay = d /\ d \in 1..Replays /\ d <= filenamePositionStarted
  BY <1>1, <1>2 DEF IInv, ListInOrder
<1>4. exitCode[d] \in ExitCodes
  <2>1. processes[1].state = "done"
    BY <1>1 DEF PrintFirst, FirstIsDone
  <2>2. exitCode[d] # None
    BY <2>1, <1>1, <1>3 DEF IInv, ListInOrder
  <2> QED
    BY <2>2, <1>3 DEF IInv, TypeOK
<1>5. /\ printed' = Append(printed, first)
      /\ processes' = Tail(processes) /\ filenamePositionDone' = d
      /\ UNCHANGED <<step, numProcessesRunning, filenamePositionStarted, exitCode>>
      /\ step = "print"
  BY <1>1, <1>3 DEF PrintFirst
<1>6. numErrors' = IF exitCode[d] # 0 THEN numErrors + 1 ELSE numErrors
  BY <1>1, <1>3 DEF PrintFirst, Failed
<1>7. /\ Tail(processes) \in Seq(Worker) /\ Len(Tail(processes)) = Len(processes) - 1
      /\ \A i \in 1..Len(Tail(processes)) :
           /\ Tail(processes)[i] = processes[i + 1]
           /\ i + 1 \in 1..Len(processes)
  BY <1>1
<1>8. TypeOK'
  BY <1>2, <1>3, <1>5, <1>6, <1>7 DEF IInv, TypeOK
<1>9. ListInOrder'
  BY <1>2, <1>5, <1>7 DEF IInv, ListInOrder
<1>10. printed' \in Seq(Output) /\ OrderedOutput'
  <2>1. first \in Output
    BY <1>3, <1>4 DEF Output
  <2>2. printed \in Seq(Output) /\ Len(printed) = filenamePositionDone
    BY DEF IInv, OrderedOutput
  <2>3. /\ printed' \in Seq(Output) /\ Len(printed') = d /\ printed'[d] = first
        /\ \A i \in 1..filenamePositionDone : printed'[i] = printed[i]
    BY <2>1, <2>2, <1>2, <1>5
  <2>4. \A i \in 1..d : i = d \/ i \in 1..filenamePositionDone
    BY <1>2
  <2>5. \A i \in 1..d : /\ printed'[i].replay = i /\ printed'[i].code \in ExitCodes
                        /\ printed'[i].code = exitCode[i]
    BY <2>2, <2>3, <2>4, <1>4 DEF IInv, OrderedOutput
  <2> QED
    BY <2>3, <2>5, <1>5 DEF OrderedOutput
<1>11. ErrorsCounted'
  <2>1. \A r \in 1..d : r = d \/ r \in 1..filenamePositionDone
    BY <1>2
  <2>2. d \in 1..d /\ \A r \in 1..filenamePositionDone : r \in 1..d
    BY <1>2
  <2>3. numErrors \in Nat
    BY <1>2 DEF IInv, TypeOK
  <2>4. numErrors' = 0 <=> numErrors = 0 /\ exitCode[d] = 0
    BY <2>3, <1>6
  <2> QED
    BY <2>1, <2>2, <2>4, <1>5 DEF IInv, ErrorsCounted
<1>12. CountHolds' /\ NothingLeft'
  <2>1. /\ Cardinality(RunningIn(processes)) \in Nat
        /\ Cardinality(RunningIn(processes')) \in Nat
        /\ Cardinality(RunningIn(processes')) <= Cardinality(RunningIn(processes))
    BY <1>1, <1>5, <1>7, RunningFinite, RunningOfTail
  <2> QED
    BY <2>1, <1>5 DEF IInv, CountHolds, NothingLeft
<1> QED
  BY <1>8, <1>9, <1>10, <1>11, <1>12 DEF IInv

LEMMA PrintedAllKeepsIInv ==
  ASSUME IInv, PrintedAll
  PROVE  IInv'
<1> USE ReplayAssumption
<1>1. CountProcessesRunning = Cardinality(RunningIn(processes))
  BY DEF CountProcessesRunning, RunningIn
<1>2. CountProcessesRunning \in 0..MaxProcesses
  <2>1. Len(processes) \in Nat
    BY DEF IInv, TypeOK
  <2> QED
    BY <2>1, <1>1, RunningFinite DEF IInv, CountHolds
<1>3. processes = <<>> => CountProcessesRunning = 0
  BY <1>1, FS_EmptySet DEF RunningIn
<1>4. TypeOK'
  BY <1>2 DEF IInv, TypeOK, PrintedAll
<1>5. CountHolds'
  BY <1>1, <1>2, <1>3 DEF IInv, CountHolds, PrintedAll, RunningIn
<1>6. ListInOrder' /\ printed' \in Seq(Output) /\ OrderedOutput'
  BY DEF IInv, ListInOrder, OrderedOutput, PrintedAll
<1>7. ErrorsCounted' /\ NothingLeft'
  BY DEF IInv, ErrorsCounted, NothingLeft, PrintedAll
<1> QED
  BY <1>4, <1>5, <1>6, <1>7 DEF IInv

LEMMA StartKeepsIInv ==
  ASSUME IInv, Start
  PROVE  IInv'
<1> USE ReplayAssumption
<1> DEFINE n == filenamePositionStarted + 1
<1>1. PICK s \in {"running", "unstarted"} :
        processes' = Append(processes, [replay |-> n, state |-> s])
  BY DEF Start
<1> DEFINE w == [replay |-> n, state |-> s]
<1>2. /\ n \in 1..Replays /\ w \in Worker
      /\ numProcessesRunning + 1 \in 1..MaxProcesses
      /\ step = "start" /\ filenamePositionStarted' = n
      /\ numProcessesRunning' = numProcessesRunning + 1
      /\ UNCHANGED <<step, filenamePositionDone, numErrors, exitCode, printed>>
  BY DEF Start, MayStart, IInv, TypeOK, Worker
<1>3. /\ processes \in Seq(Worker) /\ Len(processes) \in Nat
      /\ filenamePositionDone \in Nat /\ filenamePositionStarted \in Nat
      /\ Len(processes) = filenamePositionStarted - filenamePositionDone
  BY DEF IInv, TypeOK
<1>4. /\ processes' \in Seq(Worker) /\ Len(processes') = Len(processes) + 1
      /\ processes' # <<>> /\ processes'[Len(processes) + 1] = w
      /\ \A i \in 1..Len(processes) : processes'[i] = processes[i]
  BY <1>1, <1>2, <1>3
<1>5. TypeOK'
  BY <1>2, <1>3, <1>4 DEF IInv, TypeOK
<1>6. ListInOrder'
  <2>1. \A i \in 1..Len(processes') : i \in 1..Len(processes) \/ i = Len(processes) + 1
    BY <1>3, <1>4
  <2>2. w.replay = filenamePositionDone + (Len(processes) + 1) /\ w.state # "done"
    BY <1>3
  <2> HIDE DEF w
  <2> QED
    BY <2>1, <2>2, <1>2, <1>4 DEF IInv, ListInOrder
<1>7. printed' \in Seq(Output) /\ OrderedOutput' /\ ErrorsCounted' /\ NothingLeft'
  BY <1>2 DEF IInv, OrderedOutput, ErrorsCounted, NothingLeft
<1>8. CountHolds'
  <2>1. Cardinality(RunningIn(processes')) <= Cardinality(RunningIn(processes)) + 1
    BY <1>1, <1>2, <1>3, RunningOfAppend
  <2>2. /\ Cardinality(RunningIn(processes)) \in Nat
        /\ Cardinality(RunningIn(processes')) \in Nat
    BY <1>3, <1>4, RunningFinite
  <2>3. Cardinality(RunningIn(processes)) <= numProcessesRunning
    BY <1>2 DEF IInv, CountHolds
  <2>4. Cardinality(RunningIn(processes')) <= numProcessesRunning + 1
    BY <2>1, <2>2, <2>3, <1>2 DEF IInv, TypeOK
  <2> QED
    BY <2>2, <2>4, <1>2, <1>4 DEF CountHolds
<1> QED
  BY <1>5, <1>6, <1>7, <1>8 DEF IInv

LEMMA StartedAllKeepsIInv ==
  ASSUME IInv, StartedAll
  PROVE  IInv'
<1> USE ReplayAssumption
<1>1. processes = <<>> => filenamePositionStarted = Replays
  BY DEF StartedAll, MayStart, IInv, CountHolds, TypeOK
<1>2. NothingLeft'
  BY <1>1 DEF NothingLeft, StartedAll
<1>3. TypeOK' /\ ListInOrder' /\ ErrorsCounted'
  BY DEF IInv, TypeOK, ListInOrder, ErrorsCounted, StartedAll
<1>4. printed' \in Seq(Output) /\ OrderedOutput' /\ CountHolds'
  BY DEF IInv, OrderedOutput, CountHolds, RunningIn, StartedAll
<1> QED
  BY <1>2, <1>3, <1>4 DEF IInv

LEMMA NextKeepsIInv == IInv /\ [Next]_vars => IInv'
<1> SUFFICES ASSUME IInv, [Next]_vars PROVE IInv'
  OBVIOUS
<1>1. CASE Worked
  BY <1>1, WorkedKeepsIInv
<1>2. CASE UpdateAll
  BY <1>2, UpdateAllKeepsIInv
<1>3. CASE PrintFirst
  BY <1>3, PrintFirstKeepsIInv
<1>4. CASE PrintedAll
  BY <1>4, PrintedAllKeepsIInv
<1>5. CASE Start
  BY <1>5, StartKeepsIInv
<1>6. CASE StartedAll
  BY <1>6, StartedAllKeepsIInv
<1>7. CASE UNCHANGED vars
  BY <1>7 DEF IInv, TypeOK, ListInOrder, OrderedOutput, ErrorsCounted, CountHolds,
              RunningIn, NothingLeft, vars
<1> QED
  BY <1>1, <1>2, <1>3, <1>4, <1>5, <1>6, <1>7 DEF Next, Parent

(*------------------------------ the theorems ----------------------------*)

LEMMA Invariant == Spec => []IInv
<1> QED
  BY InitIInv, NextKeepsIInv, PTL DEF Spec

(* What is printed is the output of the first replays, in their order,     *)
(* each with the exit code of its own worker, however many there are and   *)
(* in whatever order they end.                                             *)
THEOREM OutputInOrder == Spec => []OrderedOutput
<1>1. IInv => OrderedOutput
  BY DEF IInv
<1> QED
  BY <1>1, Invariant, PTL

(* No more workers run at once than -jobs allows, even when some could not *)
(* be started and stay in the list for ever.                               *)
THEOREM LimitKept == Spec => []ProcessLimit
<1>1. IInv => ProcessLimit
  <2> SUFFICES ASSUME IInv PROVE ProcessLimit
    OBVIOUS
  <2> DEFINE A == {i \in 1..Len(processes) :
                     /\ processes[i].state = "running"
                     /\ exitCode[processes[i].replay] = None}
  <2>1. A \subseteq RunningIn(processes)
    BY DEF RunningIn
  <2>2. Len(processes) \in Nat
    BY DEF IInv, TypeOK
  <2>3. IsFiniteSet(RunningIn(processes)) /\ Cardinality(RunningIn(processes)) \in Nat
    BY <2>2, RunningFinite
  <2>4. /\ IsFiniteSet(A) /\ Cardinality(A) <= Cardinality(RunningIn(processes))
        /\ Cardinality(A) \in Nat
    BY <2>1, <2>3, FS_Subset, FS_CardinalityType
  <2>5. Cardinality(RunningIn(processes)) <= MaxProcesses /\ MaxProcesses \in Nat
    BY ReplayAssumption DEF IInv, CountHolds
  <2>6. Cardinality(A) <= MaxProcesses
    BY <2>3, <2>4, <2>5
  <2> QED
    BY <2>6 DEF ProcessLimit
<1> QED
  BY <1>1, Invariant, PTL

(* The parent reports success exactly if every replay was simulated and    *)
(* its worker said that all is well.                                       *)
THEOREM ExitCodeTrue == Spec => []ResultSound
<1>1. IInv => ResultSound
  <2> SUFFICES ASSUME IInv, step = "exit"
               PROVE  numErrors = 0 <=> \A r \in 1..Replays : exitCode[r] = 0
    BY DEF ResultSound
  <2>1. processes = <<>> /\ filenamePositionStarted = Replays
    BY DEF IInv, NothingLeft
  <2>2. Len(processes) = 0
    BY <2>1
  <2>3. filenamePositionDone = Replays
    BY <2>1, <2>2, ReplayAssumption DEF IInv, TypeOK
  <2> QED
    BY <2>3 DEF IInv, ErrorsCounted
<1> QED
  BY <1>1, Invariant, PTL
=============================================================================
