------------------------- MODULE FrameTickerProofs -------------------------
(***************************************************************************)
(* Proofs about FrameTicker, for every run ahead range and every bound.    *)
(***************************************************************************)
EXTENDS FrameTicker, TLAPS

Out == {"LEAVING", "LEFT", "POSTGAME"}

(* Before the game: nothing scheduled, frames 1 to InitialRunAhead - 1     *)
(* announced empty.                                                        *)
PregameInv ==
  localStatus = "PREGAME" =>
    /\ logicFrame <= 1
    /\ step # "head" => logicFrame = 0
    /\ lastFrame = 0
    /\ runAhead = InitialRunAhead
    /\ lastFrameCompleted = InitialRunAhead - 1
    /\ lastExecutionFrame = InitialRunAhead - 1

(* In the game: the frames completed end before the last execution frame,  *)
(* so whatever is scheduled next lands on a frame not yet announced.       *)
IngameInv ==
  localStatus = "INGAME" =>
    /\ logicFrame >= 1
    /\ lastFrameCompleted < lastExecutionFrame
    /\ step # "head" => lastFrame = logicFrame
    /\ lastFrame = logicFrame =>
         /\ lastFrameCompleted = lastExecutionFrame - 1
         /\ lastExecutionFrame > logicFrame
         /\ step # "logic" => lastExecutionFrame >= logicFrame + runAhead

(* On the way out: nothing is scheduled before leaveFrame any more.        *)
LeavingInv ==
  /\ (leaveFrame # None) <=> (localStatus \in Out)
  /\ localStatus \in Out => /\ leaveFrame <= lastExecutionFrame + 1
                            /\ leaveFrame > 0
  /\ localStatus = "LEAVING" =>
       /\ 1 <= logicFrame /\ logicFrame <= leaveFrame
       /\ step = "logic" => logicFrame < leaveFrame

WindowInv ==
  /\ lastFrame <= logicFrame
  /\ lastExecutionFrame <= logicFrame + MaxRunAhead
  /\ \A f \in Frames : commandCount[f] > 0 => f <= lastExecutionFrame + 1

IInv ==
  /\ TypeOK
  /\ PregameInv
  /\ IngameInv
  /\ LeavingInv
  /\ WindowInv
  /\ NoFrameSkipped
  /\ CountsAreFinalInGame

-----------------------------------------------------------------------------

(* The next execution frame is inside the frames modelled, ahead of the    *)
(* logic frame by the run ahead, and never before an earlier one.          *)
LEMMA Numbers ==
  ASSUME TypeOK, WindowInv
  PROVE  /\ logicFrame \in Nat /\ logicFrame <= MaxFrame
         /\ lastFrame \in Nat /\ lastExecutionFrame \in Nat
         /\ lastFrameCompleted \in Nat
         /\ leaveFrame \in Frames \cup {None}
         /\ runAhead \in Nat \ {0} /\ runAhead <= MaxRunAhead
         /\ lastExecutionFrame <= logicFrame + MaxRunAhead
         /\ ExecutionFrame \in Nat
         /\ ExecutionFrame >= lastExecutionFrame
         /\ ExecutionFrame >= logicFrame + runAhead
         /\ ExecutionFrame <= logicFrame + MaxRunAhead
         /\ ExecutionFrame \in Frames
         /\ ExecutionFrame + 1 \in Frames
         /\ RunAheadFrame = ExecutionFrame
  BY RunAheadAssumption, BoundAssumption
     DEF TypeOK, WindowInv, ExecutionFrame, Frames, RunAheads, RunAheadFrame

LEMMA InitInv == Init => IInv
  BY RunAheadAssumption, BoundAssumption
     DEF Init, IInv, TypeOK, PregameInv, IngameInv, LeavingInv, WindowInv, Out,
         NoFrameSkipped, CountsAreFinalInGame, AnnouncedFrames, Frames, RunAheads,
         None

(* A command scheduled at the execution frame or one beyond it, with no    *)
(* announcement in the same step, keeps the invariant.                     *)
LEMMA ScheduleInv ==
  ASSUME IInv, NEW e \in {ExecutionFrame, ExecutionFrame + 1},
         Schedule(e),
         localStatus = "INGAME" \/ (localStatus # "PREGAME" /\ e = ExecutionFrame + 1),
         lastExecutionFrame' = ExecutionFrame,
         UNCHANGED <<logicFrame, runAhead, lastFrameCompleted, lastFrame,
                     localStatus, waitingFrame, announced, leaveFrame>>,
         step # "logic",
         step' = step \/ (step # "head" /\ step' \in {"tail", "manager", "ready"})
  PROVE  IInv'
<1> DEFINE E == ExecutionFrame
<1>1. TypeOK /\ PregameInv /\ IngameInv /\ LeavingInv /\ WindowInv
      /\ NoFrameSkipped /\ CountsAreFinalInGame
  BY DEF IInv
<1>2. /\ E \in Nat /\ E >= lastExecutionFrame /\ E >= logicFrame + runAhead
      /\ E <= logicFrame + MaxRunAhead /\ E \in Frames /\ E + 1 \in Frames
      /\ logicFrame \in Nat /\ runAhead \in Nat \ {0} /\ lastExecutionFrame \in Nat
      /\ lastFrame \in Nat /\ lastFrameCompleted \in Nat /\ e \in Frames
      /\ leaveFrame \in Frames \cup {None}
  BY <1>1, Numbers
<1>3. localStatus = "INGAME" /\ lastFrame = logicFrame => E = lastExecutionFrame
  BY <1>1, <1>2 DEF IngameInv, ExecutionFrame
<1>4. TypeOK'
  BY <1>1, <1>2 DEF TypeOK, Schedule
<1>5. PregameInv'
  BY <1>1 DEF PregameInv
<1>6. IngameInv'
  BY <1>1, <1>2, <1>3 DEF IngameInv
<1>7. LeavingInv'
  BY <1>1, <1>2 DEF LeavingInv, Out, Frames, None
<1>8. WindowInv'
  <2>1. \A f \in Frames : commandCount'[f] > 0 => f = e \/ commandCount[f] > 0
    BY <1>1, <1>2 DEF TypeOK, Schedule
  <2>2. \A f \in Frames : f \in Nat
    BY RunAheadAssumption, BoundAssumption DEF Frames
  <2> QED BY <1>1, <1>2, <2>1, <2>2 DEF WindowInv
<1>9. NoFrameSkipped'
  BY <1>1 DEF NoFrameSkipped, AnnouncedFrames
<1>10. e \notin AnnouncedFrames \ {leaveFrame}
  <2>1. CASE leaveFrame = None
    BY <1>1, <1>2, <2>1 DEF TypeOK, NoFrameSkipped, IngameInv, LeavingInv, Out
  <2>2. CASE leaveFrame # None
    BY <1>1, <1>2, <2>2 DEF NoFrameSkipped, LeavingInv, Out, Frames
  <2> QED BY <2>1, <2>2
<1>11. CountsAreFinalInGame'
  BY <1>1, <1>10 DEF TypeOK, CountsAreFinalInGame, AnnouncedFrames, Schedule
<1> QED BY <1>4, <1>5, <1>6, <1>7, <1>8, <1>9, <1>11 DEF IInv

(* Ticking announces exactly the frames after the last completed one.      *)
LEMMA FrameTickInv == IInv /\ FrameTick => IInv'
<1> SUFFICES ASSUME IInv, FrameTick PROVE IInv'
  OBVIOUS
<1> DEFINE E == ExecutionFrame
           fs == (lastFrameCompleted + 1)..(E - 1)
<1>1. TypeOK /\ PregameInv /\ IngameInv /\ LeavingInv /\ WindowInv
      /\ NoFrameSkipped /\ CountsAreFinalInGame
  BY DEF IInv
<1>2. /\ E \in Nat /\ E >= lastExecutionFrame /\ E >= logicFrame + runAhead
      /\ E <= logicFrame + MaxRunAhead /\ E \in Frames /\ runAhead \in Nat \ {0}
      /\ logicFrame \in Nat /\ lastFrame \in Nat /\ lastExecutionFrame \in Nat
      /\ lastFrameCompleted \in Nat /\ leaveFrame \in Frames \cup {None}
  BY <1>1, Numbers
<1>3. /\ step = "head" /\ step' = "tail"
      /\ UNCHANGED <<logicFrame, runAhead, waitingFrame, leaveFrame, commandCount>>
  BY DEF FrameTick
<1>4. TypeOK'
  BY <1>1, <1>2 DEF TypeOK, FrameTick, FramesToTick, Announce, StatusAtTick, None, Frames
<1>5. CASE ~Ticks
  <2>1. announced' = announced /\ lastFrameCompleted' = lastFrameCompleted
        /\ lastExecutionFrame' = lastExecutionFrame
    BY <1>1, <1>5 DEF FrameTick, FramesToTick, Announce, TypeOK
  <2>2. localStatus = "INGAME" => lastFrame = logicFrame
    BY <1>5 DEF Ticks, NewFrame, StatusAtTick
  <2>3. localStatus' = localStatus
    BY <1>5 DEF FrameTick, Ticks, NewFrame, StatusAtTick
  <2>4. localStatus = "PREGAME" => logicFrame = 0 /\ lastFrame' = lastFrame
    BY <1>1, <1>2, <1>5 DEF FrameTick, Ticks, NewFrame, StatusAtTick, PregameInv
  <2>5. PregameInv'
    BY <1>1, <1>2, <1>3, <2>1, <2>3, <2>4 DEF PregameInv
  <2>6. IngameInv'
    BY <1>1, <1>2, <1>3, <2>1, <2>2, <2>3 DEF IngameInv, FrameTick
  <2>7. LeavingInv'
    BY <1>1, <1>3, <2>1, <2>3 DEF LeavingInv, Out
  <2>8. WindowInv'
    BY <1>1, <1>2, <1>3, <2>1 DEF WindowInv, FrameTick
  <2>9. NoFrameSkipped' /\ CountsAreFinalInGame'
    BY <1>1, <1>3, <2>1 DEF NoFrameSkipped, CountsAreFinalInGame, AnnouncedFrames
  <2> QED BY <1>4, <2>5, <2>6, <2>7, <2>8, <2>9 DEF IInv
<1>6. CASE Ticks
  <2>1. localStatus' = "INGAME" /\ lastExecutionFrame' = E /\ lastFrame' = logicFrame
    BY <1>6 DEF FrameTick, Ticks, StatusAtTick
  <2>2. leaveFrame = None
    BY <1>1, <1>6 DEF Ticks, StatusAtTick, LeavingInv, Out
  <2>3. logicFrame >= 1 /\ lastFrameCompleted < E
    BY <1>1, <1>2, <1>6, RunAheadAssumption
       DEF Ticks, StatusAtTick, PregameInv, IngameInv
  <2>4. FramesToTick = fs
    BY <1>6 DEF FramesToTick
  <2>5. lastFrameCompleted' = E - 1
    BY <1>2, <2>3, <2>4 DEF FrameTick
  <2>6. \A f \in Frames : announced'[f] = IF f \in fs THEN commandCount[f]
                                                     ELSE announced[f]
    BY <1>3, <2>4 DEF FrameTick, Announce
  <2>7. AnnouncedFrames' = AnnouncedFrames \cup fs
    <3>1. fs \subseteq Frames
      BY <1>2, RunAheadAssumption, BoundAssumption DEF Frames
    <3>2. \A f \in fs : announced'[f] # None
      BY <1>1, <2>6, <3>1 DEF TypeOK, None
    <3> QED BY <2>6, <3>1, <3>2 DEF AnnouncedFrames
  <2>8. NoFrameSkipped'
    BY <1>1, <1>2, <1>3, <2>2, <2>3, <2>5, <2>7 DEF NoFrameSkipped
  <2>9. CountsAreFinalInGame'
    BY <1>1, <1>3, <2>6, <2>7 DEF CountsAreFinalInGame, AnnouncedFrames
  <2>10. PregameInv' /\ LeavingInv'
    BY <1>3, <2>1, <2>2 DEF PregameInv, LeavingInv, Out
  <2>11. IngameInv'
    BY <1>2, <1>3, <2>1, <2>3, <2>5 DEF IngameInv
  <2>12. WindowInv'
    BY <1>1, <1>2, <1>3, <2>1 DEF WindowInv, Frames
  <2> QED BY <1>4, <2>8, <2>9, <2>10, <2>11, <2>12 DEF IInv
<1> QED BY <1>5, <1>6

(* Leaving announces two frames more, up to the one it leaves on.          *)
LEMMA LeaveInv == IInv /\ Leave => IInv'
<1> SUFFICES ASSUME IInv, Leave PROVE IInv'
  OBVIOUS
<1> DEFINE E == ExecutionFrame
           fs == FramesToTick \cup {E, E + 1}
<1>1. TypeOK /\ PregameInv /\ IngameInv /\ LeavingInv /\ WindowInv
      /\ NoFrameSkipped /\ CountsAreFinalInGame
  BY DEF IInv
<1>2. /\ E \in Nat /\ E >= lastExecutionFrame /\ E >= logicFrame + runAhead
      /\ E <= logicFrame + MaxRunAhead /\ E \in Frames /\ E + 1 \in Frames
      /\ logicFrame \in Nat /\ lastFrame \in Nat /\ lastExecutionFrame \in Nat
      /\ lastFrameCompleted \in Nat /\ runAhead \in Nat \ {0}
  BY <1>1, Numbers
<1>3. /\ localStatus' = "LEAVING" /\ leaveFrame' = E + 1 /\ lastExecutionFrame' = E
      /\ lastFrameCompleted' = E /\ lastFrame' = logicFrame
      /\ step \in {"head", "tail"}
      /\ UNCHANGED <<step, logicFrame, runAhead, waitingFrame>>
  BY DEF Leave
<1>4. localStatus = "INGAME" \/ (localStatus = "PREGAME" /\ logicFrame = 1)
  BY DEF Leave, StatusAtTick
<1>5. leaveFrame = None
  BY <1>1, <1>4 DEF LeavingInv, Out
<1>6. lastFrameCompleted < E
  BY <1>1, <1>2, <1>4, RunAheadAssumption DEF PregameInv, IngameInv
<1>7. fs = (lastFrameCompleted + 1)..(E + 1)
  <2>1. CASE Ticks
    BY <1>2, <1>6, <2>1 DEF FramesToTick
  <2>2. CASE ~Ticks
    <3>1. localStatus = "INGAME" /\ lastFrame = logicFrame
      BY <1>4, <2>2 DEF Ticks, NewFrame, StatusAtTick
    <3>2. lastFrameCompleted = E - 1
      BY <1>1, <1>2, <1>3, <3>1 DEF IngameInv, ExecutionFrame
    <3> QED BY <1>2, <2>2, <3>2 DEF FramesToTick
  <2> QED BY <2>1, <2>2
<1>8. \A f \in Frames : /\ announced'[f] = IF f \in fs THEN commandCount'[f]
                                                     ELSE announced[f]
                        /\ commandCount'[f] = IF f = E + 1 THEN commandCount[f] + 1
                                                           ELSE commandCount[f]
  BY <1>1, <1>2 DEF Leave, Announce, Schedule, TypeOK
<1>9. TypeOK'
  <2>1. commandCount' \in [Frames -> Nat]
    BY <1>1, <1>2 DEF Leave, Schedule, TypeOK
  <2>2. announced' \in [Frames -> Nat \cup {None}]
    BY <1>1, <2>1 DEF Leave, Announce, TypeOK
  <2> QED BY <1>1, <1>2, <1>3, <2>1, <2>2 DEF TypeOK
<1>10. AnnouncedFrames' = AnnouncedFrames \cup fs
  <2>1. fs \subseteq Frames
    BY <1>2, <1>7, RunAheadAssumption, BoundAssumption DEF Frames
  <2>2. \A f \in fs : announced'[f] # None
    BY <1>8, <1>9, <2>1 DEF TypeOK, None
  <2> QED BY <1>8, <2>1, <2>2 DEF AnnouncedFrames
<1>11. NoFrameSkipped'
  BY <1>1, <1>2, <1>3, <1>5, <1>6, <1>7, <1>10 DEF NoFrameSkipped, None
<1>12. CountsAreFinalInGame'
  <2>1. \A f \in AnnouncedFrames : f # E + 1 /\ f # leaveFrame
    BY <1>1, <1>2, <1>5, <1>6 DEF NoFrameSkipped, None
  <2> QED BY <1>1, <1>3, <1>8, <1>10, <2>1 DEF CountsAreFinalInGame, AnnouncedFrames
<1>13. PregameInv' /\ IngameInv'
  BY <1>3 DEF PregameInv, IngameInv
<1>14. LeavingInv'
  <2>1. logicFrame >= 1
    BY <1>1, <1>4 DEF IngameInv
  <2> QED BY <1>2, <1>3, <2>1 DEF LeavingInv, Out, None
<1>15. WindowInv'
  <2>1. \A f \in Frames : f \in Nat
    BY <1>2 DEF Frames
  <2> QED BY <1>1, <1>2, <1>3, <1>8, <2>1 DEF WindowInv
<1> QED BY <1>9, <1>11, <1>12, <1>13, <1>14, <1>15 DEF IInv

(* The steps that neither schedule nor announce.                           *)
LEMMA QuietInv ==
  ASSUME IInv,
         ManagerUpdate \/ RelayCommands \/ WaitForFrame \/ EndOfGame
           \/ GameLogicUpdate \/ (UpdateRunAhead /\ UNCHANGED commandCount)
           \/ UNCHANGED vars
  PROVE  IInv'
<1>1. TypeOK /\ PregameInv /\ IngameInv /\ LeavingInv /\ WindowInv
      /\ NoFrameSkipped /\ CountsAreFinalInGame
  BY DEF IInv
<1>2. /\ ExecutionFrame >= lastExecutionFrame /\ ExecutionFrame >= logicFrame + runAhead
      /\ ExecutionFrame <= logicFrame + MaxRunAhead /\ ExecutionFrame \in Nat
      /\ logicFrame \in Nat /\ lastFrame \in Nat /\ lastExecutionFrame \in Nat
      /\ lastFrameCompleted \in Nat /\ runAhead \in Nat \ {0}
      /\ leaveFrame \in Frames \cup {None}
  BY <1>1, Numbers
<1>3. NoFrameSkipped' /\ CountsAreFinalInGame'
  <2>1. UNCHANGED <<announced, commandCount, leaveFrame, lastFrameCompleted>>
    BY DEF ManagerUpdate, RelayCommands, WaitForFrame, EndOfGame, GameLogicUpdate,
           UpdateRunAhead, vars
  <2> QED BY <1>1, <2>1 DEF NoFrameSkipped, CountsAreFinalInGame, AnnouncedFrames
<1>4. CASE ManagerUpdate \/ WaitForFrame \/ UNCHANGED vars
  BY <1>1, <1>3, <1>4 DEF ManagerUpdate, WaitForFrame, vars, IInv, TypeOK, PregameInv,
       IngameInv, LeavingInv, Out, WindowInv
<1>5. CASE RelayCommands \/ EndOfGame
  <2>1. TypeOK' /\ WindowInv'
    BY <1>1, <1>5 DEF RelayCommands, NewRunAheads, EndOfGame, TypeOK, WindowInv
  <2>2. PregameInv' /\ IngameInv'
    BY <1>1, <1>5 DEF RelayCommands, NewRunAheads, EndOfGame, PregameInv, IngameInv
  <2>3. LeavingInv'
    <3>1. CASE localStatus = "LEAVING"
      <4>1. leaveFrame \in Nat
        BY <1>1, <1>2, <3>1 DEF LeavingInv, Out, Frames, None
      <4> QED BY <1>1, <1>2, <1>5, <3>1, <4>1 DEF RelayCommands, NewRunAheads, EndOfGame, LeavingInv, Out
    <3>2. CASE localStatus # "LEAVING"
      BY <1>1, <1>5, <3>2 DEF RelayCommands, NewRunAheads, EndOfGame, LeavingInv, Out
    <3> QED BY <3>1, <3>2
  <2> QED BY <1>3, <2>1, <2>2, <2>3 DEF IInv
<1>6. CASE GameLogicUpdate
  <2>1. TypeOK' /\ WindowInv' /\ PregameInv'
    BY <1>1, <1>2, <1>6, RunAheadAssumption, BoundAssumption
       DEF GameLogicUpdate, TypeOK, WindowInv, PregameInv
  <2>2. IngameInv'
    BY <1>1, <1>2, <1>6 DEF GameLogicUpdate, IngameInv, WindowInv
  <2>3. LeavingInv'
    <3>1. localStatus \in Out => leaveFrame \in Nat
      BY <1>1, <1>2 DEF LeavingInv, Out, Frames, None
    <3> QED BY <1>1, <1>2, <1>6, <3>1 DEF GameLogicUpdate, LeavingInv, Out
  <2> QED BY <1>3, <2>1, <2>2, <2>3 DEF IInv
<1>7. CASE UpdateRunAhead /\ UNCHANGED commandCount
  <2>1. localStatus = "INGAME" => ExecutionFrame = lastExecutionFrame
    BY <1>1, <1>2, <1>7 DEF UpdateRunAhead, IngameInv, ExecutionFrame
  <2>2. lastExecutionFrame' = lastExecutionFrame
    BY <1>7, <2>1 DEF UpdateRunAhead
  <2> QED
    BY <1>1, <1>3, <1>7, <2>2 DEF UpdateRunAhead, IInv, TypeOK, PregameInv, IngameInv,
         LeavingInv, Out, WindowInv
<1> QED BY <1>4, <1>5, <1>6, <1>7

LEMMA NextInv == IInv /\ [Next]_vars => IInv'
<1> SUFFICES ASSUME IInv, [Next]_vars PROVE IInv'
  OBVIOUS
<1>1. CASE IssueCommand
  BY <1>1, ScheduleInv DEF IssueCommand
<1>2. CASE FrameTick
  BY <1>2, FrameTickInv
<1>3. CASE Leave
  BY <1>3, LeaveInv
<1>4. CASE UpdateRunAhead
  <2>1. RunAheadFrame = ExecutionFrame
    BY Numbers DEF IInv
  <2>2. CASE localStatus = "INGAME" /\ Schedule(RunAheadFrame)
    BY <1>4, <2>1, <2>2, ScheduleInv DEF UpdateRunAhead
  <2>3. CASE UNCHANGED commandCount
    BY <1>4, <2>3, QuietInv
  <2> QED BY <1>4, <2>2, <2>3 DEF UpdateRunAhead
<1>5. CASE DestroyPlayer
  BY <1>5, ScheduleInv DEF DestroyPlayer, DestroyFrame
<1>6. CASE ManagerUpdate \/ RelayCommands \/ WaitForFrame \/ EndOfGame
             \/ GameLogicUpdate \/ UNCHANGED vars
  BY <1>6, QuietInv
<1> QED BY <1>1, <1>2, <1>3, <1>4, <1>5, <1>6 DEF Next

(* IInv is an invariant of the specification.                              *)
THEOREM Invariance == Spec => []IInv
<1>1. Init => IInv
  BY InitInv
<1>2. IInv /\ [Next]_vars => IInv'
  BY NextInv
<1> QED BY <1>1, <1>2, PTL DEF Spec

-----------------------------------------------------------------------------

(* Every variable stays in its type, for every run ahead range.            *)
THEOREM TypeCorrect == Spec => []TypeOK
<1>1. IInv => TypeOK
  BY DEF IInv
<1> QED BY <1>1, Invariance, PTL

(* An announced command count is final for every frame but the one the     *)
(* local player leaves on: getExecutionFrame never goes back to a frame    *)
(* processFrameTick has announced, however the run ahead changes.          *)
THEOREM CountsFinal == Spec => []CountsAreFinalInGame
<1>1. IInv => CountsAreFinalInGame
  BY DEF IInv
<1> QED BY <1>1, Invariance, PTL

(* The frames announced have no gap, and a leaving player announces all    *)
(* of them up to the frame on which the others see it leave.               *)
THEOREM NoGap == Spec => []NoFrameSkipped
<1>1. IInv => NoFrameSkipped
  BY DEF IInv
<1> QED BY <1>1, Invariance, PTL

(* A player only executes frames whose count it has announced.             *)
THEOREM ExecutedAfterAnnounced == Spec => []ExecutesOnlyAnnounced
<1>1. ASSUME IInv, step = "logic", localStatus \in {"INGAME", "LEAVING"}
      PROVE  logicFrame \in AnnouncedFrames
  <2>1. /\ IngameInv /\ LeavingInv /\ NoFrameSkipped /\ WindowInv
        /\ logicFrame \in Nat /\ lastFrameCompleted \in Nat
        /\ lastExecutionFrame \in Nat
        /\ leaveFrame \in Frames \cup {None}
    BY <1>1, Numbers DEF IInv
  <2>2. CASE localStatus = "INGAME"
    BY <1>1, <2>1, <2>2 DEF IngameInv, LeavingInv, Out, NoFrameSkipped
  <2>3. CASE localStatus = "LEAVING"
    <3>1. leaveFrame \in Nat /\ leaveFrame # None
      BY <2>1, <2>3 DEF LeavingInv, Out, Frames, None
    <3>2. logicFrame >= 1
      BY <1>1, <2>1, <2>3 DEF IInv, LeavingInv
    <3> QED BY <1>1, <2>1, <2>3, <3>1, <3>2 DEF LeavingInv, NoFrameSkipped
  <2> QED BY <1>1, <2>2, <2>3
<1>2. IInv => ExecutesOnlyAnnounced
  BY <1>1 DEF ExecutesOnlyAnnounced
<1> QED BY <1>2, Invariance, PTL

(* No command is scheduled beyond logicFrame + MaxRunAhead + 1: the        *)
(* premise of the size of the ring of frames, FRAME_DATA_LENGTH.           *)
THEOREM BoundedWindow == Spec => []ScheduleWindow
<1>1. IInv => ScheduleWindow
  BY RunAheadAssumption DEF IInv, TypeOK, WindowInv, ScheduleWindow, Frames
<1> QED BY <1>1, Invariance, PTL

(* Whatever a step schedules lands at the run ahead or later.              *)
THEOREM CommandsInTime == Spec => CommandsTravelInTime
<1> DEFINE A == \A f \in Frames :
                  commandCount'[f] # commandCount[f] => f >= logicFrame + runAhead
<1>1. ASSUME IInv, [Next]_vars PROVE A
  <2>1. /\ commandCount \in [Frames -> Nat] /\ logicFrame \in Nat /\ runAhead \in Nat
        /\ ExecutionFrame \in Nat /\ ExecutionFrame >= logicFrame + runAhead
        /\ RunAheadFrame = ExecutionFrame
    BY <1>1, Numbers DEF IInv, TypeOK
  <2>2. \/ UNCHANGED commandCount
        \/ \E e \in {ExecutionFrame, ExecutionFrame + 1} : Schedule(e)
    BY <1>1, <2>1 DEF Next, vars, IssueCommand, FrameTick, Leave, UpdateRunAhead,
       DestroyPlayer, DestroyFrame, ManagerUpdate, RelayCommands, WaitForFrame,
       EndOfGame, GameLogicUpdate
  <2> QED BY <2>1, <2>2 DEF Schedule
<1>2. IInv /\ [Next]_vars => [A]_vars
  BY <1>1
<1> QED BY <1>2, Invariance, PTL DEF Spec, CommandsTravelInTime

=============================================================================
