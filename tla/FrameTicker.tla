---------------------------- MODULE FrameTicker ----------------------------
(***************************************************************************)
(* The outgoing half of the lockstep protocol, as one player runs it in    *)
(* Network.cpp: for which logic frame a local command is scheduled, and    *)
(* when the number of commands scheduled for a frame is announced to the   *)
(* other players (the FRAMEINFO command).  A peer executes a frame once it *)
(* holds as many commands as were announced, so an announcement is a       *)
(* promise that no further command will be scheduled for that frame.       *)
(*                                                                         *)
(* One pass of GameEngine::update is split at the points where the other   *)
(* players' commands, the timers or the user choose what happens:          *)
(*   head, tail  Network::GetCommandsFromCommandList, before and after the *)
(*               FRAME_TICK message of this pass                           *)
(*   manager     ConnectionManager::update (the disconnect manager)        *)
(*   ready       the AllCommandsReady test of Network::update              *)
(*   logic       GameLogic::update                                         *)
(* What the peers have sent is left open: any frame may be ready, and the  *)
(* frame executed may carry any run ahead command.                         *)
(***************************************************************************)
EXTENDS Integers

CONSTANTS
  MinRunAhead,      \* MIN_RUNAHEAD
  MaxRunAhead,      \* MAX_FRAMES_AHEAD / 2
  InitialRunAhead,  \* the run ahead Network::init chooses
  MaxFrame,         \* bound: the last logic frame explored
  MaxCommands       \* bound: commands scheduled by this player for one frame

ASSUME RunAheadAssumption ==
  /\ MinRunAhead \in Nat \ {0}
  /\ MaxRunAhead \in Nat
  /\ InitialRunAhead \in MinRunAhead..MaxRunAhead

ASSUME BoundAssumption == MaxFrame \in Nat /\ MaxCommands \in Nat

RunAheads == MinRunAhead..MaxRunAhead
Frames    == 0..(MaxFrame + MaxRunAhead + 1)
None      == -1     \* no count announced; also FrameData's initial count

VARIABLES
  step,                \* where this pass of GameEngine::update is
  logicFrame,          \* TheGameLogic->getFrame()
  runAhead,            \* m_runAhead
  lastExecutionFrame,  \* m_lastExecutionFrame
  lastFrameCompleted,  \* m_lastFrameCompleted
  lastFrame,           \* m_lastFrame
  localStatus,         \* m_localStatus
  waitingFrame,        \* DisconnectManager::m_lastFrame
  commandCount,        \* local commands scheduled for each frame
  announced,           \* the count announced for each frame, or None
  leaveFrame           \* frame of the local PLAYERLEAVE command, or None

vars == <<step, logicFrame, runAhead, lastExecutionFrame, lastFrameCompleted,
          lastFrame, localStatus, waitingFrame, commandCount, announced,
          leaveFrame>>

(* Network::init and Network::parseUserList: the frames the initial run    *)
(* ahead jumps over are zeroed on every player, as if announced empty.     *)
Init ==
  /\ step = "head"
  /\ logicFrame = 0
  /\ runAhead = InitialRunAhead
  /\ lastExecutionFrame = InitialRunAhead - 1
  /\ lastFrameCompleted = InitialRunAhead - 1
  /\ lastFrame = 0
  /\ localStatus = "PREGAME"
  /\ waitingFrame = 0
  /\ commandCount = [f \in Frames |-> 0]
  /\ announced = [f \in Frames |->
                    IF f \in 1..(InitialRunAhead - 1) THEN 0 ELSE None]
  /\ leaveFrame = None

-----------------------------------------------------------------------------

(* Network::getExecutionFrame also stores what it returns: every action    *)
(* that calls it has lastExecutionFrame' = ExecutionFrame.                 *)
ExecutionFrame ==
  IF logicFrame + runAhead > lastExecutionFrame
    THEN logicFrame + runAhead
    ELSE lastExecutionFrame

(* A local command joins the local FrameData of frame f.                   *)
Schedule(f) ==
  /\ commandCount[f] < MaxCommands
  /\ commandCount' = [commandCount EXCEPT ![f] = @ + 1]

(* ConnectionManager::processFrameTick for every frame of fs.              *)
Announce(fs) ==
  announced' = [f \in Frames |-> IF f \in fs THEN commandCount'[f]
                                             ELSE announced[f]]

-----------------------------------------------------------------------------

(* A command of the local player: sendLocalGameMessage(getExecutionFrame). *)
IssueCommand ==
  /\ step \in {"head", "tail"}
  /\ localStatus = "INGAME"
  /\ Schedule(ExecutionFrame)
  /\ lastExecutionFrame' = ExecutionFrame
  /\ UNCHANGED <<step, logicFrame, runAhead, lastFrameCompleted, lastFrame,
                 localStatus, waitingFrame, announced, leaveFrame>>

(* The first part of processCommand, run for every message that is not a   *)
(* network command: the first one of a new logic frame ticks frames.       *)
StatusAtTick ==
  IF localStatus = "PREGAME" /\ logicFrame = 1 THEN "INGAME" ELSE localStatus

NewFrame == lastFrame # logicFrame \/ localStatus = "PREGAME"

Ticks == NewFrame /\ StatusAtTick = "INGAME"

(* Mutant of FramesToTick: it forgets which frames it has done.            *)
TicksLastOnly == IF Ticks THEN {ExecutionFrame - 1} ELSE {}

FramesToTick ==
  IF Ticks THEN (lastFrameCompleted + 1)..(ExecutionFrame - 1) ELSE {}

FrameTick ==
  /\ step = "head"
  /\ step' = "tail"
  /\ localStatus' = StatusAtTick
  /\ UNCHANGED commandCount
  /\ Announce(FramesToTick)
  /\ lastExecutionFrame' = IF Ticks THEN ExecutionFrame ELSE lastExecutionFrame
  /\ lastFrameCompleted' = IF FramesToTick = {} THEN lastFrameCompleted
                                                ELSE ExecutionFrame - 1
  /\ lastFrame' = IF NewFrame /\ StatusAtTick # "PREGAME" THEN logicFrame
                                                          ELSE lastFrame
  /\ UNCHANGED <<logicFrame, runAhead, waitingFrame, leaveFrame>>

(* processCommand of MSG_CLEAR_GAME_DATA: the local player leaves.         *)
Leave ==
  /\ step \in {"head", "tail"}
  /\ StatusAtTick = "INGAME"
  /\ localStatus' = "LEAVING"
  /\ Schedule(ExecutionFrame + 1)
  /\ Announce(FramesToTick \cup {ExecutionFrame, ExecutionFrame + 1})
  /\ leaveFrame' = ExecutionFrame + 1
  /\ lastExecutionFrame' = ExecutionFrame
  /\ lastFrameCompleted' = ExecutionFrame
  /\ lastFrame' = logicFrame
  /\ UNCHANGED <<step, logicFrame, runAhead, waitingFrame>>

(* Mutant of RunAheadFrame: the error its comment in the code describes.   *)
NearRunAheadFrame == logicFrame + runAhead

(* ConnectionManager::updateRunAhead: when its timer is due the packet     *)
(* router schedules one RUNAHEAD command in every player's frame.          *)
RunAheadFrame ==
  IF ExecutionFrame > logicFrame + runAhead THEN ExecutionFrame
                                            ELSE logicFrame + runAhead

UpdateRunAhead ==
  /\ step = "tail"
  /\ step' = "manager"
  /\ IF localStatus = "INGAME"
       THEN /\ lastExecutionFrame' = ExecutionFrame
            /\ Schedule(RunAheadFrame) \/ UNCHANGED commandCount
       ELSE UNCHANGED <<lastExecutionFrame, commandCount>>
  /\ UNCHANGED <<logicFrame, runAhead, lastFrameCompleted, lastFrame,
                 localStatus, waitingFrame, announced, leaveFrame>>

DestroyFrame == ExecutionFrame + 1

(* DisconnectManager::sendPlayerDestruct: while the game waits on a frame, *)
(* every player timed out or voted out is put out of the game, and a       *)
(* DESTROYPLAYER command scheduled for it, in whatever status the local    *)
(* player is.                                                              *)
DestroyPlayer ==
  /\ step = "manager"
  /\ localStatus # "PREGAME"
  /\ waitingFrame = logicFrame
  /\ Schedule(DestroyFrame)
  /\ lastExecutionFrame' = ExecutionFrame
  /\ UNCHANGED <<step, logicFrame, runAhead, lastFrameCompleted, lastFrame,
                 localStatus, waitingFrame, announced, leaveFrame>>

(* The end of liteupdate, which runs DisconnectManager::update in a game.  *)
ManagerUpdate ==
  /\ step = "manager"
  /\ step' = "ready"
  /\ waitingFrame' = IF localStatus = "PREGAME" THEN waitingFrame
                                                ELSE logicFrame
  /\ UNCHANGED <<logicFrame, runAhead, lastExecutionFrame, lastFrameCompleted,
                 lastFrame, localStatus, commandCount, announced, leaveFrame>>

(* The run ahead of a RUNAHEAD command, clamped by updateRunAhead.         *)
NewRunAheads == RunAheads

(* The frame is ready: RelayCommandsToCommandList executes its RUNAHEAD    *)
(* and PLAYERLEAVE commands and lets GameLogic run.                        *)
RelayCommands ==
  /\ step = "ready"
  /\ step' = "logic"
  /\ IF localStatus = "PREGAME"
       THEN UNCHANGED runAhead
       ELSE runAhead' \in NewRunAheads
  /\ localStatus' = IF localStatus = "LEAVING" /\ logicFrame = leaveFrame
                      THEN "LEFT" ELSE localStatus
  /\ UNCHANGED <<logicFrame, lastExecutionFrame, lastFrameCompleted, lastFrame,
                 waitingFrame, commandCount, announced, leaveFrame>>

(* The frame is not ready, or it is too early for it.  isFrameDataReady    *)
(* lets a player that has left run on.                                     *)
WaitForFrame ==
  /\ step = "ready"
  /\ step' = IF localStatus = "LEFT" THEN "logic" ELSE "head"
  /\ UNCHANGED <<logicFrame, runAhead, lastExecutionFrame, lastFrameCompleted,
                 lastFrame, localStatus, waitingFrame, commandCount, announced,
                 leaveFrame>>

(* endOfGameCheck, once canILeave finds all queues empty.                  *)
EndOfGame ==
  /\ step = "ready"
  /\ localStatus = "LEFT"
  /\ localStatus' = "POSTGAME"
  /\ step' = "done"
  /\ UNCHANGED <<logicFrame, runAhead, lastExecutionFrame, lastFrameCompleted,
                 lastFrame, waitingFrame, commandCount, announced, leaveFrame>>

(* GameEngine::update lets GameLogic::update run, which counts the frame.  *)
GameLogicUpdate ==
  /\ step = "logic"
  /\ logicFrame < MaxFrame
  /\ logicFrame' = logicFrame + 1
  /\ step' = "head"
  /\ UNCHANGED <<runAhead, lastExecutionFrame, lastFrameCompleted, lastFrame,
                 localStatus, waitingFrame, commandCount, announced, leaveFrame>>

Next ==
  \/ IssueCommand
  \/ FrameTick
  \/ Leave
  \/ UpdateRunAhead
  \/ DestroyPlayer
  \/ ManagerUpdate
  \/ RelayCommands
  \/ WaitForFrame
  \/ EndOfGame
  \/ GameLogicUpdate

Spec == Init /\ [][Next]_vars

-----------------------------------------------------------------------------

TypeOK ==
  /\ step \in {"head", "tail", "manager", "ready", "logic", "done"}
  /\ logicFrame \in 0..MaxFrame
  /\ runAhead \in RunAheads
  /\ lastExecutionFrame \in Nat
  /\ lastFrameCompleted \in Nat
  /\ lastFrame \in Nat
  /\ localStatus \in {"PREGAME", "INGAME", "LEAVING", "LEFT", "POSTGAME"}
  /\ waitingFrame \in Nat
  /\ commandCount \in [Frames -> Nat]
  /\ announced \in [Frames -> Nat \cup {None}]
  /\ leaveFrame \in Frames \cup {None}

AnnouncedFrames == {f \in Frames : announced[f] # None}

(* An announced count is final: no command is scheduled later for a frame  *)
(* whose count was sent, whatever happens to the run ahead in between.     *)
(* The frame a player leaves on is not covered: DestroyPlayer, in status   *)
(* "LEAVING", schedules its command for that very frame.                   *)
CountsAreFinalInGame ==
  \A f \in AnnouncedFrames \ {leaveFrame} : announced[f] = commandCount[f]

(* The frames announced never have a gap, and they reach up to the frame   *)
(* on which a leaving player is gone: no peer has to wait for a count that *)
(* will not be sent.                                                       *)
NoFrameSkipped ==
  AnnouncedFrames =
    IF leaveFrame = None THEN 1..lastFrameCompleted ELSE 1..leaveFrame

(* A player never executes a frame before its own count for that frame is  *)
(* out: the others can always follow it.                                   *)
ExecutesOnlyAnnounced ==
  step = "logic" /\ localStatus \in {"INGAME", "LEAVING"} =>
    logicFrame \in AnnouncedFrames

(* Commands reach at most one frame beyond the largest run ahead: what     *)
(* FRAME_DATA_LENGTH is sized for.                                         *)
ScheduleWindow ==
  \A f \in Frames :
    commandCount[f] > 0 => f <= logicFrame + MaxRunAhead + 1

(* A command always gets at least the current run ahead as time to travel, *)
(* and is never added to a frame that was announced in an earlier step.    *)
CommandsTravelInTime ==
  [][\A f \in Frames :
       commandCount'[f] # commandCount[f] => f >= logicFrame + runAhead]_vars

=============================================================================
