----------------------------- MODULE FrameSync -----------------------------
(***************************************************************************)
(* The lockstep protocol between the players of one game: ConnectionManager*)
(* with the FrameData each player keeps of every player, joined to the     *)
(* scheduling of commands in Network (module FrameTicker has its details). *)
(*                                                                         *)
(* Commands and command counts travel through the packet router, which     *)
(* passes them on.  The network is the set of messages sent so far: a      *)
(* message may arrive at any later time, in any order, any number of       *)
(* times, or not yet.  That covers lost datagrams and the resending in     *)
(* Connection as well as duplicates of messages handled long ago.          *)
(*                                                                         *)
(* A player's pass of Network::update that finds its frame ready, the      *)
(* GameLogic update after it, and the frame tick at the start of the next  *)
(* pass are one step, Advance: what may happen in between, a command the   *)
(* player schedules before the tick, gets the same frame after it.         *)
(* Players may leave, the packet router may not.                           *)
(***************************************************************************)
EXTENDS Integers, Sequences, FiniteSets, FiniteSetsExt

CONSTANTS
  Players,
  Router,           \* m_packetRouterSlot, on every player
  MinRunAhead,      \* MIN_RUNAHEAD
  MaxRunAhead,      \* MAX_FRAMES_AHEAD / 2
  InitialRunAhead,
  FramesToKeep,     \* FRAMES_TO_KEEP
  FrameDataLength,  \* FRAME_DATA_LENGTH
  Leavers,          \* bound: the players that may leave
  MaxFrame,         \* bound: the last frame executed
  MaxCommands       \* bound: MaxCommands[p] commands are scheduled by p

(* MAX_FRAMES_AHEAD / 2 + 1 frames kept and two rings' worth of run ahead  *)
(* satisfy the last conjunct: 3M/2 + 3 <= 2(M + 1) for every even M >= 2.  *)
ASSUME SizeAssumption ==
  /\ Router \in Players
  /\ Leavers \subseteq Players \ {Router}
  /\ MinRunAhead \in Nat \ {0}
  /\ MaxRunAhead \in Nat
  /\ InitialRunAhead \in MinRunAhead..MaxRunAhead
  /\ FramesToKeep \in Nat /\ FramesToKeep > MaxRunAhead
  /\ FrameDataLength \in Nat
  /\ MaxCommands \in [Players -> Nat]
  /\ FrameDataLength >= FramesToKeep + 2 * MaxRunAhead + 2

None == -1

VARIABLES
  frame,          \* TheGameLogic->getFrame() of each player
  runAhead,       \* Network::m_runAhead
  lastExecution,  \* Network::m_lastExecutionFrame
  lastCompleted,  \* Network::m_lastFrameCompleted
  status,         \* Network::m_localStatus
  frameData,      \* frameData[p][q][slot]: what p holds of q's commands
  quitFrame,      \* quitFrame[p][q]: when p deletes that data, or None
  net,            \* messages sent
  scheduled,      \* history: every command scheduled
  executed        \* history: the bundles each player has executed

vars == <<frame, runAhead, lastExecution, lastCompleted, status, frameData,
          quitFrame, net, scheduled, executed>>

Slot(f) == f % FrameDataLength

(* FrameData::init: the count is "not announced", for the local player it  *)
(* always follows the commands held.                                       *)
EmptyFrame == [cmds |-> {}, count |-> None]

ZeroFrame == [cmds |-> {}, count |-> 0]

Cmd(p, f, kind, arg) ==
  [from |-> p, frame |-> f, kind |-> kind, arg |-> arg,
   id |-> Cardinality({c \in scheduled : c.from = p})]

FrameInfo(p, f, count) ==
  [from |-> p, frame |-> f, kind |-> "FRAMEINFO", arg |-> count]

Connected(p) == {q \in Players \ {p} : quitFrame[p][q] = None}

HasFrameData(p, q) == quitFrame[p][q] = None \/ frame[p] < quitFrame[p][q]

(* ConnectionManager::sendLocalCommand.                                    *)
Send(p, cmds) ==
  IF p = Router THEN [to : Connected(p), cmd : cmds]
                ELSE [to : {Router}, cmd : cmds]

(* Mutant of Relay: the router keeps what it receives to itself.           *)
NoRelay(p, cmd) == {}

(* ConnectionManager::sendRemoteCommand, for what is not for this player.  *)
Relay(p, cmd) ==
  IF p = Router THEN [to : Connected(p) \ {cmd.from}, cmd : {cmd}] ELSE {}

(* FrameData::addCommand: a command already held is dropped.               *)
AddCommand(fd, cmd) == [fd EXCEPT !.cmds = @ \cup {cmd}]

FrameDataReady(fd) == Cardinality(fd.cmds) = fd.count

(* FrameDataManager::getCommandCount of the local player's data.           *)
LocalCount(p, f) == Cardinality(frameData[p][p][Slot(f)].cmds)

ExecutionFrame(p) == Max({lastExecution[p], frame[p] + runAhead[p]})

(* The game has just reached frame 1: the frames below the initial run     *)
(* ahead were zeroed by parseUserList, and the first tick has announced    *)
(* that of the initial run ahead itself.                                   *)
Init ==
  /\ frame = [p \in Players |-> 1]
  /\ runAhead = [p \in Players |-> InitialRunAhead]
  /\ lastExecution = [p \in Players |-> 1 + InitialRunAhead]
  /\ lastCompleted = [p \in Players |-> InitialRunAhead]
  /\ status = [p \in Players |-> "INGAME"]
  /\ frameData = [p \in Players |-> [q \in Players |->
                   [s \in 0..(FrameDataLength - 1) |->
                      IF s \in 1..(InitialRunAhead - 1) THEN ZeroFrame
                                                        ELSE EmptyFrame]]]
  /\ quitFrame = [p \in Players |-> [q \in Players |-> None]]
  /\ net = UNION {Send(p, {FrameInfo(p, InitialRunAhead, 0)}) : p \in Players}
  /\ scheduled = {}
  /\ executed = [p \in Players |-> <<>>]

-----------------------------------------------------------------------------

(* A local command joins the local frame data and is sent to the others.   *)
Schedule(p, cmd, others) ==
  /\ Cardinality({c \in scheduled : c.from = p}) < MaxCommands[p]
  /\ scheduled' = scheduled \cup {cmd}
  /\ frameData' = [frameData EXCEPT ![p][p][Slot(cmd.frame)] =
                     AddCommand(@, cmd)]
  /\ lastExecution' = [lastExecution EXCEPT ![p] = ExecutionFrame(p)]
  /\ net' = net \cup Send(p, {cmd} \cup others)

IssueCommand(p) ==
  /\ status[p] = "INGAME"
  /\ Schedule(p, Cmd(p, ExecutionFrame(p), "GAMECOMMAND", 0), {})
  /\ UNCHANGED <<frame, runAhead, lastCompleted, status, quitFrame, executed>>

(* Mutant of NewRunAheads: the lower clamp is missing.                     *)
UnclampedRunAheads == 0..MaxRunAhead

(* ConnectionManager::updateRunAhead, on the packet router: what is        *)
(* computed from latencies and frame rates is clamped.                     *)
NewRunAheads == MinRunAhead..MaxRunAhead

ChangeRunAhead(p) ==
  /\ p = Router
  /\ status[p] = "INGAME"
  /\ \E r \in NewRunAheads :
       Schedule(p, Cmd(p, ExecutionFrame(p), "RUNAHEAD", r), {})
  /\ UNCHANGED <<frame, runAhead, lastCompleted, status, quitFrame, executed>>

(* Network::processCommand of MSG_CLEAR_GAME_DATA: leave on the frame after*)
(* the last one commands may be scheduled for, and announce both.          *)
Leave(p) ==
  /\ p \in Leavers
  /\ status[p] = "INGAME"
  /\ LET last == ExecutionFrame(p)
     IN /\ Schedule(p, Cmd(p, last + 1, "PLAYERLEAVE", 0),
                    {FrameInfo(p, last, LocalCount(p, last)),
                     FrameInfo(p, last + 1, LocalCount(p, last + 1) + 1)})
        /\ lastCompleted' = [lastCompleted EXCEPT ![p] = last]
  /\ status' = [status EXCEPT ![p] = "LEAVING"]
  /\ UNCHANGED <<frame, runAhead, quitFrame, executed>>

-----------------------------------------------------------------------------

(* Mutant of OutOfDate: the guard its comment in the code tells of, absent.*)
NeverOutOfDate(p, cmd) == FALSE

(* ConnectionManager::processNetCommand: synchronized commands of frames   *)
(* already executed are neither stored nor passed on.                      *)
OutOfDate(p, cmd) == cmd.frame < frame[p]

Receive(m) ==
  LET p == m.to
      q == m.cmd.from
      s == Slot(m.cmd.frame)
  IN /\ status[p] # "LEFT"
     /\ ~OutOfDate(p, m.cmd)
     /\ frameData' =
          IF ~HasFrameData(p, q) THEN frameData
          ELSE IF m.cmd.kind = "FRAMEINFO"
            THEN [frameData EXCEPT ![p][q][s].count = m.cmd.arg]
            ELSE [frameData EXCEPT ![p][q][s] = AddCommand(@, m.cmd)]
     /\ net' = net \cup Relay(p, m.cmd)
     /\ UNCHANGED <<frame, runAhead, lastExecution, lastCompleted, status,
                    quitFrame, scheduled, executed>>

-----------------------------------------------------------------------------

(* Mutant of AllCommandsReady: waits for the packet router only.           *)
RouterCommandsReady(p) ==
  p = Router \/ FrameDataReady(frameData[p][Router][Slot(frame[p])])

(* ConnectionManager::allCommandsReady: everybody still in the game has    *)
(* announced a count, and as many commands are here.                       *)
AllCommandsReady(p) ==
  \A q \in Players \ {p} :
    quitFrame[p][q] # None \/ FrameDataReady(frameData[p][q][Slot(frame[p])])

(* ConnectionManager::getFrameCommandList, first part.                     *)
FrameCommands(p) ==
  UNION {frameData[p][q][Slot(frame[p])].cmds :
           q \in {r \in Players : HasFrameData(p, r)}}

(* Mutant of FrameToReset: a frame is dropped as soon as it is executed.   *)
ResetAtOnce(p) == {Slot(frame[p])}

(* ... and second part: the frame that is old enough is reset.             *)
FrameToReset(p) ==
  IF frame[p] > FramesToKeep THEN {Slot(frame[p] - FramesToKeep)} ELSE {}

(* Mutant of NewRunAhead: the router switches when it schedules the change.*)
RouterRunAheadFirst(p, bundle) ==
  LET pending == {c \in (IF p = Router THEN scheduled ELSE bundle) :
                    c.kind = "RUNAHEAD"}
  IN IF pending = {} THEN runAhead[p]
     ELSE (CHOOSE c \in pending : \A d \in pending : d.id <= c.id).arg

(* Network::processFrameSynchronizedNetCommand on the commands of a frame: *)
(* the last RUNAHEAD command sets the run ahead.                           *)
NewRunAhead(p, bundle) ==
  LET changes == {c \in bundle : c.kind = "RUNAHEAD"}
  IN IF changes = {} THEN runAhead[p]
     ELSE (CHOOSE c \in changes : \A d \in changes : d.id <= c.id).arg

Gone(bundle) == {c.from : c \in {d \in bundle : d.kind = "PLAYERLEAVE"}}

(* Mutant of FramesToTick: one frame too many, still open for commands.    *)
TicksTooFar(p, exec) ==
  IF status[p] = "INGAME" THEN (lastCompleted[p] + 1)..exec ELSE {}

(* The counts due at the next frame, unless the player is leaving.         *)
FramesToTick(p, exec) ==
  IF status[p] = "INGAME" THEN (lastCompleted[p] + 1)..(exec - 1) ELSE {}

Advance(p) ==
  /\ status[p] # "LEFT"
  /\ frame[p] <= MaxFrame
  /\ AllCommandsReady(p)
  /\ LET bundle == FrameCommands(p)
         gone   == Gone(bundle)
         exec   == Max({lastExecution[p],
                        frame[p] + 1 + NewRunAhead(p, bundle)})
         ticks  == FramesToTick(p, exec)
     IN /\ executed' = [executed EXCEPT ![p] = Append(@, bundle)]
        /\ runAhead' = [runAhead EXCEPT ![p] = NewRunAhead(p, bundle)]
        /\ quitFrame' = [quitFrame EXCEPT ![p] =
             [q \in Players |-> IF q \in gone \ {p} /\ @[q] = None
                                  THEN frame[p] + FramesToKeep + 1 ELSE @[q]]]
        /\ frameData' = [frameData EXCEPT ![p] = [q \in Players |->
             [s \in DOMAIN @[q] |-> IF s \in FrameToReset(p) THEN EmptyFrame
                                                            ELSE @[q][s]]]]
        /\ status' = [status EXCEPT ![p] = IF p \in gone THEN "LEFT" ELSE @]
        /\ lastExecution' = [lastExecution EXCEPT ![p] =
                               IF status[p] = "INGAME" THEN exec ELSE @]
        /\ lastCompleted' = [lastCompleted EXCEPT ![p] =
                               IF ticks = {} THEN @ ELSE exec - 1]
        /\ net' = net \cup Send(p, {FrameInfo(p, f, LocalCount(p, f)) : f \in ticks})
  /\ frame' = [frame EXCEPT ![p] = @ + 1]
  /\ UNCHANGED scheduled

Next ==
  \/ \E p \in Players : IssueCommand(p) \/ ChangeRunAhead(p) \/ Leave(p) \/ Advance(p)
  \/ \E m \in net : Receive(m)

Spec == Init /\ [][Next]_vars

(* Connection resends what has not been acknowledged, and the network      *)
(* loses only finitely many copies in a row; the main loop of every player *)
(* keeps calling Network::update.                                          *)
Fairness ==
  /\ \A p \in Players : WF_vars(Advance(p))
  /\ WF_vars(\E m \in net : Receive(m))

FairSpec == Spec /\ Fairness

-----------------------------------------------------------------------------

TypeOK ==
  /\ frame \in [Players -> Nat]
  /\ runAhead \in [Players -> MinRunAhead..MaxRunAhead]
  /\ lastExecution \in [Players -> Nat]
  /\ lastCompleted \in [Players -> Nat]
  /\ status \in [Players -> {"INGAME", "LEAVING", "LEFT"}]
  /\ \A p, q \in Players : \A s \in 0..(FrameDataLength - 1) :
       /\ frameData[p][q][s].cmds \subseteq scheduled
       /\ frameData[p][q][s].count \in Nat \cup {None}
  /\ quitFrame \in [Players -> [Players -> Nat \cup {None}]]
  /\ \A p \in Players : Len(executed[p]) = frame[p] - 1

(* What p holds of q's commands for frame f.                               *)
Held(p, q, f) == frameData[p][q][Slot(f)].cmds

Issued(q, f) == {c \in scheduled : c.from = q /\ c.frame = f}

(* The frames p still reads: those it has to execute, as far ahead as      *)
(* commands may come, and those it keeps for players behind it.  A player  *)
(* that is leaving executes nothing after its last frame, and the messages *)
(* others still send to it may fall on frames it no longer keeps.          *)
Served(p) ==
  {f \in (frame[p] - FramesToKeep)..(frame[p] + 2 * MaxRunAhead + 1) :
     status[p] # "INGAME" =>
       f - lastExecution[p] \in (1 - FramesToKeep)..1}

(* A player never holds more commands for a frame than were announced: the *)
(* FRAMEDATA_RESEND answer of FrameData::allCommandsReady, which throws    *)
(* the data of the frame away, is never taken.                             *)
NeverTooManyCommands ==
  \A p, q \in Players : \A f \in Served(p) :
    p # q /\ frameData[p][q][Slot(f)].count # None =>
      Cardinality(Held(p, q, f)) <= frameData[p][q][Slot(f)].count

(* A slot of the ring never mixes two frames, although old messages arrive *)
(* late and leaders schedule far ahead: the slot of a frame that is served *)
(* holds commands of that frame only.                                      *)
NoAliasing ==
  \A p, q \in Players : \A f \in Served(p) : \A c \in Held(p, q, f) :
    c.frame = f

(* A player that has fallen behind can be given what it lacks: whoever is  *)
(* ahead of it still holds, in full, every frame the other has to execute. *)
LaggardServable ==
  \A p \in Players : \A q \in Connected(p) :
    status[p] # "LEFT" =>
      \A f \in Served(p) \cap (frame[q]..(frame[p] - 1)) : \A r \in Players :
        HasFrameData(p, r) => Held(p, r, f) = Issued(r, f)

(* Nobody runs further ahead of a player still in the game than the        *)
(* largest run ahead, plus one frame if that player is about to leave.     *)
BoundedDrift ==
  \A p \in Players : \A q \in Connected(p) :
    status[p] # "LEFT" =>
      frame[p] <= frame[q] + (IF status[q] = "INGAME" THEN MaxRunAhead
                                                      ELSE MaxRunAhead + 1)

(* The run ahead changes on the same frame for everybody.                  *)
SameRunAhead ==
  \A p, q \in Players : frame[p] = frame[q] => runAhead[p] = runAhead[q]

(* The players' logs, as the abstract specification has them: the longest  *)
(* one is the log, the others have executed a prefix of it.                *)
Leader == CHOOSE p \in Players : \A q \in Players : frame[q] <= frame[p]

Abstract == INSTANCE Lockstep WITH
  log  <- executed[Leader],
  done <- [p \in Players |-> Len(executed[p])]

(* All players execute the same bundles, and each bundle holds exactly the *)
(* commands scheduled for its frame.                                       *)
ImplementsLockstep == Abstract!Spec

(* Every player that does not leave gets through all the frames.           *)
EverybodyAdvances ==
  \A p \in Players : <>(frame[p] > MaxFrame \/ status[p] = "LEFT")

=============================================================================
