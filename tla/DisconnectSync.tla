--------------------------- MODULE DisconnectSync ---------------------------
(***************************************************************************)
(* The disconnect protocol: DisconnectManager with the parts of            *)
(* ConnectionManager it drives.  Players that no longer get what they wait *)
(* for put up the disconnect screen, tell each other their frame, serve    *)
(* those that are behind, and, once all are on one frame, the first of     *)
(* them that is left in the order of slots disconnects who has timed out   *)
(* or was voted out.  If that was the packet router, everybody turns to    *)
(* the next one and sends again what may not have reached the others.      *)
(*                                                                         *)
(* What a player sends for one frame, its commands and their count, is one *)
(* item here (module FrameSync has its parts): a disconnect drops all of   *)
(* it, and serving a player that is behind sends all of it.  The network   *)
(* is the set of messages sent, as in FrameSync.  The frames served are    *)
(* recent ones (FrameSync!LaggardServable); FRAMES_TO_KEEP plays no part.  *)
(***************************************************************************)
EXTENDS Integers, Sequences, FiniteSets, FiniteSetsExt

CONSTANTS
  Players,   \* slots; the first one is the packet router
  Failing,   \* bound: the players that may crash
  RunAhead,  \* Network::m_runAhead
  MaxFrame,  \* bound: the last frame executed
  Timely,    \* messages are fast against the time-outs, see Quiet, Receive
  Voters,    \* bound: the players that vote
  Overtaking \* data sent after a DISCONNECTPLAYER may arrive before it

ASSUME DisconnectAssumption ==
  /\ Players \subseteq Nat /\ Players # {} /\ IsFiniteSet(Players)
  /\ Failing \subseteq Players /\ Voters \subseteq Players
  /\ MaxFrame \in Nat
  /\ RunAhead \in 1..MaxFrame
  /\ Timely \in BOOLEAN /\ Overtaking \in BOOLEAN

VARIABLES
  alive,     \* players that have not crashed
  frame,     \* TheGameLogic->getFrame()
  members,   \* members[p]: p, and the players p is connected to
  held,      \* held[p][q]: frames for which p has all of q's commands
  pending,   \* m_pendingCommands: own frames perhaps not with everybody
  dm,        \* the DisconnectManager of each player
  net,       \* messages sent
  executed   \* history: whose commands each executed frame was made of

vars == <<alive, frame, members, held, pending, dm, net, executed>>

Message(p, q, kind, from, f, slot, relay) ==
  [src |-> p, to |-> q, kind |-> kind, from |-> from, frame |-> f,
   slot |-> slot, relay |-> relay]

Data(p, q, from, f, relay) == Message(p, q, "DATA", from, f, from, relay)

(* ConnectionManager::sendLocalCommandDirect, to everybody else.           *)
Broadcast(p, kind, f, slot) ==
  {Message(p, q, kind, p, f, slot, {q}) : q \in (members[p] \ {p}) \cap alive}

(* m_packetRouterSlot, when the given players are still connected: the     *)
(* fallback plan is the order of slots without those disconnected.         *)
Router(connected) == Min(connected)

(* ConnectionManager::sendLocalCommand for p's commands of frame f.        *)
SendLocal(p, connected, f) ==
  IF p = Router(connected)
    THEN {Data(p, q, p, f, {q}) : q \in connected \ {p}}
    ELSE {Data(p, Router(connected), p, f, Players \ {p})}

NewManager ==
  [screenOn |-> FALSE,  \* m_disconnectState
   notified |-> FALSE,  \* m_haveNotifiedOtherPlayersOfCurrentFrame
   frames |-> [q \in Players |-> 0],    \* m_disconnectFrames
   heard |-> [q \in Players |-> FALSE], \* m_disconnectFramesReceived
   \* m_playerVotes: the frame of q's vote against s, or 0
   votes |-> [s \in Players |-> [q \in Players |-> 0]],
   timedOut |-> {}]     \* whose m_playerTimeouts have run out

Init ==
  /\ alive = Players
  /\ frame = [p \in Players |-> 1]
  /\ members = [p \in Players |-> Players]
  /\ held = [p \in Players |-> [q \in Players |-> {}]]
  /\ pending = [p \in Players |->
                  IF p = Router(Players) THEN {} ELSE 1..RunAhead]
  /\ dm = [p \in Players |-> NewManager]
  /\ net = UNION {SendLocal(p, Players, f) : p \in Players, f \in 1..RunAhead}
  /\ executed = [p \in Players |-> <<>>]

-----------------------------------------------------------------------------

(* countVotesForPlayer: votes of earlier or later frames do not count.     *)
VotesAgainst(p, s) == {q \in Players : dm[p].votes[s][q] = frame[p]}

VotedOut(p, q) ==
  q # p /\ Cardinality(VotesAgainst(p, q)) >= Cardinality(members[p]) - 1

Out(p, q) == VotedOut(p, q) \/ q \in dm[p].timedOut

(* DisconnectManager::isPlayerInGame                                       *)
InGame(p, q) == q \in members[p] /\ ~Out(p, q)

(* Mutant of AllOnSameFrame: players not heard of do not matter.           *)
HeardOnSameFrame(p) ==
  \A q \in members[p] \ {p} :
    InGame(p, q) /\ dm[p].heard[q] => dm[p].frames[q] = dm[p].frames[p]

AllOnSameFrame(p) ==
  \A q \in members[p] \ {p} :
    InGame(p, q) => dm[p].heard[q] /\ dm[p].frames[q] = dm[p].frames[p]

(* DisconnectManager::isLocalPlayerNextPacketRouter                        *)
NextPacketRouter(p) == Min({q \in members[p] : InGame(p, q)})

(* DisconnectManager::resetPlayersVotes: q's votes up to frame f.          *)
ResetVotes(votes, q, f) ==
  [s \in Players |-> [votes[s] EXCEPT ![q] = IF @ <= f THEN 0 ELSE @]]

(* DisconnectManager::processDisconnectFrame on the state of the manager.  *)
HearFrame(d, q, f) ==
  IF d.frames[q] >= f THEN d
  ELSE [d EXCEPT !.votes = ResetVotes(@, q, f - 1),
                 !.frames[q] = f, !.heard[q] = TRUE]

(* DisconnectManager::processDisconnectScreenOff                           *)
HearScreenOff(d, q, f) ==
  IF d.frames[q] > f THEN d
  ELSE [d EXCEPT !.votes = ResetVotes(@, q, f),
                 !.frames[q] = f, !.heard[q] = FALSE]

(* ConnectionManager::sendFrameDataToPlayer: everybody's commands of the   *)
(* frames from the first one q has to execute up to p's own.               *)
FrameData(p, q, first) ==
  {Data(p, q, r, f, {q}) : r \in members[p] \ {q}, f \in first..(frame[p] - 1)}

-----------------------------------------------------------------------------

(* ConnectionManager::sendRemoteCommand: to the others it is meant for.    *)
Relayed(m) ==
  {Data(m.to, q, m.from, m.frame, {q}) :
     q \in ((m.relay \cap members[m.to]) \ {m.to}) \cap alive}

(* The message has come, or would be ignored; votes aside.                 *)
Arrived(m) ==
  LET p == m.to
      known == dm[p].frames[m.from]
  IN \/ m.from \notin members[p]
     \/ m.kind = "DATA" /\ \/ m.frame < frame[p]
                           \/ m.frame \in held[p][m.from] /\ Relayed(m) \subseteq net
     \/ m.kind = "DISCONNECTFRAME" /\ m.frame <= known
     \/ m.kind = "SCREENOFF" /\ \/ m.frame < known
                                \/ m.frame = known /\ ~dm[p].heard[m.from]
     \/ m.kind = "DISCONNECTPLAYER" /\ m.slot \notin members[p]
     \/ m.kind = "DISCONNECTVOTE"

(* ConnectionManager::allCommandsReady                                     *)
AllCommandsReady(p) == \A q \in members[p] \ {p} : frame[p] \in held[p][q]

(* DisconnectManager::allCommandsReady and nextFrame.                      *)
ScreenOff(p) ==
  LET d == [dm[p] EXCEPT !.timedOut = {}]
      off == [HearScreenOff(d, p, frame[p]) EXCEPT !.screenOn = FALSE]
  IN IF ~d.screenOn THEN d
     ELSE [off EXCEPT !.votes = [s \in Players |-> [@[s] EXCEPT ![p] = 0]]]

(* Network::update on a frame whose commands are there, the GameLogic      *)
(* update and the frame tick that follow.                                  *)
Advance(p) ==
  LET ticks == {frame[p] + RunAhead} \cap 1..MaxFrame
  IN /\ p \in alive
     /\ frame[p] <= MaxFrame
     /\ AllCommandsReady(p)
     /\ executed' = [executed EXCEPT ![p] = Append(@, members[p])]
     /\ frame' = [frame EXCEPT ![p] = @ + 1]
     /\ dm' = [dm EXCEPT ![p] = ScreenOff(p)]
     /\ pending' = [pending EXCEPT ![p] =
                      IF p = Router(members[p]) THEN @ ELSE @ \cup ticks]
     /\ net' = net \cup (UNION {SendLocal(p, members[p], f) : f \in ticks})
                   \cup (IF dm[p].screenOn
                           THEN Broadcast(p, "SCREENOFF", frame[p], p) ELSE {})
     /\ UNCHANGED <<alive, members, held>>

(* No order to disconnect somebody is under way to those that shall obey.  *)
OrdersObeyed ==
  \A m \in net :
    m.kind = "DISCONNECTPLAYER" /\ {m.src, m.to} \subseteq alive => Arrived(m)

(* DisconnectManager::update when the frame has not changed for long: for  *)
(* longer than messages sent before the change take.                       *)
TurnOnScreen(p) ==
  /\ p \in alive
  /\ ~dm[p].screenOn
  /\ ~AllCommandsReady(p)
  /\ Timely => alive # Players /\ OrdersObeyed
  /\ dm' = [dm EXCEPT ![p].screenOn = TRUE, ![p].notified = FALSE,
                      ![p].timedOut = {}]
  /\ UNCHANGED <<alive, frame, members, held, pending, net, executed>>

(* Network::notifyOthersOfCurrentFrame, which updateDisconnectStatus calls *)
(* when the screen has been on for 15 seconds, or at once when somebody is *)
(* voted out; in any case before somebody is disconnected.                 *)
Notify(p) ==
  LET d == HearFrame([dm[p] EXCEPT !.notified = TRUE], p, frame[p])
      behind == {q \in members[p] \ {p} :
                   InGame(p, q) /\ d.heard[q] /\ d.frames[q] < frame[p]}
  IN /\ p \in alive
     /\ dm[p].screenOn /\ ~dm[p].notified
     /\ ~AllCommandsReady(p)
     /\ dm' = [dm EXCEPT ![p] = d]
     /\ net' = net \cup Broadcast(p, "DISCONNECTFRAME", frame[p], p)
          \cup (IF d.frames = dm[p].frames THEN {}
                ELSE UNION {FrameData(p, q, d.frames[q]) : q \in behind})
     /\ UNCHANGED <<alive, frame, members, held, pending, executed>>

(* No keep-alive from a player for 60 seconds: it has crashed.             *)
TimeOut(p, q) ==
  /\ p \in alive /\ q \in members[p] \ alive
  /\ dm[p].notified /\ dm[p].screenOn
  /\ dm' = [dm EXCEPT ![p].timedOut = @ \cup {q}]
  /\ UNCHANGED <<alive, frame, members, held, pending, net, executed>>

(* DisconnectManager::voteForPlayerDisconnect, from the disconnect screen. *)
Vote(p, s) ==
  /\ p \in alive \cap Voters /\ s \in members[p] \ {p}
  /\ Timely => s \notin alive
  /\ dm[p].screenOn
  /\ dm[p].votes[s][p] = 0
  /\ dm' = [dm EXCEPT ![p].votes[s][p] = frame[p]]
  /\ net' = net \cup Broadcast(p, "DISCONNECTVOTE", frame[p], s)
  /\ UNCHANGED <<alive, frame, members, held, pending, executed>>

(* Mutant of Resent: the new packet router is not told again.              *)
NothingResent(p, connected) == {}

(* ConnectionManager::resendPendingCommands                                *)
Resent(p, connected) == UNION {SendLocal(p, connected, f) : f \in pending[p]}

(* Mutant of Remove: the frames of the player removed are kept.            *)
RemoveKeepingFrames(p, s, others) ==
  /\ members' = [members EXCEPT ![p] = @ \ {s}]
  /\ net' = net \cup others \cup
       (IF s = Router(members[p]) THEN Resent(p, members[p] \ {s}) ELSE {})
  /\ UNCHANGED held

(* ConnectionManager::disconnectPlayer                                     *)
Remove(p, s, others) ==
  /\ members' = [members EXCEPT ![p] = @ \ {s}]
  /\ held' = [held EXCEPT ![p][s] = {}]
  /\ net' = net \cup others \cup
       (IF s = Router(members[p]) THEN Resent(p, members[p] \ {s}) ELSE {})

(* What the players that have not crashed had to tell each other has       *)
(* arrived, and all wait.                                                  *)
Quiet ==
  /\ \A m \in net : {m.src, m.to} \subseteq alive => Arrived(m)
  /\ \A q \in alive : frame[q] <= MaxFrame => ~AllCommandsReady(q)

(* DisconnectManager::updateDisconnectStatus, for one player that is out;  *)
(* the code goes through all of them in the order of slots.                *)
Disconnect(p, s) ==
  /\ p \in alive /\ s \in members[p] \ {p}
  /\ dm[p].screenOn /\ dm[p].notified
  /\ ~AllCommandsReady(p)
  /\ Out(p, s)
  /\ AllOnSameFrame(p)
  /\ NextPacketRouter(p) = p
  /\ Timely => Quiet
  /\ Remove(p, s, {m \in Broadcast(p, "DISCONNECTPLAYER", Max(
                             {dm[p].frames[q] : q \in Players}), s) : m.to # s})
  /\ UNCHANGED <<alive, frame, pending, dm, executed>>

-----------------------------------------------------------------------------

(* The commands a player sends again after it has disconnected another one *)
(* mostly share a packet with its DISCONNECTPLAYER, and all of a packet is *)
(* taken in before a frame is executed.  They need not.                    *)
Overtakes(m) ==
  \E d \in net : /\ d.kind = "DISCONNECTPLAYER" /\ d.src = m.src /\ d.to = m.to
                 /\ ~Arrived(d)

ReceiveData(m) ==
  LET p == m.to
  IN /\ m.kind = "DATA"
     /\ m.frame >= frame[p]
     /\ Overtakes(m) => Overtaking
     /\ held' = [held EXCEPT ![p][m.from] = @ \cup {m.frame}]
     /\ net' = net \cup Relayed(m)
     /\ UNCHANGED <<alive, frame, members, pending, dm, executed>>

ReceiveFrame(m) ==
  LET p == m.to
      d == HearFrame(dm[p], m.from, m.frame)
  IN /\ m.kind = "DISCONNECTFRAME"
     /\ dm' = [dm EXCEPT ![p] = d]
     /\ net' = IF d.frames[m.from] < d.frames[p]
                 THEN net \cup FrameData(p, m.from, m.frame) ELSE net
     /\ UNCHANGED <<alive, frame, members, held, pending, executed>>

ReceiveScreenOff(m) ==
  /\ m.kind = "SCREENOFF"
  /\ dm' = [dm EXCEPT ![m.to] = HearScreenOff(@, m.from, m.frame)]
  /\ UNCHANGED <<alive, frame, members, held, pending, net, executed>>

ReceiveVote(m) ==
  /\ m.kind = "DISCONNECTVOTE"
  /\ InGame(m.to, m.from)
  /\ dm' = [dm EXCEPT ![m.to].votes[m.slot][m.from] = m.frame]
  /\ UNCHANGED <<alive, frame, members, held, pending, net, executed>>

ReceiveDisconnect(m) ==
  /\ m.kind = "DISCONNECTPLAYER"
  /\ m.slot \in members[m.to] \ {m.to}
  /\ Remove(m.to, m.slot, {})
  /\ UNCHANGED <<alive, frame, pending, dm, executed>>

(* ConnectionManager::processNetCommand: nothing is taken from a player    *)
(* that is no longer connected.                                            *)
Receive(m) ==
  /\ m.to \in alive
  /\ m.from \in members[m.to]
  /\ Timely /\ m.src \notin alive => ~dm[m.to].notified
  /\ \/ ReceiveData(m)
     \/ ReceiveFrame(m)
     \/ ReceiveScreenOff(m)
     \/ ReceiveVote(m)
     \/ ReceiveDisconnect(m)

(* The stage 2 acknowledgement of p's commands of frame f: the packet      *)
(* router has acknowledgements of everybody it is connected to.            *)
AckStage2(p, f) ==
  /\ p \in alive /\ f \in pending[p]
  /\ \A q \in members[Router(members[p])] \ {p} :
       f \in held[q][p] \/ f < frame[q]
  /\ pending' = [pending EXCEPT ![p] = @ \ {f}]
  /\ UNCHANGED <<alive, frame, members, held, dm, net, executed>>

(* What was in the memory of the player is gone.                           *)
Crash(p) ==
  /\ p \in Failing \cap alive
  /\ alive' = alive \ {p}
  /\ held' = [held EXCEPT ![p] = [q \in Players |-> {}]]
  /\ pending' = [pending EXCEPT ![p] = {}]
  /\ dm' = [dm EXCEPT ![p] = NewManager]
  /\ executed' = [executed EXCEPT ![p] = <<>>]
  /\ frame' = [frame EXCEPT ![p] = 1]
  /\ net' = {m \in net : m.to # p}
  /\ UNCHANGED members

Next ==
  \/ \E p \in Players : Advance(p) \/ TurnOnScreen(p) \/ Notify(p) \/ Crash(p)
  \/ \E p, q \in Players : TimeOut(p, q) \/ Vote(p, q) \/ Disconnect(p, q)
  \/ \E p \in Players : \E f \in pending[p] : AckStage2(p, f)
  \/ \E m \in net : Receive(m)

Spec == Init /\ [][Next]_vars

(* Passes of the main loop, clocks, and messages between players that have *)
(* not crashed.                                                            *)
Fairness ==
  /\ \A p \in Players :
       /\ WF_vars(Advance(p))
       /\ WF_vars(TurnOnScreen(p))
       /\ WF_vars(Notify(p))
       /\ WF_vars(\E q \in Players : TimeOut(p, q))
       /\ WF_vars(\E q \in Players : Disconnect(p, q))
  /\ \A kind \in {"DATA", "DISCONNECTFRAME", "DISCONNECTPLAYER"} :
       WF_vars(\E m \in net : m.kind = kind /\ m.src \in alive /\ Receive(m))

FairSpec == Spec /\ Fairness

-----------------------------------------------------------------------------

(* State is of its type, and nothing is kept of a player disconnected.     *)
TypeOK ==
  /\ alive \subseteq Players
  /\ frame \in [Players -> 1..(MaxFrame + 1)]
  /\ \A p \in Players : p \in members[p] /\ members[p] \subseteq Players
  /\ held \in [Players -> [Players -> SUBSET (1..MaxFrame)]]
  /\ \A p, q \in Players : q \notin members[p] => held[p][q] = {}
  /\ pending \in [Players -> SUBSET (1..MaxFrame)]
  /\ \A p \in Players : /\ dm[p].timedOut \subseteq Players
                        /\ dm[p].frames \in [Players -> 0..(MaxFrame + 1)]
                        /\ Len(executed[p]) = frame[p] - 1

(* The players that are left execute the same commands on every frame:     *)
(* those of a player that has crashed end with the same frame everywhere,  *)
(* however far each of them had them, and whoever disconnects it.          *)
SurvivorsAgree ==
  \A p, q \in alive :
    p \in members[q] /\ q \in members[p] =>
      \A f \in 1..(Min({frame[p], frame[q]}) - 1) :
        executed[p][f] = executed[q][f]

(* Who disconnects somebody is right about the others: all that have not   *)
(* crashed are on its frame, whatever order their messages came in.        *)
DecidedOnOneFrame ==
  [][\A p, q \in alive : \A s \in Players :
       Disconnect(p, s) /\ q \in members[p] => frame[q] = frame[p]]_vars

(* Crashes stop nobody for ever: a player that does not crash goes on.     *)
SurvivorsGoOn ==
  \A p \in Players \ Failing : <>(frame[p] > MaxFrame)

=============================================================================
