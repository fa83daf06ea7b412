----------------------------- MODULE Connection -----------------------------
(***************************************************************************)
(* The reliable channel between two players: each end has a Connection     *)
(* that queues commands, packs them into datagrams and sends each of them  *)
(* again until the other end has acknowledged it.  Acknowledgements travel *)
(* through the queue of the other direction, once; the answer to a lost    *)
(* acknowledgement is another one, when the command comes again.           *)
(*                                                                         *)
(* Time advances by Tick; of every time stamp only its age counts.         *)
(* Datagrams may be lost, duplicated and reordered.  What a packet is made *)
(* of does not matter once it is sent, so the wire is a set of commands.   *)
(***************************************************************************)
EXTENDS Integers, FiniteSets

CONSTANTS
  Players,        \* the two ends
  Orig,           \* the players commands originate from, the ends among them
  Ids,            \* command IDs
  Commands,       \* Commands[p]: the commands p has for the other end
  PacketSize,     \* commands that fit in one packet
  FrameGrouping,  \* m_frameGrouping
  RetryTime,      \* m_retryTime
  QuitFlushTime   \* MaxQuitFlushTime

(* A command is known by the player it comes from and the ID it got there, *)
(* an acknowledgement by the command it acknowledges.                      *)
Command         == [ack : {FALSE}, orig : Orig, id : Ids]
Acknowledgement == [ack : {TRUE}, orig : Orig, id : Ids]

ASSUME ConnectionAssumption ==
  /\ Orig \subseteq Int /\ Ids \subseteq Int
  /\ Players \subseteq Orig
  /\ \A p \in Players : \E q \in Players : Players = {p, q} /\ p # q
  /\ Commands \in [Players -> SUBSET Command]
  /\ PacketSize \in Nat \ {0}
  /\ FrameGrouping \in Nat /\ RetryTime \in Nat /\ QuitFlushTime \in Nat

VARIABLES
  queue,      \* m_netCommandList: the commands held, each with the age of its
              \* last sending
  sinceSend,  \* age of m_lastTimeSent
  state,      \* open, quitting (m_isQuitting), or closed, that is deleted
  quitAge,    \* age of m_quitTime
  wire,       \* datagrams under way, as commands with an addressee
  sent,       \* history: commands put in the queue
  received    \* history: commands processed by this end

vars == <<queue, sinceSend, state, quitAge, wire, sent, received>>

Peer(p) == CHOOSE q \in Players : q # p

Unsent == -1   \* m_timeLastSent of a command not sent yet

Empty == [c \in {} |-> Unsent]

Init ==
  /\ queue = [p \in Players |-> Empty]
  /\ sinceSend = [p \in Players |-> FrameGrouping]
  /\ state = [p \in Players |-> "open"]
  /\ quitAge = [p \in Players |-> 0]
  /\ wire = {}
  /\ sent = [p \in Players |-> {}]
  /\ received = [p \in Players |-> {}]

-----------------------------------------------------------------------------

Held(p) == DOMAIN queue[p]

Queued(q, cmds) == [c \in DOMAIN q \cup cmds |->
                      IF c \in DOMAIN q THEN q[c] ELSE Unsent]

Without(q, cmds) == [c \in DOMAIN q \ cmds |-> q[c]]

(* Connection::sendNetCommandMsg                                           *)
SendNetCommandMsg(p, c) ==
  /\ c \notin sent[p]
  /\ state[p] = "open"
  /\ queue' = [queue EXCEPT ![p] = Queued(@, {c})]
  /\ sent' = [sent EXCEPT ![p] = @ \cup {c}]
  /\ UNCHANGED <<sinceSend, state, quitAge, wire, received>>

(* The order of the queue: acknowledgements have the lower types.          *)
Before(c, d) ==
  \/ c.ack /\ ~d.ack
  \/ c.ack = d.ack /\ c.orig < d.orig
  \/ c.ack = d.ack /\ c.orig = d.orig /\ c.id < d.id

(* Mutant of Due: no retries.                                              *)
DueOnce(age) == age = Unsent

Due(age) == age = Unsent \/ age > RetryTime

DueCommands(p) ==
  {c \in Held(p) : sinceSend[p] >= FrameGrouping /\ Due(queue[p][c])}

(* A packet takes what fits, in the order of the queue.  The command that  *)
(* does not fit any more ends it, and waits for the next call.             *)
Position(p, c) == Cardinality({d \in DueCommands(p) : Before(d, c)}) + 1

PacketOf(i) == (i - 1) \div (PacketSize + 1) + 1
Skipped(i)  == i % (PacketSize + 1) = 0

Packets(p) == PacketOf(Cardinality(DueCommands(p)))

Packed(p, n) == {c \in DueCommands(p) : /\ PacketOf(Position(p, c)) <= n
                                        /\ ~Skipped(Position(p, c))}

(* Mutant of TimedOut: a quitting connection waits for its last answer.    *)
NeverTimedOut(p) == FALSE

TimedOut(p) == state[p] = "quitting" /\ quitAge[p] > QuitFlushTime

(* CommandRequiresAck is false: the command leaves the queue when packed.  *)
SentOnce(c) == c.ack

(* Connection::doSend when the transport's buffers take the first n of the *)
(* packets; the packet refused counts as sent.  ConnectionManager::update  *)
(* then deletes a connection that is quitting and has nothing left.        *)
DoSend(p, n) ==
  LET marked == Packed(p, n + 1)
  IN /\ state[p] # "closed"
     /\ n <= Packets(p)
     /\ queue' = [queue EXCEPT ![p] =
          IF TimedOut(p) THEN Empty
          ELSE [c \in {d \in Held(p) : ~(SentOnce(d) /\ d \in marked)} |->
                  IF c \in marked THEN 0 ELSE @[c]]]
     /\ wire' = IF TimedOut(p) THEN wire
                ELSE wire \cup [to : {Peer(p)}, cmd : Packed(p, n)]
     /\ sinceSend' = [sinceSend EXCEPT ![p] =
          IF TimedOut(p) \/ DueCommands(p) = {} THEN @ ELSE 0]
     /\ state' = [state EXCEPT ![p] =
          IF @ = "quitting" /\ queue'[p] = Empty THEN "closed" ELSE @]
     /\ UNCHANGED <<quitAge, sent, received>>

-----------------------------------------------------------------------------

(* A datagram may come again.                                              *)
Consume(m) == wire' = wire \ {m} \/ UNCHANGED wire

(* Mutant of Answers: only the first copy of a command is acknowledged.    *)
AnswersFirstCopy(p, c) == state[p] = "open" /\ c \notin received[p]

(* ConnectionManager::ackCommand: a quitting connection takes no more      *)
(* commands, acknowledgements included.                                    *)
Answers(p, c) == state[p] = "open"

(* A command arrives: it is acknowledged, then processed, unless it comes  *)
(* from a player whose connection is gone.                                 *)
ReceiveCommand(p, c) ==
  /\ ~c.ack
  /\ queue' = [queue EXCEPT ![p] =
       IF Answers(p, c) THEN Queued(@, {[c EXCEPT !.ack = TRUE]}) ELSE @]
  /\ received' = [received EXCEPT ![p] =
       IF state[p] = "closed" /\ c.orig = Peer(p) THEN @ ELSE @ \cup {c}]
  /\ UNCHANGED state

(* Mutant of Acknowledged: the ID alone is compared.                       *)
SameId(c, a) == ~c.ack /\ c.id = a.id

Acknowledged(c, a) == ~c.ack /\ c.id = a.id /\ c.orig = a.orig

(* Connection::processAck                                                  *)
ReceiveAck(p, a) ==
  /\ a.ack
  /\ queue' = [queue EXCEPT ![p] =
       Without(@, {c \in Held(p) : Acknowledged(c, a)})]
  /\ UNCHANGED <<state, received>>

Receive(p, c) ==
  /\ [to |-> p, cmd |-> c] \in wire
  /\ Consume([to |-> p, cmd |-> c])
  /\ ReceiveCommand(p, c) \/ ReceiveAck(p, c)
  /\ UNCHANGED <<sinceSend, quitAge, sent>>

Lose(m) ==
  /\ wire' = wire \ {m}
  /\ UNCHANGED <<queue, sinceSend, state, quitAge, sent, received>>

-----------------------------------------------------------------------------

(* ConnectionManager::processPlayerLeave, the other player leaves.         *)
PeerLeaves(p) ==
  /\ state[p] = "open"
  /\ state' = [state EXCEPT ![p] = "quitting"]
  /\ UNCHANGED <<queue, sinceSend, quitAge, wire, sent, received>>

(* The same when the local player leaves: the commands relayed for others  *)
(* are dropped first, and acknowledgements are the local player's own.     *)
LocalLeaves(p) ==
  /\ state[p] = "open"
  /\ state' = [state EXCEPT ![p] = "quitting"]
  /\ queue' = [queue EXCEPT ![p] =
       Without(@, {c \in Held(p) : ~c.ack /\ c.orig # p})]
  /\ UNCHANGED <<sinceSend, quitAge, wire, sent, received>>

(* Ages are not told apart beyond the times they are compared with.        *)
Older(age, limit) == IF age > limit THEN age ELSE age + 1

Tick ==
  /\ queue' = [p \in Players |-> [c \in Held(p) |->
       IF queue[p][c] = Unsent THEN Unsent ELSE Older(queue[p][c], RetryTime)]]
  /\ sinceSend' = [p \in Players |-> Older(sinceSend[p], FrameGrouping - 1)]
  /\ quitAge' = [p \in Players |->
       IF state[p] = "quitting" THEN Older(quitAge[p], QuitFlushTime)
                                ELSE quitAge[p]]
  /\ UNCHANGED <<state, wire, sent, received>>

Next ==
  \/ \E p \in Players :
       \/ \E c \in Commands[p] : SendNetCommandMsg(p, c)
       \/ \E n \in 0..Packets(p) : DoSend(p, n)
       \/ \E m \in wire : m.to = p /\ Receive(p, m.cmd)
       \/ PeerLeaves(p)
       \/ LocalLeaves(p)
  \/ \E m \in wire : Lose(m)
  \/ Tick

Spec == Init /\ [][Next]_vars

(* A command that waits for its answer, or an answer waited for.           *)
Needed(c, p) == \E d \in Held(p) : d = c \/ Acknowledged(d, c)

(* A call that ends the connection, or that the transport has room for.    *)
Fruitful(p, n) ==
  \/ Held(p) = {} \/ TimedOut(p)
  \/ \E c \in Packed(p, n) : Needed(c, p) \/ Needed(c, Peer(p))

Duplicated == \E m \in wire : Receive(m.to, m.cmd) /\ m \in wire'

(* Time passes.  The main loop calls ConnectionManager::update again and   *)
(* again, and of what is needed and sent again and again some is taken by  *)
(* the transport, and some arrives.  No datagram is duplicated for ever.   *)
Fairness ==
  /\ WF_vars(Tick)
  /\ <>[][~Duplicated]_vars
  /\ \A p \in Players :
       /\ SF_vars(\E n \in 0..Packets(p) : Fruitful(p, n) /\ DoSend(p, n))
       /\ SF_vars(\E m \in wire :
             /\ m.to = p
             /\ Needed(m.cmd, p) \/ Needed(m.cmd, Peer(p))
             /\ Receive(p, m.cmd))

FairSpec == Spec /\ Fairness

-----------------------------------------------------------------------------

(* Everything has the type its comment above says; an acknowledgement in   *)
(* the queue has never been sent, as sending it removes it.                *)
TypeOK ==
  /\ DOMAIN queue = Players
  /\ \A p \in Players :
       /\ Held(p) \subseteq Command \cup Acknowledgement
       /\ \A c \in Held(p) : /\ queue[p][c] \in Unsent..(RetryTime + 1)
                             /\ c.ack => queue[p][c] = Unsent
  /\ sinceSend \in [Players -> 0..FrameGrouping]
  /\ state \in [Players -> {"open", "quitting", "closed"}]
  /\ quitAge \in [Players -> 0..(QuitFlushTime + 1)]
  /\ wire \subseteq [to : Players, cmd : Command \cup Acknowledgement]
  /\ sent \in [Players -> SUBSET Command]
  /\ received \in [Players -> SUBSET Command]

(* No command is lost, though packets are, and buffers run full: a command *)
(* accepted by the connection stays queued until the other end has it.     *)
(* Given up are the commands of others when the local player leaves, and   *)
(* all of them when a quitting connection has tried for long enough.       *)
NothingLost ==
  \A p \in Players : \A c \in sent[p] :
    \/ c \in Held(p)
    \/ c \in received[Peer(p)]
    \/ state[p] # "open" /\ c.orig # p
    \/ quitAge[p] > QuitFlushTime

(* A command sent arrives in the end, however often packets are lost or    *)
(* refused by the transport, unless one of the ends leaves: the retries of *)
(* Connection::doSend.                                                     *)
Delivered ==
  \A p \in Players : \A c \in Commands[p] :
    c \in sent[p] ~> \/ c \in received[Peer(p)]
                     \/ state[p] # "open"
                     \/ state[Peer(p)] # "open"

(* Retrying ends: between two open ends no command stays in a queue, even  *)
(* when acknowledgements are lost.                                         *)
QueuesDrain ==
  \A p \in Players : \A c \in Commands[p] :
    c \in Held(p) ~> \/ c \notin Held(p)
                     \/ state[Peer(p)] # "open"

(* A player can leave: a quitting connection goes away, whatever the other *)
(* end does (canILeave waits for all queues to be empty).                  *)
ConnectionsClose ==
  \A p \in Players : state[p] = "quitting" ~> state[p] = "closed"

=============================================================================
