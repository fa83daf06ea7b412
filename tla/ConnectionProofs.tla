------------------------- MODULE ConnectionProofs -------------------------
(***************************************************************************)
(* Proofs about Connection: no command is lost, for any commands, packet   *)
(* size and times, on a network that loses, duplicates and reorders.       *)
(***************************************************************************)
EXTENDS Connection, TLAPS

(* What an acknowledgement acknowledges.                                   *)
Original(a) == [a EXCEPT !.ack = FALSE]

(* An acknowledgement, queued or under way, is of a command processed by   *)
(* the end it comes from: ackCommand comes before the processing, but in   *)
(* the same call.                                                          *)
AcksAreTrue ==
  /\ \A p \in Players : \A a \in Held(p) : a.ack => Original(a) \in received[p]
  /\ \A m \in wire : m.cmd.ack => Original(m.cmd) \in received[Peer(m.to)]

IInv == TypeOK /\ AcksAreTrue /\ NothingLost

-----------------------------------------------------------------------------

LEMMA PeerFacts ==
  ASSUME NEW p \in Players
  PROVE  /\ Peer(p) \in Players /\ Peer(p) # p /\ Peer(Peer(p)) = p
         /\ \A q \in Players : q = p \/ q = Peer(p)
<1>1. PICK q \in Players : Players = {p, q} /\ p # q
  BY ConnectionAssumption
<1>2. Peer(p) \in Players /\ Peer(p) # p
  BY <1>1 DEF Peer
<1>3. Peer(Peer(p)) \in Players /\ Peer(Peer(p)) # Peer(p)
  BY <1>1, <1>2 DEF Peer
<1> QED BY <1>1, <1>2, <1>3

LEMMA CommandIsNoAck ==
  ASSUME NEW c \in Command
  PROVE  ~c.ack
<1>1. c.ack \in {FALSE}
  BY DEF Command
<1> QED BY <1>1, Zenon

(* The command an acknowledgement removes is the one it acknowledges.      *)
LEMMA AcknowledgedIsOriginal ==
  ASSUME NEW c \in Command \cup Acknowledgement, NEW a \in Acknowledgement,
         Acknowledged(c, a)
  PROVE  c = Original(a)
BY DEF Command, Acknowledgement, Acknowledged, Original

LEMMA AnswerToOriginal ==
  ASSUME NEW c \in Command
  PROVE  /\ [c EXCEPT !.ack = TRUE] \in Acknowledgement
         /\ Original([c EXCEPT !.ack = TRUE]) = c
BY DEF Command, Acknowledgement, Original

LEMMA OlderFacts ==
  ASSUME NEW limit \in Int, NEW age \in Int, age >= 0, age <= limit + 1
  PROVE  Older(age, limit) \in 0..(limit + 1) /\ Older(age, limit) >= age
BY DEF Older

LEMMA PackedIsHeld ==
  ASSUME NEW p, NEW n
  PROVE  Packed(p, n) \subseteq Held(p)
BY DEF Packed, DueCommands

-----------------------------------------------------------------------------

LEMMA InitIInv == Init => IInv
<1> SUFFICES ASSUME Init PROVE IInv
  OBVIOUS
<1> USE DEF Init
<1>1. \A p \in Players : Held(p) = {}
  BY DEF Held, Empty
<1>2. TypeOK
  BY <1>1, ConnectionAssumption DEF TypeOK
<1>3. AcksAreTrue
  BY <1>1 DEF AcksAreTrue
<1>4. NothingLost
  BY DEF NothingLost
<1> QED BY <1>2, <1>3, <1>4 DEF IInv

LEMMA SendStep ==
  ASSUME IInv, NEW p \in Players, NEW c \in Commands[p], SendNetCommandMsg(p, c)
  PROVE  IInv'
<1> USE DEF IInv, SendNetCommandMsg, Queued, Held
<1>0. c \in Command /\ ~c.ack
  BY ConnectionAssumption, CommandIsNoAck
<1>1. /\ DOMAIN queue' = Players
      /\ Held(p)' = Held(p) \cup {c}
      /\ \A d \in Held(p)' : queue'[p][d] = IF d \in Held(p) THEN queue[p][d]
                                                            ELSE Unsent
      /\ \A q \in Players : q # p => queue'[q] = queue[q]
  BY DEF TypeOK
<1>2. TypeOK'
  <2>1. \A d \in Held(p)' : /\ queue'[p][d] \in Unsent..(RetryTime + 1)
                            /\ d.ack => queue'[p][d] = Unsent
    BY <1>1, ConnectionAssumption DEF TypeOK, Unsent
  <2> QED BY <1>0, <1>1, <2>1 DEF TypeOK
<1>3. AcksAreTrue'
  BY <1>0, <1>1 DEF AcksAreTrue
<1>4. NothingLost'
  BY <1>1, PeerFacts DEF NothingLost, TypeOK
<1> QED BY <1>2, <1>3, <1>4

LEMMA DoSendStep ==
  ASSUME IInv, NEW p \in Players, NEW n, DoSend(p, n)
  PROVE  IInv'
<1> DEFINE marked == Packed(p, n + 1)
           kept == {d \in Held(p) : ~(d.ack /\ d \in marked)}
<1> USE DEF IInv, Held
<1>1. /\ DOMAIN queue' = Players
      /\ \A q \in Players : q # p => queue'[q] = queue[q]
      /\ queue'[p] = IF TimedOut(p) THEN Empty
                     ELSE [c \in kept |-> IF c \in marked THEN 0 ELSE queue[p][c]]
  BY DEF DoSend, SentOnce, TypeOK
<1>2. /\ Held(p)' \subseteq Held(p)
      /\ ~TimedOut(p) => \A c \in Held(p) : ~c.ack => c \in Held(p)'
  BY <1>1 DEF Empty
<1>3. \A c \in Held(p)' : /\ queue'[p][c] \in Unsent..(RetryTime + 1)
                          /\ c.ack => queue'[p][c] = Unsent
  <2> SUFFICES ASSUME NEW c \in Held(p)'
               PROVE  /\ queue'[p][c] \in Unsent..(RetryTime + 1)
                      /\ c.ack => queue'[p][c] = Unsent
    OBVIOUS
  <2>1. ~TimedOut(p) /\ c \in kept
    BY <1>1 DEF Empty
  <2>2. queue'[p][c] = IF c \in marked THEN 0 ELSE queue[p][c]
    BY <1>1, <2>1
  <2>3. /\ queue[p][c] \in Unsent..(RetryTime + 1)
        /\ c.ack => queue[p][c] = Unsent
    BY <2>1 DEF TypeOK
  <2> HIDE DEF marked
  <2> QED BY <2>1, <2>2, <2>3, ConnectionAssumption DEF Unsent
<1>4. wire' \subseteq wire \cup [to : {Peer(p)}, cmd : Held(p)]
  BY PackedIsHeld DEF DoSend
<1>5. \A q \in Players : /\ state'[q] = "open" <=> state[q] = "open"
                         /\ state'[q] \in {"open", "quitting", "closed"}
  BY DEF DoSend, TypeOK
<1>6. TypeOK'
  <2>1. Held(p) \subseteq Command \cup Acknowledgement
    BY DEF TypeOK
  <2>2. wire' \subseteq [to : Players, cmd : Command \cup Acknowledgement]
    BY <1>4, <2>1, PeerFacts DEF TypeOK
  <2>3. sinceSend' \in [Players -> 0..FrameGrouping]
    BY ConnectionAssumption DEF DoSend, TypeOK
  <2>4. state' \in [Players -> {"open", "quitting", "closed"}]
    BY DEF DoSend, TypeOK
  <2>5. UNCHANGED <<quitAge, sent, received>>
    BY DEF DoSend
  <2>6. \A q \in Players :
          /\ Held(q)' \subseteq Command \cup Acknowledgement
          /\ \A c \in Held(q)' :
               /\ queue'[q][c] \in Unsent..(RetryTime + 1)
               /\ c.ack => queue'[q][c] = Unsent
    <3> SUFFICES ASSUME NEW q \in Players
                 PROVE  /\ Held(q)' \subseteq Command \cup Acknowledgement
                        /\ \A c \in Held(q)' :
                             /\ queue'[q][c] \in Unsent..(RetryTime + 1)
                             /\ c.ack => queue'[q][c] = Unsent
      OBVIOUS
    <3>1. CASE q = p
      BY <3>1, <1>2, <1>3, <2>1
    <3>2. CASE q # p
      <4>1. queue'[q] = queue[q]
        BY <3>2, <1>1
      <4> QED BY <4>1 DEF TypeOK
    <3> QED BY <3>1, <3>2
  <2> QED BY <1>1, <2>2, <2>3, <2>4, <2>5, <2>6 DEF TypeOK
<1>7. AcksAreTrue'
  <2>1. received' = received
    BY DEF DoSend
  <2>2. \A q \in Players : Held(q)' \subseteq Held(q)
    BY <1>1, <1>2
  <2>3. \A m \in wire' : m.cmd.ack => Original(m.cmd) \in received[Peer(m.to)]
    BY <1>4, PeerFacts DEF AcksAreTrue
  <2> QED BY <2>1, <2>2, <2>3 DEF AcksAreTrue
<1>8. NothingLost'
  <2> SUFFICES ASSUME NEW q \in Players, NEW c \in sent[q]
               PROVE  \/ c \in Held(q)'
                      \/ c \in received[Peer(q)]
                      \/ state'[q] # "open" /\ c.orig # q
                      \/ quitAge[q] > QuitFlushTime
    BY DEF NothingLost, DoSend
  <2>1. ~c.ack
    BY CommandIsNoAck DEF TypeOK
  <2>2. \/ c \in Held(q)
        \/ c \in received[Peer(q)]
        \/ state[q] # "open" /\ c.orig # q
        \/ quitAge[q] > QuitFlushTime
    BY DEF NothingLost
  <2>3. TimedOut(p) => quitAge[p] > QuitFlushTime
    BY DEF TimedOut
  <2>4. c \in Held(q) => c \in Held(q)' \/ (q = p /\ TimedOut(p))
    BY <1>1, <1>2, <2>1
  <2> QED BY <1>5, <2>2, <2>3, <2>4
<1> QED BY <1>6, <1>7, <1>8

(* What comes to one end, and leaves the rest alone.                        *)
LEMMA ReceiveCommandStep ==
  ASSUME IInv, NEW m \in wire, NEW p \in Players, m.to = p, ReceiveCommand(p, m.cmd),
         wire' \subseteq wire, UNCHANGED <<sinceSend, quitAge, sent>>
  PROVE  IInv'
<1> DEFINE c == m.cmd
           a == [c EXCEPT !.ack = TRUE]
<1> USE DEF IInv, Held
<1>0. c \in Command
  BY DEF ReceiveCommand, TypeOK, Command, Acknowledgement
<1>1. a \in Acknowledgement /\ Original(a) = c
  BY <1>0, AnswerToOriginal
<1> HIDE DEF a, c
<1>2. /\ DOMAIN queue' = Players
      /\ \A q \in Players : q # p => queue'[q] = queue[q]
      /\ queue'[p] = IF Answers(p, c) THEN Queued(queue[p], {a}) ELSE queue[p]
  BY DEF ReceiveCommand, TypeOK, a, c
<1>3. /\ Held(p)' = IF Answers(p, c) THEN Held(p) \cup {a} ELSE Held(p)
      /\ \A d \in Held(p)' : queue'[p][d] = IF d \in Held(p) THEN queue[p][d]
                                                            ELSE Unsent
  BY <1>2 DEF Queued
<1>4. /\ \A q \in Players : received[q] \subseteq received'[q]
      /\ Answers(p, c) => c \in received'[p]
      /\ received' \in [Players -> SUBSET Command]
  BY <1>0 DEF ReceiveCommand, TypeOK, Answers, c
<1>5. state' = state
  BY DEF ReceiveCommand
<1>6. TypeOK'
  <2>1. \A d \in Held(p)' : /\ queue'[p][d] \in Unsent..(RetryTime + 1)
                            /\ d.ack => queue'[p][d] = Unsent
    BY <1>3, ConnectionAssumption DEF TypeOK, Unsent
  <2>2. Held(p)' \subseteq Command \cup Acknowledgement
    BY <1>1, <1>3 DEF TypeOK
  <2>3. ASSUME NEW q \in Players
        PROVE  /\ Held(q)' \subseteq Command \cup Acknowledgement
               /\ \A d \in Held(q)' : /\ queue'[q][d] \in Unsent..(RetryTime + 1)
                                      /\ d.ack => queue'[q][d] = Unsent
    <3>1. CASE q = p
      BY <2>1, <2>2, <3>1
    <3>2. CASE q # p
      <4>1. queue'[q] = queue[q]
        BY <1>2, <3>2
      <4> QED BY <4>1 DEF TypeOK
    <3> QED BY <3>1, <3>2
  <2> QED BY <1>2, <1>4, <1>5, <2>3 DEF TypeOK
<1>7. AcksAreTrue'
  <2>1. \A d \in Held(p)' : d.ack => Original(d) \in received'[p]
    BY <1>1, <1>3, <1>4 DEF AcksAreTrue
  <2>2. \A q \in Players : \A d \in Held(q)' : d.ack => Original(d) \in received'[q]
    BY <1>2, <1>4, <2>1 DEF AcksAreTrue
  <2>3. \A n \in wire' : n.cmd.ack => Original(n.cmd) \in received'[Peer(n.to)]
    BY <1>4, PeerFacts DEF AcksAreTrue, TypeOK
  <2> QED BY <2>2, <2>3 DEF AcksAreTrue
<1>8. NothingLost'
  <2>1. \A q \in Players : Held(q) \subseteq Held(q)'
    BY <1>2, <1>3
  <2> QED BY <1>4, <1>5, <2>1, PeerFacts DEF NothingLost
<1> QED BY <1>6, <1>7, <1>8

LEMMA ReceiveAckStep ==
  ASSUME IInv, NEW m \in wire, NEW p \in Players, m.to = p, ReceiveAck(p, m.cmd),
         wire' \subseteq wire, UNCHANGED <<sinceSend, quitAge, sent>>
  PROVE  IInv'
<1> DEFINE a == m.cmd
           answered == {c \in Held(p) : Acknowledged(c, a)}
<1> USE DEF IInv, Held
<1>1. a \in Acknowledgement /\ Original(a) \in received[Peer(p)]
  BY CommandIsNoAck DEF ReceiveAck, TypeOK, AcksAreTrue
<1> HIDE DEF a
<1>2. /\ DOMAIN queue' = Players
      /\ \A q \in Players : q # p => queue'[q] = queue[q]
      /\ queue'[p] = [c \in Held(p) \ answered |-> queue[p][c]]
  BY DEF ReceiveAck, Without, TypeOK, a
<1>3. answered \subseteq received[Peer(p)]
  BY <1>1, AcknowledgedIsOriginal DEF TypeOK
<1>4. /\ UNCHANGED <<state, received>>
      /\ Held(p)' = Held(p) \ answered
      /\ \A c \in Held(p)' : queue'[p][c] = queue[p][c]
  BY <1>2, SMTT(30) DEF ReceiveAck
<1> HIDE DEF answered
<1>5. TypeOK'
  BY <1>2, <1>4 DEF TypeOK
<1>6. AcksAreTrue'
  BY <1>2, <1>4 DEF AcksAreTrue
<1>7. NothingLost'
  BY <1>2, <1>3, <1>4, PeerFacts DEF NothingLost
<1> QED BY <1>5, <1>6, <1>7

LEMMA ReceiveStep ==
  ASSUME IInv, NEW p \in Players, NEW m \in wire, m.to = p, Receive(p, m.cmd)
  PROVE  IInv'
<1>1. wire' \subseteq wire /\ UNCHANGED <<sinceSend, quitAge, sent>>
  BY DEF Receive, Consume
<1> QED BY <1>1, ReceiveCommandStep, ReceiveAckStep DEF Receive

LEMMA PeerLeavesStep ==
  ASSUME IInv, NEW p \in Players, PeerLeaves(p)
  PROVE  IInv'
<1> USE DEF IInv, PeerLeaves, Held
<1>1. TypeOK'
  BY DEF TypeOK
<1>2. AcksAreTrue'
  BY DEF AcksAreTrue
<1>3. NothingLost'
  BY DEF NothingLost, TypeOK
<1> QED BY <1>1, <1>2, <1>3

LEMMA LocalLeavesStep ==
  ASSUME IInv, NEW p \in Players, LocalLeaves(p)
  PROVE  IInv'
<1> DEFINE relayed == {c \in Held(p) : ~c.ack /\ c.orig # p}
<1> USE DEF IInv, LocalLeaves, Held
<1>1. /\ DOMAIN queue' = Players
      /\ \A q \in Players : q # p => queue'[q] = queue[q]
      /\ queue'[p] = [c \in Held(p) \ relayed |-> queue[p][c]]
  BY DEF Without, TypeOK
<1>2. /\ Held(p)' = Held(p) \ relayed
      /\ \A c \in Held(p)' : queue'[p][c] = queue[p][c]
  BY <1>1
<1>3. /\ \A c \in relayed : c.orig # p
      /\ state'[p] # "open" /\ \A q \in Players : q # p => state'[q] = state[q]
  BY DEF TypeOK
<1> HIDE DEF relayed
<1>4. TypeOK'
  BY <1>1, <1>2 DEF TypeOK
<1>5. AcksAreTrue'
  BY <1>1, <1>2 DEF AcksAreTrue
<1>6. NothingLost'
  BY <1>1, <1>2, <1>3 DEF NothingLost
<1> QED BY <1>4, <1>5, <1>6

LEMMA LoseStep ==
  ASSUME IInv, NEW m \in wire, Lose(m)
  PROVE  IInv'
<1> USE DEF IInv, Lose, Held
<1>1. TypeOK'
  BY DEF TypeOK
<1>2. AcksAreTrue'
  BY DEF AcksAreTrue
<1>3. NothingLost'
  BY DEF NothingLost
<1> QED BY <1>1, <1>2, <1>3

LEMMA TickStep ==
  ASSUME IInv, Tick
  PROVE  IInv'
<1> USE DEF IInv, Tick, Held
<1>1. /\ DOMAIN queue' = Players
      /\ \A p \in Players : Held(p)' = Held(p)
  BY DEF TypeOK
<1>2. \A p \in Players : \A c \in Held(p)' :
        queue'[p][c] = IF queue[p][c] = Unsent THEN Unsent
                                               ELSE Older(queue[p][c], RetryTime)
  BY DEF TypeOK
<1>3. \A p \in Players :
        /\ quitAge'[p] \in 0..(QuitFlushTime + 1) /\ quitAge'[p] >= quitAge[p]
        /\ sinceSend'[p] \in 0..FrameGrouping
  <2> SUFFICES ASSUME NEW p \in Players
               PROVE  /\ quitAge'[p] \in 0..(QuitFlushTime + 1)
                      /\ quitAge'[p] >= quitAge[p]
                      /\ sinceSend'[p] \in 0..FrameGrouping
    OBVIOUS
  <2>1. quitAge[p] \in 0..(QuitFlushTime + 1) /\ sinceSend[p] \in 0..FrameGrouping
    BY DEF TypeOK
  <2>2. /\ Older(quitAge[p], QuitFlushTime) \in 0..(QuitFlushTime + 1)
        /\ Older(quitAge[p], QuitFlushTime) >= quitAge[p]
        /\ Older(sinceSend[p], FrameGrouping - 1) \in 0..FrameGrouping
    BY <2>1, ConnectionAssumption DEF Older
  <2> QED BY <2>1, <2>2
<1>4. TypeOK'
  <2>1. \A p \in Players : \A c \in Held(p)' :
          /\ queue'[p][c] \in Unsent..(RetryTime + 1)
          /\ c.ack => queue'[p][c] = Unsent
    <3> SUFFICES ASSUME NEW p \in Players, NEW c \in Held(p)'
                 PROVE  /\ queue'[p][c] \in Unsent..(RetryTime + 1)
                        /\ c.ack => queue'[p][c] = Unsent
      OBVIOUS
    <3>1. /\ queue[p][c] \in Unsent..(RetryTime + 1)
          /\ c.ack => queue[p][c] = Unsent
      BY <1>1 DEF TypeOK
    <3>2. queue'[p][c] \in Unsent..(RetryTime + 1)
      BY <1>2, <3>1, ConnectionAssumption DEF Unsent, Older
    <3>3. c.ack => queue'[p][c] = Unsent
      BY <1>2, <3>1
    <3> QED BY <3>2, <3>3
  <2>2. /\ quitAge' \in [Players -> 0..(QuitFlushTime + 1)]
        /\ sinceSend' \in [Players -> 0..FrameGrouping]
    BY <1>3
  <2> QED BY <1>1, <2>1, <2>2 DEF TypeOK
<1>5. AcksAreTrue'
  BY <1>1 DEF AcksAreTrue
<1>6. NothingLost'
  <2>1. \A p \in Players : quitAge[p] \in 0..(QuitFlushTime + 1)
    BY DEF TypeOK
  <2>2. \A p \in Players : quitAge[p] > QuitFlushTime => quitAge'[p] > QuitFlushTime
    BY <1>3, <2>1, ConnectionAssumption
  <2> QED BY <1>1, <2>2 DEF NothingLost
<1> QED BY <1>4, <1>5, <1>6

-----------------------------------------------------------------------------

(* The inductive invariant of a pair of connections.                       *)
THEOREM Invariance == Spec => []IInv
<1>1. IInv /\ [Next]_vars => IInv'
  <2> SUFFICES ASSUME IInv, [Next]_vars PROVE IInv'
    OBVIOUS
  <2>1. ASSUME NEW p \in Players, NEW c \in Commands[p], SendNetCommandMsg(p, c)
        PROVE  IInv'
    BY <2>1, SendStep
  <2>2. ASSUME NEW p \in Players, NEW n \in 0..Packets(p), DoSend(p, n)
        PROVE  IInv'
    BY <2>2, DoSendStep
  <2>3. ASSUME NEW p \in Players, NEW m \in wire, m.to = p, Receive(p, m.cmd)
        PROVE  IInv'
    BY <2>3, ReceiveStep
  <2>4. ASSUME NEW p \in Players, PeerLeaves(p)
        PROVE  IInv'
    BY <2>4, PeerLeavesStep
  <2>5. ASSUME NEW p \in Players, LocalLeaves(p)
        PROVE  IInv'
    BY <2>5, LocalLeavesStep
  <2>6. ASSUME NEW m \in wire, Lose(m)
        PROVE  IInv'
    BY <2>6, LoseStep
  <2>7. CASE Tick
    BY <2>7, TickStep
  <2>8. CASE UNCHANGED vars
    BY <2>8 DEF vars, IInv, TypeOK, AcksAreTrue, NothingLost, Held
  <2> QED BY <2>1, <2>2, <2>3, <2>4, <2>5, <2>6, <2>7, <2>8 DEF Next
<1> QED BY InitIInv, <1>1, PTL DEF Spec

(* The state of both ends, and what is under way, is of the declared types. *)
THEOREM TypeCorrect == Spec => []TypeOK
BY Invariance, PTL DEF IInv

(* A command accepted by Connection::sendNetCommandMsg stays queued until  *)
(* the other end has it, whatever the network loses, duplicates or         *)
(* reorders and whatever the transport refuses.                            *)
THEOREM NoLoss == Spec => []NothingLost
BY Invariance, PTL DEF IInv

=============================================================================
