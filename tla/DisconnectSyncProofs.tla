------------------------ MODULE DisconnectSyncProofs ------------------------
(***************************************************************************)
(* Proofs about DisconnectSync, for any number of players.  Types hold     *)
(* whatever crashes and however late messages are; if messages are fast    *)
(* against the time-outs, who decides is right about everybody's frame;    *)
(* and if only one player crashes, the others stay in lockstep.            *)
(***************************************************************************)
EXTENDS DisconnectSync, FiniteSetTheorems, SequenceTheorems, WellFoundedInduction,
        TLAPS

Frames == 1..(MaxFrame + 1)

Manager ==
  [screenOn : BOOLEAN, notified : BOOLEAN, frames : [Players -> 0..(MaxFrame + 1)],
   heard : [Players -> BOOLEAN], votes : [Players -> [Players -> 0..(MaxFrame + 1)]],
   timedOut : SUBSET Players]

MessageOK(m) ==
  /\ m.src \in Players /\ m.to \in Players \ {m.src} /\ m.from \in Players
  /\ m.slot \in Players /\ m.relay \subseteq Players
  /\ m.kind = "DATA" => m.frame \in Int /\ m.frame <= MaxFrame
  /\ m.kind \in {"DISCONNECTFRAME", "SCREENOFF", "DISCONNECTVOTE"} => m.frame \in Frames
  /\ m.kind # "DATA" => m.from = m.src

Types ==
  /\ alive \subseteq Players
  /\ frame \in [Players -> Frames]
  /\ members \in [Players -> SUBSET Players]
  /\ \A p \in Players : p \in members[p]
  /\ held \in [Players -> [Players -> SUBSET (1..MaxFrame)]]
  /\ \A p, q \in Players : q \notin members[p] => held[p][q] = {}
  /\ pending \in [Players -> SUBSET (1..MaxFrame)]
  /\ dm \in [Players -> Manager]
  /\ \A m \in net : MessageOK(m)
  /\ executed \in [Players -> Seq(SUBSET Players)]
  /\ \A p \in Players : Len(executed[p]) = frame[p] - 1

-----------------------------------------------------------------------------
(* Routers, and the messages sent.                                         *)

(* Some player of a set has the first slot.                                *)
LEMMA MinOfNats ==
  ASSUME NEW S, S \subseteq Nat, S # {}
  PROVE  Min(S) \in S /\ \A y \in S : Min(S) <= y
<1> DEFINE R == {ss \in Nat \X Nat : ss[1] < ss[2]}
<1>1. IsWellFoundedOn(R, Nat)
  BY NatLessThanWellFounded DEF OpToRel
<1>2. PICK x \in S : \A y \in S : ~(<<y, x>> \in R)
  BY <1>1, WFMin
<1>3. \A y \in S : ~(y < x)
  BY <1>2
<1>4. \A y \in S : x <= y
  BY <1>3
<1> QED BY <1>4 DEF Min

LEMMA RouterConnected ==
  ASSUME NEW connected, connected \subseteq Players, connected # {}
  PROVE  Router(connected) \in connected /\ \A q \in connected : Router(connected) <= q
<1>1. connected \subseteq Nat
  BY DisconnectAssumption
<1> QED BY <1>1, MinOfNats DEF Router

LEMMA LocalSent ==
  ASSUME NEW p \in Players, NEW connected \in SUBSET Players, p \in connected,
         NEW f \in 1..MaxFrame, NEW m \in SendLocal(p, connected, f)
  PROVE  /\ m.kind = "DATA" /\ m.src = p /\ m.from = p /\ m.frame = f
         /\ m.to \in connected \ {p} /\ MessageOK(m)
         /\ m.relay = {m.to} \/ m.to = Router(connected)
<1>1. Router(connected) \in connected
  BY RouterConnected
<1>2. MaxFrame \in Nat
  BY DisconnectAssumption
<1>3. CASE p = Router(connected)
  BY <1>1, <1>2, <1>3 DEF SendLocal, Data, Message, MessageOK
<1>4. CASE p # Router(connected)
  BY <1>1, <1>2, <1>4 DEF SendLocal, Data, Message, MessageOK
<1> QED BY <1>3, <1>4

LEMMA FramesSent ==
  ASSUME Types, NEW p \in Players, NEW q \in Players \ {p}, NEW first \in Nat,
         NEW m \in FrameData(p, q, first)
  PROVE  /\ m.kind = "DATA" /\ m.src = p /\ m.to = q /\ m.relay = {q}
         /\ m.frame < frame[p] /\ MessageOK(m)
<1>1. PICK r \in members[p] \ {q}, f \in first..(frame[p] - 1) :
        m = Data(p, q, r, f, {q})
  BY DEF FrameData
<1>2. MaxFrame \in Nat
  BY DisconnectAssumption
<1>3. r \in Players /\ f \in Int /\ f <= MaxFrame /\ f < frame[p]
  BY <1>1, <1>2 DEF Types, Frames
<1> QED BY <1>1, <1>3 DEF Data, Message, MessageOK

LEMMA RelaySent ==
  ASSUME Types, NEW n \in net, n.kind = "DATA", NEW m \in Relayed(n)
  PROVE  /\ m.kind = "DATA" /\ m.src = n.to /\ m.to \in n.relay \ {n.to}
         /\ m.from = n.from /\ m.frame = n.frame /\ m.relay = {m.to} /\ MessageOK(m)
<1>1. PICK q \in ((n.relay \cap members[n.to]) \ {n.to}) \cap alive :
        m = Data(n.to, q, n.from, n.frame, {q})
  BY DEF Relayed
<1>2. MessageOK(n)
  BY DEF Types
<1> QED BY <1>1, <1>2 DEF Data, Message, MessageOK

LEMMA BroadcastSent ==
  ASSUME Types, NEW p \in Players, NEW kind, kind # "DATA", NEW f \in Frames,
         NEW slot \in Players, NEW m \in Broadcast(p, kind, f, slot)
  PROVE  /\ m.kind = kind /\ m.src = p /\ m.from = p /\ m.frame = f /\ m.slot = slot
         /\ m.to \in (members[p] \ {p}) \cap alive /\ MessageOK(m)
<1>1. PICK q \in (members[p] \ {p}) \cap alive : m = Message(p, q, kind, p, f, slot, {q})
  BY DEF Broadcast
<1>2. q \in Players
  BY <1>1 DEF Types
<1> QED BY <1>1, <1>2 DEF Message, MessageOK

-----------------------------------------------------------------------------
(* Types.                                                                  *)

LEMMA InitTypes == Init => Types
<1> SUFFICES ASSUME Init PROVE Types
  OBVIOUS
<1>1. MaxFrame \in Nat /\ RunAhead \in 1..MaxFrame
  BY DisconnectAssumption
<1>2. NewManager \in Manager
  BY <1>1 DEF NewManager, Manager
<1>3. ASSUME NEW m \in net PROVE MessageOK(m)
  <2>1. PICK p \in Players, f \in 1..RunAhead : m \in SendLocal(p, Players, f)
    BY <1>3 DEF Init
  <2>2. f \in 1..MaxFrame
    BY <1>1
  <2> QED BY <2>1, <2>2, LocalSent
<1>4. pending \in [Players -> SUBSET (1..MaxFrame)]
  BY <1>1 DEF Init
<1>5. /\ alive \subseteq Players
      /\ frame \in [Players -> Frames]
      /\ members \in [Players -> SUBSET Players]
      /\ \A p \in Players : p \in members[p]
  BY <1>1 DEF Init, Frames
<1>6. /\ held \in [Players -> [Players -> SUBSET (1..MaxFrame)]]
      /\ \A p, q \in Players : q \notin members[p] => held[p][q] = {}
      /\ dm \in [Players -> Manager]
  BY <1>2 DEF Init
<1>7. /\ executed \in [Players -> Seq(SUBSET Players)]
      /\ \A p \in Players : Len(executed[p]) = frame[p] - 1
  BY DEF Init
<1> QED BY <1>3, <1>4, <1>5, <1>6, <1>7 DEF Types

(* What the manager of a player becomes.                                   *)
LEMMA ManagerType ==
  ASSUME NEW d \in Manager
  PROVE  /\ d.screenOn \in BOOLEAN /\ d.notified \in BOOLEAN
         /\ d.frames \in [Players -> 0..(MaxFrame + 1)] /\ d.heard \in [Players -> BOOLEAN]
         /\ d.votes \in [Players -> [Players -> 0..(MaxFrame + 1)]]
         /\ d.timedOut \subseteq Players
BY DEF Manager

LEMMA ResetVotesType ==
  ASSUME NEW votes \in [Players -> [Players -> 0..(MaxFrame + 1)]], NEW q, NEW f
  PROVE  ResetVotes(votes, q, f) \in [Players -> [Players -> 0..(MaxFrame + 1)]]
<1>1. 0 \in 0..(MaxFrame + 1)
  BY DisconnectAssumption
<1> QED BY <1>1 DEF ResetVotes

LEMMA HearFrameType ==
  ASSUME NEW d \in Manager, NEW q \in Players, NEW f \in Frames
  PROVE  /\ HearFrame(d, q, f) \in Manager
         /\ HearFrame(d, q, f).screenOn = d.screenOn
         /\ HearFrame(d, q, f).notified = d.notified
         /\ HearFrame(d, q, f).timedOut = d.timedOut
         /\ \A r \in Players :
              /\ r # q => /\ HearFrame(d, q, f).frames[r] = d.frames[r]
                          /\ HearFrame(d, q, f).heard[r] = d.heard[r]
              /\ \A s \in Players : HearFrame(d, q, f).votes[s][r] \in {0, d.votes[s][r]}
         /\ d.frames[q] >= f => HearFrame(d, q, f) = d
         /\ d.frames[q] < f => /\ HearFrame(d, q, f).frames[q] = f
                               /\ HearFrame(d, q, f).heard[q]
<1> DEFINE votes == ResetVotes(d.votes, q, f - 1)
<1> DEFINE h == [d EXCEPT !.votes = votes, !.frames[q] = f, !.heard[q] = TRUE]
<1>1. votes \in [Players -> [Players -> 0..(MaxFrame + 1)]]
  BY ResetVotesType, ManagerType
<1>2. \A s, r \in Players : votes[s][r] \in {0, d.votes[s][r]}
  BY ManagerType DEF ResetVotes
<1>3. f \in 0..(MaxFrame + 1) /\ f \in Int
  BY DisconnectAssumption DEF Frames
<1>4. d.frames[q] \in Int
  BY ManagerType, DisconnectAssumption
<1>5. CASE d.frames[q] >= f
  <2>1. HearFrame(d, q, f) = d
    BY <1>5 DEF HearFrame
  <2> QED BY <1>3, <1>4, <1>5, <2>1
<1>6. CASE ~(d.frames[q] >= f)
  <2>1. HearFrame(d, q, f) = h
    BY <1>6 DEF HearFrame
  <2> HIDE DEF votes
  <2>2. h \in Manager
    BY <1>1, <1>3 DEF Manager
  <2>3. /\ h.screenOn = d.screenOn /\ h.notified = d.notified
        /\ h.timedOut = d.timedOut /\ h.votes = votes
        /\ h.frames = [d.frames EXCEPT ![q] = f]
        /\ h.heard = [d.heard EXCEPT ![q] = TRUE]
    BY DEF Manager
  <2> HIDE DEF h
  <2>4. \A r \in Players :
          /\ r # q => h.frames[r] = d.frames[r] /\ h.heard[r] = d.heard[r]
          /\ \A s \in Players : h.votes[s][r] \in {0, d.votes[s][r]}
    BY <1>2, <2>3, ManagerType
  <2>5. h.frames[q] = f /\ h.heard[q]
    BY <2>3, ManagerType
  <2> QED BY <1>6, <2>1, <2>2, <2>3, <2>4, <2>5
<1> QED BY <1>5, <1>6

LEMMA HearScreenOffType ==
  ASSUME NEW d \in Manager, NEW q \in Players, NEW f \in Frames
  PROVE  /\ HearScreenOff(d, q, f) \in Manager
         /\ HearScreenOff(d, q, f).screenOn = d.screenOn
         /\ HearScreenOff(d, q, f).notified = d.notified
         /\ HearScreenOff(d, q, f).timedOut = d.timedOut
         /\ \A r \in Players :
              /\ r # q => /\ HearScreenOff(d, q, f).frames[r] = d.frames[r]
                          /\ HearScreenOff(d, q, f).heard[r] = d.heard[r]
              /\ \A s \in Players : HearScreenOff(d, q, f).votes[s][r] \in {0, d.votes[s][r]}
         /\ d.frames[q] > f => HearScreenOff(d, q, f) = d
         /\ d.frames[q] <= f => /\ HearScreenOff(d, q, f).frames[q] = f
                                /\ ~HearScreenOff(d, q, f).heard[q]
<1> DEFINE votes == ResetVotes(d.votes, q, f)
<1> DEFINE h == [d EXCEPT !.votes = votes, !.frames[q] = f, !.heard[q] = FALSE]
<1>1. votes \in [Players -> [Players -> 0..(MaxFrame + 1)]]
  BY ResetVotesType, ManagerType
<1>2. \A s, r \in Players : votes[s][r] \in {0, d.votes[s][r]}
  BY ManagerType DEF ResetVotes
<1>3. f \in 0..(MaxFrame + 1) /\ f \in Int
  BY DisconnectAssumption DEF Frames
<1>4. d.frames[q] \in Int
  BY ManagerType, DisconnectAssumption
<1>5. CASE d.frames[q] > f
  <2>1. HearScreenOff(d, q, f) = d
    BY <1>5 DEF HearScreenOff
  <2> QED BY <1>3, <1>4, <1>5, <2>1
<1>6. CASE ~(d.frames[q] > f)
  <2>1. HearScreenOff(d, q, f) = h
    BY <1>6 DEF HearScreenOff
  <2> HIDE DEF votes
  <2>2. h \in Manager
    BY <1>1, <1>3 DEF Manager
  <2>3. /\ h.screenOn = d.screenOn /\ h.notified = d.notified
        /\ h.timedOut = d.timedOut /\ h.votes = votes
        /\ h.frames = [d.frames EXCEPT ![q] = f]
        /\ h.heard = [d.heard EXCEPT ![q] = FALSE]
    BY DEF Manager
  <2> HIDE DEF h
  <2>4. \A r \in Players :
          /\ r # q => h.frames[r] = d.frames[r] /\ h.heard[r] = d.heard[r]
          /\ \A s \in Players : h.votes[s][r] \in {0, d.votes[s][r]}
    BY <1>2, <2>3, ManagerType
  <2>5. h.frames[q] = f /\ ~h.heard[q]
    BY <2>3, ManagerType
  <2> QED BY <1>6, <2>1, <2>2, <2>3, <2>4, <2>5
<1> QED BY <1>5, <1>6

LEMMA ScreenOffType ==
  ASSUME Types, NEW p \in Players
  PROVE  /\ ScreenOff(p) \in Manager
         /\ ~ScreenOff(p).screenOn
         /\ ScreenOff(p).notified = dm[p].notified
         /\ ScreenOff(p).timedOut = {}
         /\ \A r \in Players :
              /\ r # p => /\ ScreenOff(p).frames[r] = dm[p].frames[r]
                          /\ ScreenOff(p).heard[r] = dm[p].heard[r]
              /\ \A s \in Players : ScreenOff(p).votes[s][r] \in {0, dm[p].votes[s][r]}
         /\ ~dm[p].screenOn \/ dm[p].frames[p] > frame[p] =>
              /\ ScreenOff(p).frames[p] = dm[p].frames[p]
              /\ ScreenOff(p).heard[p] = dm[p].heard[p]
         /\ dm[p].screenOn /\ dm[p].frames[p] <= frame[p] =>
              ScreenOff(p).frames[p] = frame[p] /\ ~ScreenOff(p).heard[p]
<1> DEFINE d == [dm[p] EXCEPT !.timedOut = {}]
<1> DEFINE h == HearScreenOff(d, p, frame[p])
<1>1. dm[p] \in Manager /\ frame[p] \in Frames
  BY DEF Types
<1>2. /\ d \in Manager /\ d.timedOut = {} /\ d.screenOn = dm[p].screenOn
      /\ d.notified = dm[p].notified /\ d.frames = dm[p].frames
      /\ d.heard = dm[p].heard /\ d.votes = dm[p].votes
  BY <1>1 DEF Manager
<1>3. CASE ~d.screenOn
  <2>1. ScreenOff(p) = d
    BY <1>3 DEF ScreenOff
  <2> HIDE DEF d
  <2>2. ~d.screenOn
    BY <1>2, <1>3, ManagerType
  <2> QED BY <1>2, <1>3, <2>1, <2>2
<1>4. CASE d.screenOn
  <2> HIDE DEF d
  <2>0. /\ h \in Manager /\ h.notified = d.notified /\ h.timedOut = d.timedOut
        /\ \A r \in Players :
             /\ r # p => h.frames[r] = d.frames[r] /\ h.heard[r] = d.heard[r]
             /\ \A s \in Players : h.votes[s][r] \in {0, d.votes[s][r]}
        /\ d.frames[p] > frame[p] => h = d
        /\ d.frames[p] <= frame[p] => h.frames[p] = frame[p] /\ ~h.heard[p]
    <3>1. d \in Manager /\ frame[p] \in Frames
      BY <1>1, <1>2
    <3>2. /\ h \in Manager /\ h.notified = d.notified /\ h.timedOut = d.timedOut
          /\ d.frames[p] > frame[p] => h = d
      BY <3>1, HearScreenOffType
    <3>3. d.frames[p] <= frame[p] => h.frames[p] = frame[p] /\ ~h.heard[p]
      BY <3>1, HearScreenOffType
    <3>4. ASSUME NEW r \in Players
          PROVE  /\ r # p => h.frames[r] = d.frames[r] /\ h.heard[r] = d.heard[r]
                 /\ \A s \in Players : h.votes[s][r] \in {0, d.votes[s][r]}
      BY <3>1, HearScreenOffType
    <3> QED BY <3>2, <3>3, <3>4
  <2> HIDE DEF h
  <2>1. /\ h \in Manager /\ h.notified = dm[p].notified /\ h.timedOut = {}
        /\ \A r \in Players :
             /\ r # p => h.frames[r] = dm[p].frames[r] /\ h.heard[r] = dm[p].heard[r]
             /\ \A s \in Players : h.votes[s][r] \in {0, dm[p].votes[s][r]}
        /\ dm[p].frames[p] > frame[p] =>
             h.frames[p] = dm[p].frames[p] /\ h.heard[p] = dm[p].heard[p]
        /\ dm[p].frames[p] <= frame[p] => h.frames[p] = frame[p] /\ ~h.heard[p]
    BY <1>2, <2>0
  <2> DEFINE o == [h EXCEPT !.screenOn = FALSE]
  <2> DEFINE votes == [s \in Players |-> [o.votes[s] EXCEPT ![p] = 0]]
  <2> DEFINE e == [o EXCEPT !.votes = votes]
  <2>2. /\ o \in Manager /\ ~o.screenOn /\ o.notified = h.notified
        /\ o.timedOut = h.timedOut /\ o.frames = h.frames /\ o.heard = h.heard
        /\ o.votes = h.votes
    BY <2>1 DEF Manager
  <2>3. ScreenOff(p) = e
    BY <1>4 DEF ScreenOff, d, h
  <2> HIDE DEF o
  <2>4. /\ votes \in [Players -> [Players -> 0..(MaxFrame + 1)]]
        /\ \A s, r \in Players : votes[s][r] \in {0, h.votes[s][r]}
    <3>1. 0 \in 0..(MaxFrame + 1)
      BY DisconnectAssumption
    <3>2. o.votes \in [Players -> [Players -> 0..(MaxFrame + 1)]]
      BY <2>2, ManagerType
    <3> QED BY <2>2, <3>1, <3>2
  <2> HIDE DEF votes
  <2>5. /\ e \in Manager /\ ~e.screenOn /\ e.notified = h.notified
        /\ e.timedOut = h.timedOut /\ e.frames = h.frames /\ e.heard = h.heard
        /\ e.votes = votes
    BY <2>2, <2>4 DEF Manager
  <2> HIDE DEF e
  <2>6. \A r, s \in Players : e.votes[s][r] \in {0, dm[p].votes[s][r]}
    BY <2>1, <2>4, <2>5
  <2> QED BY <1>2, <1>4, <2>1, <2>3, <2>5, <2>6
<1> QED BY <1>3, <1>4

(* The manager of one player changes.                                      *)
LEMMA ManagersType ==
  ASSUME Types, NEW p \in Players, NEW d \in Manager, dm' = [dm EXCEPT ![p] = d]
  PROVE  /\ dm' \in [Players -> Manager]
         /\ dm'[p] = d /\ \A r \in Players \ {p} : dm'[r] = dm[r]
<1>1. dm \in [Players -> Manager]
  BY DEF Types
<1> QED BY <1>1

TurnedOn(d) ==
  [d EXCEPT !.screenOn = TRUE, !.notified = FALSE, !.timedOut = {}]

LEMMA TurnedOnType ==
  ASSUME NEW d \in Manager
  PROVE  /\ TurnedOn(d) \in Manager
         /\ ~TurnedOn(d).notified /\ TurnedOn(d).timedOut = {}
         /\ TurnedOn(d).frames = d.frames /\ TurnedOn(d).heard = d.heard
         /\ TurnedOn(d).votes = d.votes
BY DEF Manager, TurnedOn

LEMMA TurnOnScreenEffect ==
  ASSUME Types, NEW p \in Players, TurnOnScreen(p)
  PROVE  dm' = [dm EXCEPT ![p] = TurnedOn(dm[p])]
<1>1. dm \in [Players -> Manager]
  BY DEF Types
<1>2. dm' = [dm EXCEPT ![p].screenOn = TRUE, ![p].notified = FALSE, ![p].timedOut = {}]
  BY DEF TurnOnScreen
<1> QED BY <1>1, <1>2 DEF TurnedOn

LEMMA AdvanceTypes ==
  ASSUME Types, NEW p \in Players, Advance(p)
  PROVE  Types'
<1> DEFINE ticks == {frame[p] + RunAhead} \cap 1..MaxFrame
<1>1. frame[p] \in 1..MaxFrame /\ MaxFrame \in Nat
  BY DisconnectAssumption DEF Types, Frames, Advance
<1>2. frame' = [frame EXCEPT ![p] = @ + 1] /\ frame' \in [Players -> Frames]
  BY <1>1 DEF Advance, Types, Frames
<1>3. dm' \in [Players -> Manager]
  BY ScreenOffType DEF Advance, Types
<1>4. pending' \in [Players -> SUBSET (1..MaxFrame)]
  BY DEF Advance, Types
<1>5. ASSUME NEW m \in net' PROVE MessageOK(m)
  <2>1. CASE m \in net
    BY <2>1 DEF Types
  <2>2. CASE \E f \in ticks : m \in SendLocal(p, members[p], f)
    BY <2>2, LocalSent DEF Types
  <2>3. CASE m \in Broadcast(p, "SCREENOFF", frame[p], p)
    BY <2>3, BroadcastSent DEF Types
  <2>4. net' \subseteq net \cup (UNION {SendLocal(p, members[p], f) : f \in ticks})
                       \cup Broadcast(p, "SCREENOFF", frame[p], p)
    BY DEF Advance
  <2> QED BY <1>5, <2>1, <2>2, <2>3, <2>4
<1>6. /\ executed' \in [Players -> Seq(SUBSET Players)]
      /\ \A q \in Players : Len(executed'[q]) = frame'[q] - 1
  <2>1. executed[p] \in Seq(SUBSET Players) /\ members[p] \in SUBSET Players
    BY DEF Types
  <2>2. /\ Append(executed[p], members[p]) \in Seq(SUBSET Players)
        /\ Len(Append(executed[p], members[p])) = Len(executed[p]) + 1
    BY <2>1, AppendProperties
  <2>3. executed' = [executed EXCEPT ![p] = Append(executed[p], members[p])]
    BY DEF Advance
  <2>4. \A q \in Players : frame[q] \in Int
    BY <1>1 DEF Types, Frames
  <2> QED BY <1>2, <2>2, <2>3, <2>4 DEF Types
<1>7. UNCHANGED <<alive, members, held>>
  BY DEF Advance
<1> QED BY <1>2, <1>3, <1>4, <1>5, <1>6, <1>7 DEF Types

LEMMA TurnOnScreenTypes ==
  ASSUME Types, NEW p \in Players, TurnOnScreen(p)
  PROVE  Types'
<1>1. dm' \in [Players -> Manager]
  <2>1. dm[p] \in Manager
    BY DEF Types
  <2> QED BY <2>1, ManagersType, TurnOnScreenEffect, TurnedOnType
<1>2. UNCHANGED <<alive, frame, members, held, pending, net, executed>>
  BY DEF TurnOnScreen
<1> QED BY <1>1, <1>2 DEF Types

(* What a player hears of itself when it tells the others its frame.       *)
Told(p) == HearFrame([dm[p] EXCEPT !.notified = TRUE], p, frame[p])

LEMMA ToldType ==
  ASSUME Types, NEW p \in Players
  PROVE  /\ Told(p) \in Manager
         /\ Told(p).screenOn = dm[p].screenOn
         /\ Told(p).notified
         /\ Told(p).timedOut = dm[p].timedOut
         /\ \A r \in Players :
              /\ r # p => /\ Told(p).frames[r] = dm[p].frames[r]
                          /\ Told(p).heard[r] = dm[p].heard[r]
              /\ \A s \in Players : Told(p).votes[s][r] \in {0, dm[p].votes[s][r]}
         /\ dm[p].frames[p] >= frame[p] =>
              /\ Told(p).frames[p] = dm[p].frames[p]
              /\ Told(p).heard[p] = dm[p].heard[p]
         /\ dm[p].frames[p] < frame[p] =>
              Told(p).frames[p] = frame[p] /\ Told(p).heard[p]
<1> DEFINE d == [dm[p] EXCEPT !.notified = TRUE]
<1>1. dm[p] \in Manager /\ frame[p] \in Frames
  BY DEF Types
<1>2. /\ d \in Manager /\ d.timedOut = dm[p].timedOut /\ d.screenOn = dm[p].screenOn
      /\ d.notified /\ d.frames = dm[p].frames
      /\ d.heard = dm[p].heard /\ d.votes = dm[p].votes
  BY <1>1 DEF Manager
<1> HIDE DEF d
<1>3. Told(p) = HearFrame(d, p, frame[p])
  BY DEF Told, d
<1>4. /\ HearFrame(d, p, frame[p]) \in Manager
      /\ HearFrame(d, p, frame[p]).screenOn = d.screenOn
      /\ HearFrame(d, p, frame[p]).notified = d.notified
      /\ HearFrame(d, p, frame[p]).timedOut = d.timedOut
      /\ \A r \in Players :
           /\ r # p => /\ HearFrame(d, p, frame[p]).frames[r] = d.frames[r]
                       /\ HearFrame(d, p, frame[p]).heard[r] = d.heard[r]
           /\ \A s \in Players :
                HearFrame(d, p, frame[p]).votes[s][r] \in {0, d.votes[s][r]}
      /\ d.frames[p] >= frame[p] => HearFrame(d, p, frame[p]) = d
      /\ d.frames[p] < frame[p] => /\ HearFrame(d, p, frame[p]).frames[p] = frame[p]
                                   /\ HearFrame(d, p, frame[p]).heard[p]
  BY <1>1, <1>2, HearFrameType
<1> QED BY <1>2, <1>3, <1>4

(* Notify, with those that are served.                                     *)
LEMMA NotifyEffect ==
  ASSUME Types, NEW p \in Players, Notify(p)
  PROVE  /\ dm' = [dm EXCEPT ![p] = Told(p)]
         /\ net \cup Broadcast(p, "DISCONNECTFRAME", frame[p], p) \subseteq net'
         /\ \A m \in net' :
              \/ m \in net
              \/ m \in Broadcast(p, "DISCONNECTFRAME", frame[p], p)
              \/ \E q \in Players \ {p} :
                   /\ Told(p).frames[q] < frame[p]
                   /\ m \in FrameData(p, q, Told(p).frames[q])
         /\ UNCHANGED <<alive, frame, members, held, pending, executed>>
<1> DEFINE behind == {q \in members[p] \ {p} :
                        InGame(p, q) /\ Told(p).heard[q] /\ Told(p).frames[q] < frame[p]}
<1> DEFINE served == IF Told(p).frames = dm[p].frames THEN {}
                     ELSE UNION {FrameData(p, q, Told(p).frames[q]) : q \in behind}
<1>1. net' = net \cup Broadcast(p, "DISCONNECTFRAME", frame[p], p) \cup served
  BY DEF Notify, Told
<1>2. \A q \in behind : q \in Players \ {p} /\ Told(p).frames[q] < frame[p]
  BY DEF Types
<1> HIDE DEF behind
<1>3. \A m \in served : \E q \in behind : m \in FrameData(p, q, Told(p).frames[q])
  OBVIOUS
<1> HIDE DEF served
<1>4. /\ dm' = [dm EXCEPT ![p] = Told(p)]
      /\ UNCHANGED <<alive, frame, members, held, pending, executed>>
  BY DEF Notify, Told
<1> QED BY <1>1, <1>2, <1>3, <1>4

LEMMA NotifyTypes ==
  ASSUME Types, NEW p \in Players, Notify(p)
  PROVE  Types'
<1>1. dm' \in [Players -> Manager]
  BY NotifyEffect, ToldType, ManagersType
<1>2. ASSUME NEW m \in net' PROVE MessageOK(m)
  <2>1. CASE m \in net
    BY <2>1 DEF Types
  <2>2. CASE m \in Broadcast(p, "DISCONNECTFRAME", frame[p], p)
    BY <2>2, BroadcastSent DEF Types
  <2>3. CASE \E q \in Players \ {p} : m \in FrameData(p, q, Told(p).frames[q])
    <3>1. PICK q \in Players \ {p} : m \in FrameData(p, q, Told(p).frames[q])
      BY <2>3
    <3>2. Told(p).frames[q] \in Nat
      <4>1. Told(p).frames \in [Players -> 0..(MaxFrame + 1)]
        BY ToldType, ManagerType
      <4> QED BY <4>1, DisconnectAssumption
    <3> QED BY <3>1, <3>2, FramesSent
  <2> QED BY <1>2, <2>1, <2>2, <2>3, NotifyEffect
<1> QED BY <1>1, <1>2, NotifyEffect DEF Types

WithTimeOut(d, q) == [d EXCEPT !.timedOut = @ \cup {q}]

LEMMA TimeOutEffect ==
  ASSUME Types, NEW p \in Players, NEW q \in Players, TimeOut(p, q)
  PROVE  /\ dm' = [dm EXCEPT ![p] = WithTimeOut(dm[p], q)]
         /\ dm' \in [Players -> Manager]
         /\ \A r \in Players \ {p} : dm'[r] = dm[r]
         /\ dm'[p].screenOn = dm[p].screenOn /\ dm'[p].notified = dm[p].notified
         /\ dm'[p].frames = dm[p].frames /\ dm'[p].heard = dm[p].heard
         /\ dm'[p].votes = dm[p].votes /\ dm'[p].timedOut = dm[p].timedOut \cup {q}
<1> DEFINE d == WithTimeOut(dm[p], q)
<1>1. dm[p] \in Manager
  BY DEF Types
<1>2. d \in Manager
  BY <1>1 DEF Manager, WithTimeOut
<1>3. /\ d.screenOn = dm[p].screenOn /\ d.notified = dm[p].notified
      /\ d.frames = dm[p].frames /\ d.heard = dm[p].heard
      /\ d.votes = dm[p].votes /\ d.timedOut = dm[p].timedOut \cup {q}
  BY <1>1 DEF Manager, WithTimeOut
<1>4. dm' = [dm EXCEPT ![p] = d]
  BY DEF TimeOut, WithTimeOut
<1> HIDE DEF d
<1>5. /\ dm' \in [Players -> Manager] /\ dm'[p] = d
      /\ \A r \in Players \ {p} : dm'[r] = dm[r]
  BY <1>2, <1>4, ManagersType
<1> QED BY <1>3, <1>4, <1>5 DEF d

LEMMA TimeOutTypes ==
  ASSUME Types, NEW p \in Players, NEW q \in Players, TimeOut(p, q)
  PROVE  Types'
<1>1. dm' = [dm EXCEPT ![p] = WithTimeOut(dm[p], q)] /\ dm' \in [Players -> Manager]
  BY TimeOutEffect
<1>2. UNCHANGED <<alive, frame, members, held, pending, net, executed>>
  BY DEF TimeOut
<1> QED BY <1>1, <1>2 DEF Types

(* A vote that is counted.                                                 *)
LEMMA CountedVote ==
  ASSUME Types, NEW p \in Players, NEW q \in Players, NEW s \in Players, NEW f \in Frames,
         dm' = [dm EXCEPT ![p].votes[s][q] = f]
  PROVE  /\ dm' \in [Players -> Manager]
         /\ \A r \in Players \ {p} : dm'[r] = dm[r]
         /\ dm'[p].screenOn = dm[p].screenOn /\ dm'[p].notified = dm[p].notified
         /\ dm'[p].frames = dm[p].frames /\ dm'[p].heard = dm[p].heard
         /\ dm'[p].timedOut = dm[p].timedOut
         /\ \A x, y \in Players : x # s => dm'[p].votes[x][y] = dm[p].votes[x][y]
<1> DEFINE votes == [dm[p].votes EXCEPT ![s][q] = f]
<1>1. dm[p] \in Manager /\ f \in 0..(MaxFrame + 1)
  BY DisconnectAssumption DEF Types, Frames
<1>2. /\ votes \in [Players -> [Players -> 0..(MaxFrame + 1)]]
      /\ \A x, y \in Players : x # s => votes[x][y] = dm[p].votes[x][y]
  BY <1>1, ManagerType
<1> DEFINE e == [dm[p] EXCEPT !.votes = votes]
<1>3. dm' = [dm EXCEPT ![p] = e]
  OBVIOUS
<1> HIDE DEF votes
<1>4. e \in Manager
  BY <1>1, <1>2 DEF Manager
<1>5. /\ e.screenOn = dm[p].screenOn /\ e.notified = dm[p].notified
      /\ e.frames = dm[p].frames /\ e.heard = dm[p].heard
      /\ e.timedOut = dm[p].timedOut /\ e.votes = votes
  BY <1>1 DEF Manager
<1> HIDE DEF e
<1>6. dm' \in [Players -> Manager] /\ dm'[p] = e /\ \A r \in Players \ {p} : dm'[r] = dm[r]
  BY <1>3, <1>4, ManagersType
<1> QED BY <1>2, <1>5, <1>6

LEMMA VoteTypes ==
  ASSUME Types, NEW p \in Players, NEW s \in Players, Vote(p, s)
  PROVE  Types'
<1>1. frame[p] \in Frames
  BY DEF Types
<1>2. dm' \in [Players -> Manager]
  BY <1>1, CountedVote DEF Vote
<1>3. ASSUME NEW m \in net' PROVE MessageOK(m)
  <2>1. CASE m \in net
    BY <2>1 DEF Types
  <2>2. CASE m \in Broadcast(p, "DISCONNECTVOTE", frame[p], s)
    BY <1>1, <2>2, BroadcastSent
  <2> QED BY <1>3, <2>1, <2>2 DEF Vote
<1>4. UNCHANGED <<alive, frame, members, held, pending, executed>>
  BY DEF Vote
<1> QED BY <1>2, <1>3, <1>4 DEF Types

(* Somebody is no longer connected.                                        *)
LEMMA RemoveEffect ==
  ASSUME Types, NEW p \in Players, NEW s \in Players \ {p}, NEW others,
         Remove(p, s, others)
  PROVE  /\ members' \in [Players -> SUBSET Players]
         /\ \A q \in Players : q \in members'[q]
         /\ members'[p] = members[p] \ {s}
         /\ \A q \in Players \ {p} : members'[q] = members[q]
         /\ held' \in [Players -> [Players -> SUBSET (1..MaxFrame)]]
         /\ held'[p] = [held[p] EXCEPT ![s] = {}]
         /\ \A q \in Players \ {p} : held'[q] = held[q]
         /\ net \cup others \subseteq net'
         /\ \A m \in net' : \/ m \in net \/ m \in others
                            \/ \E f \in 1..MaxFrame : m \in SendLocal(p, members[p] \ {s}, f)
<1>1. /\ members' = [members EXCEPT ![p] = members[p] \ {s}]
      /\ held' = [held EXCEPT ![p] = [held[p] EXCEPT ![s] = {}]]
  BY DEF Remove, Types
<1>2. /\ members' \in [Players -> SUBSET Players]
      /\ \A q \in Players : q \in members'[q]
      /\ members'[p] = members[p] \ {s}
      /\ \A q \in Players \ {p} : members'[q] = members[q]
  BY <1>1 DEF Types
<1>3. /\ held' \in [Players -> [Players -> SUBSET (1..MaxFrame)]]
      /\ held'[p] = [held[p] EXCEPT ![s] = {}]
      /\ \A q \in Players \ {p} : held'[q] = held[q]
  <2>1. held[p] \in [Players -> SUBSET (1..MaxFrame)]
    BY DEF Types
  <2> DEFINE h == [held[p] EXCEPT ![s] = {}]
  <2>2. h \in [Players -> SUBSET (1..MaxFrame)] /\ h = [held[p] EXCEPT ![s] = {}]
    BY <2>1
  <2>3. held' = [held EXCEPT ![p] = h]
    BY <1>1
  <2> HIDE DEF h
  <2> QED BY <2>2, <2>3 DEF Types
<1>4. \A m \in Resent(p, members[p] \ {s}) :
        \E f \in 1..MaxFrame : m \in SendLocal(p, members[p] \ {s}, f)
  <2>1. pending[p] \subseteq 1..MaxFrame
    BY DEF Types
  <2> QED BY <2>1 DEF Resent
<1>5. /\ net \cup others \subseteq net'
      /\ net' \subseteq net \cup others \cup Resent(p, members[p] \ {s})
  BY DEF Remove
<1> QED BY <1>2, <1>3, <1>4, <1>5

LEMMA RemoveSent ==
  ASSUME Types, NEW p \in Players, NEW s \in Players \ {p}, Remove(p, s, {})
  PROVE  \A m \in net' : \/ m \in net
                         \/ \E f \in 1..MaxFrame : m \in SendLocal(p, members[p] \ {s}, f)
<1>1. \A m \in Resent(p, members[p] \ {s}) :
        \E f \in 1..MaxFrame : m \in SendLocal(p, members[p] \ {s}, f)
  <2>1. pending[p] \subseteq 1..MaxFrame
    BY DEF Types
  <2> QED BY <2>1 DEF Resent
<1>2. net' \subseteq net \cup Resent(p, members[p] \ {s})
  BY DEF Remove
<1> QED BY <1>1, <1>2

LEMMA RemoveTypes ==
  ASSUME Types, NEW p \in Players, NEW s \in Players \ {p}, NEW others,
         Remove(p, s, others), \A m \in others : MessageOK(m),
         UNCHANGED <<alive, frame, pending, dm, executed>>
  PROVE  Types'
<1>1. ASSUME NEW m \in net' PROVE MessageOK(m)
  <2>1. p \in members[p] \ {s} /\ members[p] \ {s} \in SUBSET Players
    BY DEF Types
  <2>2. ASSUME NEW f \in 1..MaxFrame, m \in SendLocal(p, members[p] \ {s}, f)
        PROVE  MessageOK(m)
    BY <2>1, <2>2, LocalSent
  <2>3. m \in net => MessageOK(m)
    BY DEF Types
  <2> QED BY <1>1, <2>2, <2>3, RemoveEffect
<1>2. /\ members' \in [Players -> SUBSET Players]
      /\ \A q \in Players : q \in members'[q]
      /\ held' \in [Players -> [Players -> SUBSET (1..MaxFrame)]]
  BY RemoveEffect
<1>4. /\ members'[p] = members[p] \ {s} /\ held'[p] = [held[p] EXCEPT ![s] = {}]
      /\ \A q \in Players \ {p} : members'[q] = members[q]
      /\ \A q \in Players \ {p} : held'[q] = held[q]
  BY RemoveEffect
<1>5. held[p] \in [Players -> SUBSET (1..MaxFrame)]
  BY DEF Types
<1>3. ASSUME NEW q \in Players, NEW r \in Players, r \notin members'[q]
      PROVE  held'[q][r] = {}
  <2>1. CASE q = p /\ r = s
    BY <1>4, <1>5, <2>1
  <2>2. CASE ~(q = p /\ r = s)
    <3>1. CASE q = p
      <4>1. r \notin members[q] /\ r # s
        BY <1>4, <1>3, <2>2, <3>1
      <4>2. held'[q][r] = held[q][r]
        BY <1>4, <1>5, <3>1, <4>1
      <4> QED BY <4>1, <4>2 DEF Types
    <3>2. CASE q # p
      <4>1. r \notin members[q]
        BY <1>4, <1>3, <3>2
      <4> QED BY <1>4, <3>2, <4>1 DEF Types
    <3> QED BY <3>1, <3>2
  <2> QED BY <2>1, <2>2
<1> QED BY <1>1, <1>2, <1>3 DEF Types

(* The orders of the player that decides.                                  *)
Orders(p, s) ==
  {m \in Broadcast(p, "DISCONNECTPLAYER", Max({dm[p].frames[q] : q \in Players}), s) :
     m.to # s}

LEMMA OrdersSent ==
  ASSUME Types, NEW p \in Players, NEW s \in Players, NEW m \in Orders(p, s)
  PROVE  /\ m.kind = "DISCONNECTPLAYER" /\ m.src = p /\ m.from = p /\ m.slot = s
         /\ m.to \in ((members[p] \cap alive) \ {p, s}) /\ MessageOK(m)
<1> DEFINE last == Max({dm[p].frames[q] : q \in Players})
<1>1. m \in Broadcast(p, "DISCONNECTPLAYER", last, s) /\ m.to # s
  BY DEF Orders
<1> HIDE DEF last
<1>2. PICK q \in (members[p] \ {p}) \cap alive :
        m = Message(p, q, "DISCONNECTPLAYER", p, last, s, {q})
  BY <1>1 DEF Broadcast
<1>3. q \in Players
  BY DEF Types
<1> QED BY <1>1, <1>2, <1>3 DEF Message, MessageOK

LEMMA DisconnectEffect ==
  ASSUME Types, NEW p \in Players, NEW s \in Players, Disconnect(p, s)
  PROVE  /\ s \in members[p] \ {p} /\ Remove(p, s, Orders(p, s))
         /\ UNCHANGED <<alive, frame, pending, dm, executed>>
BY DEF Disconnect, Orders

LEMMA DisconnectTypes ==
  ASSUME Types, NEW p \in Players, NEW s \in Players, Disconnect(p, s)
  PROVE  Types'
<1>1. s \in Players \ {p} /\ \A m \in Orders(p, s) : MessageOK(m)
  BY DisconnectEffect, OrdersSent DEF Types
<1> QED BY <1>1, DisconnectEffect, RemoveTypes

LEMMA AckStage2Types ==
  ASSUME Types, NEW p \in Players, NEW f \in pending[p], AckStage2(p, f)
  PROVE  Types'
<1>1. pending' \in [Players -> SUBSET (1..MaxFrame)]
  BY DEF AckStage2, Types
<1> QED BY <1>1 DEF AckStage2, Types

LEMMA CrashEffect ==
  ASSUME Types, NEW p \in Players, Crash(p)
  PROVE  /\ alive' = alive \ {p} /\ net' \subseteq net /\ members' = members
         /\ dm' \in [Players -> Manager]
         /\ \A q \in Players \ {p} :
              /\ held'[q] = held[q] /\ pending'[q] = pending[q] /\ dm'[q] = dm[q]
              /\ executed'[q] = executed[q] /\ frame'[q] = frame[q]
         /\ \A m \in net : m.to # p => m \in net'
<1>1. NewManager \in Manager
  BY DisconnectAssumption DEF NewManager, Manager
<1>2. dm' \in [Players -> Manager]
  BY <1>1 DEF Crash, Types
<1> QED BY <1>2 DEF Crash, Types

LEMMA CrashTypes ==
  ASSUME Types, NEW p \in Players, Crash(p)
  PROVE  Types'
<1>1. 1 \in Frames /\ \A q \in Players : frame[q] \in Int
  BY DisconnectAssumption DEF Frames, Types
<1>2. /\ frame' \in [Players -> Frames]
      /\ executed' \in [Players -> Seq(SUBSET Players)]
      /\ \A q \in Players : Len(executed'[q]) = frame'[q] - 1
  BY <1>1 DEF Crash, Types
<1>3. /\ held' \in [Players -> [Players -> SUBSET (1..MaxFrame)]]
      /\ pending' \in [Players -> SUBSET (1..MaxFrame)]
      /\ \A q, r \in Players : r \notin members'[q] => held'[q][r] = {}
  BY DEF Crash, Types
<1>4. /\ alive' \subseteq Players /\ members' = members /\ dm' \in [Players -> Manager]
      /\ \A m \in net' : MessageOK(m)
  BY CrashEffect DEF Types
<1> QED BY <1>2, <1>3, <1>4 DEF Types

LEMMA ReceiveDataEffect ==
  ASSUME Types, NEW m \in net, Receive(m), ReceiveData(m)
  PROVE  /\ m.kind = "DATA" /\ m.frame \in 1..MaxFrame /\ m.frame >= frame[m.to]
         /\ held' \in [Players -> [Players -> SUBSET (1..MaxFrame)]]
         /\ held'[m.to][m.from] = held[m.to][m.from] \cup {m.frame}
         /\ \A q, r \in Players : q # m.to \/ r # m.from => held'[q][r] = held[q][r]
         /\ net' = net \cup Relayed(m)
         /\ UNCHANGED <<alive, frame, members, pending, dm, executed>>
<1>1. MessageOK(m) /\ frame[m.to] \in Frames /\ MaxFrame \in Nat
  BY DisconnectAssumption DEF Types, MessageOK
<1>2. m.kind = "DATA" /\ m.frame >= frame[m.to]
  BY DEF ReceiveData
<1>3. m.frame \in 1..MaxFrame
  BY <1>1, <1>2 DEF MessageOK, Frames
<1> DEFINE h == [held[m.to] EXCEPT ![m.from] = held[m.to][m.from] \cup {m.frame}]
<1>4. held' = [held EXCEPT ![m.to] = h]
  BY DEF ReceiveData
<1>5. /\ h \in [Players -> SUBSET (1..MaxFrame)]
      /\ h[m.from] = held[m.to][m.from] \cup {m.frame}
      /\ \A r \in Players : r # m.from => h[r] = held[m.to][r]
  BY <1>1, <1>3 DEF Types, MessageOK
<1> HIDE DEF h
<1>6. /\ held' \in [Players -> [Players -> SUBSET (1..MaxFrame)]]
      /\ held'[m.to] = h /\ \A q \in Players : q # m.to => held'[q] = held[q]
  <2>1. m.to \in Players /\ held \in [Players -> [Players -> SUBSET (1..MaxFrame)]]
    BY <1>1 DEF Types, MessageOK
  <2> QED BY <1>4, <1>5, <2>1
<1>7. /\ held'[m.to][m.from] = held[m.to][m.from] \cup {m.frame}
      /\ \A q, r \in Players : q # m.to \/ r # m.from => held'[q][r] = held[q][r]
  BY <1>5, <1>6
<1> QED BY <1>2, <1>3, <1>6, <1>7 DEF ReceiveData

LEMMA ReceiveDataTypes ==
  ASSUME Types, NEW m \in net, Receive(m), ReceiveData(m)
  PROVE  Types'
<1>1. m.kind = "DATA" /\ MessageOK(m) /\ m.from \in members[m.to]
  BY DEF ReceiveData, Types, Receive
<1>2. ASSUME NEW n \in net' PROVE MessageOK(n)
  BY <1>1, <1>2, ReceiveDataEffect, RelaySent DEF Types
<1>3. ASSUME NEW q \in Players, NEW r \in Players, r \notin members'[q]
      PROVE  held'[q][r] = {}
  <2>1. r \notin members[q] /\ ~(q = m.to /\ r = m.from)
    BY <1>1, <1>3, ReceiveDataEffect
  <2>2. held'[q][r] = held[q][r]
    BY <2>1, ReceiveDataEffect
  <2> QED BY <2>1, <2>2 DEF Types
<1> QED BY <1>2, <1>3, ReceiveDataEffect DEF Types

LEMMA ReceiveFrameEffect ==
  ASSUME Types, NEW m \in net, ReceiveFrame(m)
  PROVE  /\ m.kind = "DISCONNECTFRAME" /\ m.frame \in Frames /\ m.from = m.src
         /\ dm' = [dm EXCEPT ![m.to] = HearFrame(dm[m.to], m.from, m.frame)]
         /\ net \subseteq net'
         /\ \A n \in net' : n \in net \/ n \in FrameData(m.to, m.from, m.frame)
         /\ UNCHANGED <<alive, frame, members, held, pending, executed>>
<1>1. MessageOK(m)
  BY DEF Types
<1> QED BY <1>1 DEF ReceiveFrame, MessageOK

LEMMA ReceiveFrameTypes ==
  ASSUME Types, NEW m \in net, ReceiveFrame(m)
  PROVE  Types'
<1>1. MessageOK(m) /\ m.kind = "DISCONNECTFRAME"
  BY ReceiveFrameEffect DEF Types
<1>2. m.frame \in Frames /\ m.frame \in Nat /\ m.to \in Players /\ m.from \in Players \ {m.to}
  BY <1>1, DisconnectAssumption DEF MessageOK, Frames
<1>3. dm[m.to] \in Manager
  BY <1>2 DEF Types
<1>4. HearFrame(dm[m.to], m.from, m.frame) \in Manager
  BY <1>2, <1>3, HearFrameType
<1>5. dm' \in [Players -> Manager]
  BY <1>2, <1>4, ReceiveFrameEffect, ManagersType
<1>6. ASSUME NEW n \in net' PROVE MessageOK(n)
  <2>1. CASE n \in net
    BY <2>1 DEF Types
  <2>2. CASE n \in FrameData(m.to, m.from, m.frame)
    BY <1>2, <2>2, FramesSent
  <2> QED BY <1>6, <2>1, <2>2, ReceiveFrameEffect
<1> QED BY <1>5, <1>6, ReceiveFrameEffect DEF Types

LEMMA ReceiveScreenOffEffect ==
  ASSUME Types, NEW m \in net, ReceiveScreenOff(m)
  PROVE  /\ m.kind = "SCREENOFF" /\ m.frame \in Frames /\ m.from = m.src
         /\ dm' = [dm EXCEPT ![m.to] = HearScreenOff(dm[m.to], m.from, m.frame)]
         /\ UNCHANGED <<alive, frame, members, held, pending, net, executed>>
<1>1. MessageOK(m)
  BY DEF Types
<1> QED BY <1>1 DEF ReceiveScreenOff, MessageOK

LEMMA ReceiveScreenOffTypes ==
  ASSUME Types, NEW m \in net, ReceiveScreenOff(m)
  PROVE  Types'
<1>1. MessageOK(m) /\ m.frame \in Frames
  BY ReceiveScreenOffEffect DEF Types
<1>2. dm[m.to] \in Manager /\ m.to \in Players /\ m.from \in Players
  BY <1>1 DEF Types, MessageOK
<1>3. HearScreenOff(dm[m.to], m.from, m.frame) \in Manager
  BY <1>1, <1>2, HearScreenOffType
<1>4. dm' \in [Players -> Manager]
  BY <1>2, <1>3, ReceiveScreenOffEffect, ManagersType
<1> QED BY <1>4, ReceiveScreenOffEffect DEF Types

LEMMA ReceiveVoteEffect ==
  ASSUME Types, NEW m \in net, ReceiveVote(m)
  PROVE  /\ m.kind = "DISCONNECTVOTE" /\ m.frame \in Frames
         /\ m.to \in Players /\ m.from \in Players /\ m.slot \in Players
         /\ dm' = [dm EXCEPT ![m.to].votes[m.slot][m.from] = m.frame]
         /\ UNCHANGED <<alive, frame, members, held, pending, net, executed>>
<1>1. MessageOK(m)
  BY DEF Types
<1> QED BY <1>1 DEF ReceiveVote, MessageOK

LEMMA ReceiveVoteTypes ==
  ASSUME Types, NEW m \in net, ReceiveVote(m)
  PROVE  Types'
<1>1. dm' \in [Players -> Manager]
  <2>1. /\ m.frame \in Frames
        /\ m.to \in Players /\ m.from \in Players /\ m.slot \in Players
        /\ dm' = [dm EXCEPT ![m.to].votes[m.slot][m.from] = m.frame]
    BY ReceiveVoteEffect
  <2> QED BY <2>1, CountedVote
<1> QED BY <1>1, ReceiveVoteEffect DEF Types

LEMMA ReceiveDisconnectTypes ==
  ASSUME Types, NEW m \in net, ReceiveDisconnect(m)
  PROVE  Types'
<1>1. m.to \in Players /\ m.slot \in Players \ {m.to}
  BY DEF Types, MessageOK, ReceiveDisconnect
<1>2. Remove(m.to, m.slot, {}) /\ UNCHANGED <<alive, frame, pending, dm, executed>>
  BY DEF ReceiveDisconnect
<1> QED BY <1>1, <1>2, RemoveTypes

LEMMA NextTypes == Types /\ [Next]_vars => Types'
<1> SUFFICES ASSUME Types, [Next]_vars PROVE Types'
  OBVIOUS
<1>1. ASSUME NEW p \in Players, Advance(p) PROVE Types'
  BY <1>1, AdvanceTypes
<1>2. ASSUME NEW p \in Players, TurnOnScreen(p) PROVE Types'
  BY <1>2, TurnOnScreenTypes
<1>3. ASSUME NEW p \in Players, Notify(p) PROVE Types'
  BY <1>3, NotifyTypes
<1>4. ASSUME NEW p \in Players, Crash(p) PROVE Types'
  BY <1>4, CrashTypes
<1>5. ASSUME NEW p \in Players, NEW q \in Players, TimeOut(p, q) PROVE Types'
  BY <1>5, TimeOutTypes
<1>6. ASSUME NEW p \in Players, NEW q \in Players, Vote(p, q) PROVE Types'
  BY <1>6, VoteTypes
<1>7. ASSUME NEW p \in Players, NEW q \in Players, Disconnect(p, q) PROVE Types'
  BY <1>7, DisconnectTypes
<1>8. ASSUME NEW p \in Players, NEW f \in pending[p], AckStage2(p, f) PROVE Types'
  BY <1>8, AckStage2Types
<1>9. ASSUME NEW m \in net, Receive(m) PROVE Types'
  <2>1. CASE ReceiveData(m)
    BY <1>9, <2>1, ReceiveDataTypes
  <2>2. CASE ReceiveFrame(m)
    BY <2>2, ReceiveFrameTypes
  <2>3. CASE ReceiveScreenOff(m)
    BY <2>3, ReceiveScreenOffTypes
  <2>4. CASE ReceiveVote(m)
    BY <2>4, ReceiveVoteTypes
  <2>5. CASE ReceiveDisconnect(m)
    BY <2>5, ReceiveDisconnectTypes
  <2> QED BY <1>9, <2>1, <2>2, <2>3, <2>4, <2>5 DEF Receive
<1>10. CASE UNCHANGED vars
  BY <1>10 DEF vars, Types
<1> QED BY <1>1, <1>2, <1>3, <1>4, <1>5, <1>6, <1>7, <1>8, <1>9, <1>10 DEF Next

(* State is of its type in every behaviour, whatever crashes and however   *)
(* late messages are; a player has as many frames in its log as it has     *)
(* executed, and nothing of a player it has disconnected.                  *)
THEOREM TypeCorrect == Spec => []TypeOK
<1>1. Types => TypeOK
  BY ManagerType DEF Types, TypeOK, Frames
<1>2. Spec => []Types
  BY InitTypes, NextTypes, PTL DEF Spec
<1> QED BY <1>1, <1>2, PTL

-----------------------------------------------------------------------------
(* If messages are fast against the time-outs, what a player has heard of  *)
(* the others is true, or what corrects it is under way.                   *)

SaysOff(q, p, f) == Message(q, p, "SCREENOFF", q, f, q, {p})
SaysFrame(q, p, f) == Message(q, p, "DISCONNECTFRAME", q, f, q, {p})

(* Nobody that has not crashed is disconnected, timed out, or voted out.   *)
OnlyDeadAreOut ==
  /\ \A p, q \in alive :
       /\ q \in members[p] /\ q \notin dm[p].timedOut
       /\ \A r \in Players : dm[p].votes[q][r] = 0
  /\ \A m \in net : m.kind \in {"DISCONNECTVOTE", "DISCONNECTPLAYER"} => m.slot \notin alive

(* The screen is up, and the others have been told.                        *)
Waiting(q) == dm[q].screenOn /\ dm[q].notified

FramesReached ==
  \A p, q \in alive : dm[p].frames[q] <= frame[q]

(* Whom p has heard of on a frame waits there, or has told p otherwise.    *)
HeardTrue ==
  \A p, q \in alive : dm[p].heard[q] =>
    \/ dm[p].frames[q] = frame[q] /\ Waiting(q)
    \/ p # q /\ dm[p].frames[q] < frame[q] /\ SaysOff(q, p, dm[p].frames[q]) \in net

SaidTrue ==
  \A m \in net : m.src \in alive =>
    /\ m.kind = "SCREENOFF" => m.frame < frame[m.src]
    /\ m.kind = "DISCONNECTFRAME" /\ m.to \in alive =>
         \/ m.frame = frame[m.src] /\ Waiting(m.src)
         \/ m.frame < frame[m.src] /\ SaysOff(m.src, m.to, m.frame) \in net

NotifiedTrue ==
  \A p \in alive : dm[p].notified /\ dm[p].screenOn =>
    /\ dm[p].frames[p] = frame[p]
    /\ \A q \in alive \ {p} : SaysFrame(p, q, frame[p]) \in net

Truth == OnlyDeadAreOut /\ FramesReached /\ HeardTrue /\ SaidTrue /\ NotifiedTrue

LEMMA Numbers ==
  ASSUME Types
  PROVE  /\ MaxFrame \in Nat /\ \A p \in Players : frame[p] \in Nat /\ frame[p] >= 1
         /\ \A p \in Players : dm[p] \in Manager
         /\ \A p, q \in Players : dm[p].frames[q] \in Nat
<1>1. MaxFrame \in Nat
  BY DisconnectAssumption
<1>2. ASSUME NEW p \in Players PROVE dm[p] \in Manager
  BY DEF Types
<1>3. ASSUME NEW p \in Players, NEW q \in Players PROVE dm[p].frames[q] \in Nat
  BY <1>1, <1>2, ManagerType
<1> QED BY <1>1, <1>2, <1>3 DEF Types, Frames

LEMMA BroadcastReaches ==
  ASSUME NEW p, NEW kind, NEW f, NEW slot, NEW q \in (members[p] \ {p}) \cap alive
  PROVE  Message(p, q, kind, p, f, slot, {q}) \in Broadcast(p, kind, f, slot)
BY DEF Broadcast

(* Who has not crashed is not out.                                         *)
LEMMA NotOut ==
  ASSUME Types, OnlyDeadAreOut, NEW p \in alive, NEW q \in alive \ {p}
  PROVE  ~Out(p, q) /\ InGame(p, q)
<1>1. p \in Players /\ q \in Players /\ p \in members[p] /\ q \in members[p]
      /\ members[p] \subseteq Players /\ q \notin dm[p].timedOut
  BY DEF Types, OnlyDeadAreOut
<1>2. VotesAgainst(p, q) = {}
  BY <1>1, Numbers DEF OnlyDeadAreOut, VotesAgainst
<1>3. IsFiniteSet(members[p])
  BY <1>1, FS_Subset, DisconnectAssumption
<1>4. Cardinality(members[p]) \in Nat /\ Cardinality(members[p]) - 1 > 0
  <2>1. /\ IsFiniteSet(members[p] \ {p})
        /\ Cardinality(members[p] \ {p}) = Cardinality(members[p]) - 1
    BY <1>1, <1>3, FS_RemoveElement
  <2>2. Cardinality(members[p] \ {p}) # 0 /\ Cardinality(members[p] \ {p}) \in Nat
    BY <1>1, <2>1, FS_EmptySet, FS_CardinalityType
  <2> QED BY <1>3, <2>1, <2>2, FS_CardinalityType
<1>5. Cardinality(VotesAgainst(p, q)) = 0
  BY <1>2, FS_EmptySet
<1>6. ~VotedOut(p, q)
  BY <1>4, <1>5 DEF VotedOut
<1> QED BY <1>1, <1>6 DEF Out, InGame

LEMMA InitTruth == Init => Truth
<1> SUFFICES ASSUME Init PROVE Truth
  OBVIOUS
<1>1. Types
  BY InitTypes
<1>2. \A p \in Players : /\ dm[p].screenOn = FALSE /\ dm[p].timedOut = {}
                         /\ \A q \in Players : dm[p].frames[q] = 0 /\ ~dm[p].heard[q]
                         /\ \A q, s \in Players : dm[p].votes[s][q] = 0
  BY DEF Init, NewManager
<1>3. ASSUME NEW m \in net PROVE m.kind = "DATA"
  <2>1. PICK p \in Players, f \in 1..RunAhead : m \in SendLocal(p, Players, f)
    BY DEF Init
  <2>2. f \in 1..MaxFrame
    BY DisconnectAssumption
  <2> QED BY <2>1, <2>2, LocalSent
<1>4. alive = Players /\ \A p \in Players : frame[p] = 1 /\ members[p] = Players
  BY DEF Init
<1> QED BY <1>2, <1>3, <1>4 DEF Truth, OnlyDeadAreOut, FramesReached, HeardTrue, SaidTrue,
        NotifiedTrue

(* What the players have heard, and what they say of frames, is the same.  *)
LEMMA SameFrames ==
  ASSUME Types, Truth, alive' = alive, frame' = frame, net \subseteq net',
         \A p \in Players : /\ dm'[p].screenOn = dm[p].screenOn
                            /\ dm'[p].notified = dm[p].notified
                            /\ dm'[p].frames = dm[p].frames
                            /\ dm'[p].heard = dm[p].heard,
         \A p, q \in alive : /\ q \in members'[p] /\ q \notin dm'[p].timedOut
                             /\ \A r \in Players : dm'[p].votes[q][r] = 0,
         \A m \in net' : \/ m \in net \/ m.kind = "DATA"
                         \/ m.kind \in {"DISCONNECTVOTE", "DISCONNECTPLAYER"}
                            /\ m.slot \notin alive
  PROVE  Truth'
<1>1. alive \subseteq Players
  BY DEF Types
<1>2. OnlyDeadAreOut'
  BY DEF Truth, OnlyDeadAreOut
<1>3. FramesReached' /\ HeardTrue'
  <2>1. FramesReached'
    BY <1>1 DEF Truth, FramesReached
  <2>2. HeardTrue'
    BY <1>1 DEF Truth, HeardTrue, SaysOff, Message, Waiting
  <2> QED BY <2>1, <2>2
<1>4. SaidTrue'
  BY <1>1 DEF Truth, SaidTrue, SaysOff, Waiting
<1>5. NotifiedTrue'
  <2> SUFFICES ASSUME NEW p \in alive, dm'[p].notified, dm'[p].screenOn
               PROVE  /\ dm'[p].frames[p] = frame[p]
                      /\ \A q \in alive \ {p} : SaysFrame(p, q, frame[p]) \in net'
    BY DEF NotifiedTrue, SaysFrame
  <2>1. p \in Players /\ dm[p].notified /\ dm[p].screenOn
    BY <1>1
  <2>2. /\ dm[p].frames[p] = frame[p]
        /\ \A q \in alive \ {p} : SaysFrame(p, q, frame[p]) \in net
    BY <2>1 DEF Truth, NotifiedTrue
  <2> QED BY <2>1, <2>2
<1> QED BY <1>2, <1>3, <1>4, <1>5 DEF Truth

LEMMA AdvanceTruth ==
  ASSUME Types, Truth, NEW p \in Players, Advance(p)
  PROVE  Truth'
<1> DEFINE f == frame[p]
<1>1. /\ alive' = alive /\ members' = members /\ net \subseteq net' /\ p \in alive
      /\ frame'[p] = f + 1 /\ \A q \in Players \ {p} : frame'[q] = frame[q]
      /\ dm'[p] = ScreenOff(p) /\ \A q \in Players \ {p} : dm'[q] = dm[q]
  BY DEF Advance, Types
<1>2. /\ f \in Frames /\ f \in Nat /\ alive \subseteq Players
      /\ \A q, r \in Players : frame[q] \in Nat /\ dm[q].frames[r] \in Nat
  BY Numbers DEF Types
<1>3. ASSUME NEW m \in net', m \notin net
      PROVE  \/ m.kind = "DATA"
             \/ m.kind = "SCREENOFF" /\ m.src = p /\ m.frame = f
  <2>1. ASSUME NEW ff \in {f + RunAhead} \cap 1..MaxFrame, m \in SendLocal(p, members[p], ff)
        PROVE  m.kind = "DATA"
    BY <2>1, LocalSent DEF Types
  <2>2. CASE m \in Broadcast(p, "SCREENOFF", f, p)
    BY <1>2, <2>2, BroadcastSent
  <2> QED BY <1>3, <2>1, <2>2 DEF Advance
<1>4. ASSUME NEW q \in alive \ {p}, dm[p].screenOn
      PROVE  SaysOff(p, q, f) \in net'
  <2>1. q \in (members[p] \ {p}) \cap alive
    BY <1>1, <1>4 DEF Truth, OnlyDeadAreOut
  <2>2. SaysOff(p, q, f) \in Broadcast(p, "SCREENOFF", f, p)
    BY <2>1, BroadcastReaches DEF SaysOff
  <2> QED BY <1>4, <2>2 DEF Advance
<1>5. dm[p].frames[p] <= f /\ (dm[p].heard[p] => dm[p].screenOn)
  BY <1>1, <1>2 DEF Truth, FramesReached, HeardTrue, Waiting
<1> HIDE DEF f
<1>6. /\ ~dm'[p].screenOn /\ dm'[p].timedOut = {} /\ ~dm'[p].heard[p]
      /\ dm'[p].frames[p] \in Nat /\ dm'[p].frames[p] <= f
      /\ \A r \in Players \ {p} : /\ dm'[p].frames[r] = dm[p].frames[r]
                                  /\ dm'[p].heard[r] = dm[p].heard[r]
  <2>1. CASE dm[p].screenOn
    BY <1>1, <1>2, <1>5, <2>1, ScreenOffType DEF f
  <2>2. CASE ~dm[p].screenOn
    BY <1>1, <1>2, <1>5, <2>2, ScreenOffType
  <2> QED BY <2>1, <2>2
<1>7. \A q, s \in Players : dm'[p].votes[s][q] \in {0, dm[p].votes[s][q]}
  BY <1>1, ScreenOffType
<1>8. OnlyDeadAreOut'
  <2>1. ASSUME NEW q \in alive, NEW r \in alive
        PROVE  /\ r \in members'[q] /\ r \notin dm'[q].timedOut
               /\ \A x \in Players : dm'[q].votes[r][x] = 0
    <3>1. CASE q = p
      BY <1>1, <1>2, <1>6, <1>7, <3>1 DEF Truth, OnlyDeadAreOut
    <3>2. CASE q # p
      BY <1>1, <1>2, <3>2 DEF Truth, OnlyDeadAreOut
    <3> QED BY <3>1, <3>2
  <2>2. ASSUME NEW m \in net', m.kind \in {"DISCONNECTVOTE", "DISCONNECTPLAYER"}
        PROVE  m.slot \notin alive
    BY <1>3, <2>2 DEF Truth, OnlyDeadAreOut
  <2> QED BY <1>1, <2>1, <2>2 DEF OnlyDeadAreOut
<1>9. FramesReached'
  <2> SUFFICES ASSUME NEW q \in alive, NEW r \in alive PROVE dm'[q].frames[r] <= frame'[r]
    BY <1>1 DEF FramesReached
  <2>1. q \in Players /\ r \in Players /\ dm[q].frames[r] <= frame[r]
    BY <1>2 DEF Truth, FramesReached
  <2>2. CASE r = p /\ q = p
    BY <1>1, <1>2, <1>6, <2>2
  <2>3. CASE r # p \/ q # p
    <3>1. dm'[q].frames[r] = dm[q].frames[r]
      BY <1>1, <1>6, <2>1, <2>3
    <3>2. frame'[r] = frame[r] \/ frame'[r] = frame[r] + 1
      BY <1>1, <2>1 DEF f
    <3> QED BY <1>2, <2>1, <3>1, <3>2
  <2> QED BY <2>2, <2>3
<1>10. HeardTrue'
  <2> SUFFICES ASSUME NEW q \in alive, NEW r \in alive, dm'[q].heard[r]
               PROVE  \/ dm'[q].frames[r] = frame'[r] /\ Waiting(r)'
                      \/ q # r /\ dm'[q].frames[r] < frame'[r]
                         /\ SaysOff(r, q, dm'[q].frames[r]) \in net'
    BY <1>1 DEF HeardTrue, SaysOff
  <2>1. q \in Players /\ r \in Players /\ ~(q = p /\ r = p)
    BY <1>2, <1>6
  <2>2. dm'[q].frames[r] = dm[q].frames[r] /\ dm[q].heard[r]
    BY <1>1, <1>6, <2>1
  <2>3. \/ dm[q].frames[r] = frame[r] /\ Waiting(r)
        \/ q # r /\ dm[q].frames[r] < frame[r] /\ SaysOff(r, q, dm[q].frames[r]) \in net
    BY <2>2 DEF Truth, HeardTrue
  <2>4. CASE r = p
    <3>1. frame'[r] = frame[r] + 1 /\ q # r
      BY <1>1, <2>1, <2>4 DEF f
    <3>2. dm[q].frames[r] = frame[r] /\ Waiting(r) => SaysOff(r, q, frame[r]) \in net'
      BY <1>4, <2>1, <2>4 DEF f, Waiting
    <3> QED BY <1>1, <1>2, <2>1, <2>2, <2>3, <3>1, <3>2
  <2>5. CASE r # p
    BY <1>1, <2>1, <2>2, <2>3, <2>5 DEF Waiting
  <2> QED BY <2>4, <2>5
<1>11. SaidTrue'
  <2> SUFFICES ASSUME NEW m \in net', m.src \in alive
               PROVE  /\ m.kind = "SCREENOFF" => m.frame < frame'[m.src]
                      /\ m.kind = "DISCONNECTFRAME" /\ m.to \in alive =>
                           \/ m.frame = frame'[m.src] /\ Waiting(m.src)'
                           \/ /\ m.frame < frame'[m.src]
                              /\ SaysOff(m.src, m.to, m.frame) \in net'
    BY <1>1 DEF SaidTrue, SaysOff
  <2>1. CASE m \notin net
    BY <1>1, <1>2, <1>3, <2>1
  <2>2. CASE m \in net
    <3>1. /\ m.kind = "SCREENOFF" => m.frame < frame[m.src] /\ m.frame \in Nat
          /\ m.kind = "DISCONNECTFRAME" => m.frame \in Nat
          /\ m.kind = "DISCONNECTFRAME" /\ m.to \in alive =>
               \/ m.frame = frame[m.src] /\ Waiting(m.src)
               \/ m.frame < frame[m.src] /\ SaysOff(m.src, m.to, m.frame) \in net
      BY <2>2, DisconnectAssumption DEF Truth, SaidTrue, Types, MessageOK, Frames
    <3>2. CASE m.src = p
      <4>1. frame'[m.src] = frame[m.src] + 1 /\ frame[m.src] = f
        BY <1>1, <3>2 DEF f
      <4>2. m.to # p
        BY <2>2, <3>2 DEF Types, MessageOK
      <4>3. m.to \in alive /\ dm[m.src].screenOn => SaysOff(m.src, m.to, f) \in net'
        BY <1>4, <3>2, <4>2
      <4> QED BY <1>1, <1>2, <3>1, <4>1, <4>3 DEF Waiting
    <3>3. CASE m.src # p
      BY <1>1, <1>2, <3>1, <3>3 DEF Waiting
    <3> QED BY <3>2, <3>3
  <2> QED BY <2>1, <2>2
<1>12. NotifiedTrue'
  <2> SUFFICES ASSUME NEW q \in alive, dm'[q].notified, dm'[q].screenOn
               PROVE  /\ dm'[q].frames[q] = frame'[q]
                      /\ \A r \in alive \ {q} : SaysFrame(q, r, frame'[q]) \in net'
    BY <1>1 DEF NotifiedTrue, SaysFrame
  <2>1. q # p /\ q \in Players
    BY <1>2, <1>6
  <2> QED BY <1>1, <2>1 DEF Truth, NotifiedTrue
<1> QED BY <1>8, <1>9, <1>10, <1>11, <1>12 DEF Truth

LEMMA TurnOnScreenTruth ==
  ASSUME Types, Truth, NEW p \in Players, TurnOnScreen(p)
  PROVE  Truth'
<1>1. /\ UNCHANGED <<alive, frame, members, net>> /\ alive \subseteq Players
      /\ dm'[p] = TurnedOn(dm[p]) /\ \A q \in Players \ {p} : dm'[q] = dm[q]
  <2>1. dm[p] \in Manager
    BY DEF Types
  <2>2. TurnedOn(dm[p]) \in Manager /\ dm' = [dm EXCEPT ![p] = TurnedOn(dm[p])]
    BY <2>1, TurnOnScreenEffect, TurnedOnType
  <2>3. dm'[p] = TurnedOn(dm[p]) /\ \A q \in Players \ {p} : dm'[q] = dm[q]
    BY <2>2, ManagersType
  <2> QED BY <2>3 DEF TurnOnScreen, Types
<1>2. /\ dm'[p].timedOut = {} /\ ~dm'[p].notified /\ dm'[p].screenOn
      /\ \A q \in Players : /\ dm'[q].frames = dm[q].frames /\ dm'[q].heard = dm[q].heard
                            /\ dm'[q].votes = dm[q].votes
                            /\ Waiting(q) => Waiting(q)'
  <2>1. dm[p] \in Manager
    BY DEF Types
  <2>2. TurnedOn(dm[p]).screenOn
    BY <2>1 DEF Manager, TurnedOn
  <2>3. ~dm[p].screenOn
    BY DEF TurnOnScreen
  <2> QED BY <1>1, <2>1, <2>2, <2>3, TurnedOnType DEF Waiting
<1>3. OnlyDeadAreOut'
  BY <1>1, <1>2 DEF Truth, OnlyDeadAreOut
<1>4. FramesReached'
  BY <1>1, <1>2 DEF Truth, FramesReached
<1>5. HeardTrue'
  BY <1>1, <1>2 DEF Truth, HeardTrue, SaysOff, Message, Waiting
<1>6. SaidTrue'
  BY <1>1, <1>2 DEF Truth, SaidTrue, SaysOff, Waiting
<1>7. NotifiedTrue'
  BY <1>1, <1>2 DEF Truth, NotifiedTrue, SaysFrame
<1> QED BY <1>3, <1>4, <1>5, <1>6, <1>7 DEF Truth

LEMMA NotifyTruth ==
  ASSUME Types, Truth, NEW p \in Players, Notify(p)
  PROVE  Truth'
<1>1. /\ UNCHANGED <<alive, frame, members>> /\ alive \subseteq Players /\ net \subseteq net'
      /\ p \in alive /\ dm[p].screenOn
      /\ dm'[p] = Told(p) /\ \A q \in Players \ {p} : dm'[q] = dm[q]
  <2>1. Told(p) \in Manager /\ dm' = [dm EXCEPT ![p] = Told(p)]
    BY NotifyEffect, ToldType
  <2>2. dm'[p] = Told(p) /\ \A q \in Players \ {p} : dm'[q] = dm[q]
    BY <2>1, ManagersType
  <2>3. net \subseteq net' /\ UNCHANGED <<alive, frame, members>>
    BY NotifyEffect
  <2> QED BY <2>2, <2>3 DEF Notify, Types
<1>2. frame[p] \in Frames /\ \A q, r \in Players : frame[q] \in Nat /\ dm[q].frames[r] \in Nat
  BY Numbers DEF Types
<1>3. dm[p].frames[p] <= frame[p]
  BY <1>1 DEF Truth, FramesReached
<1>4. /\ dm'[p].screenOn /\ dm'[p].notified /\ dm'[p].timedOut = dm[p].timedOut
      /\ dm'[p].frames[p] = frame[p]
      /\ \A r \in Players \ {p} : /\ dm'[p].frames[r] = dm[p].frames[r]
                                  /\ dm'[p].heard[r] = dm[p].heard[r]
  BY <1>1, <1>2, <1>3, ToldType
<1>5. \A q, s \in Players : dm'[p].votes[s][q] \in {0, dm[p].votes[s][q]}
  BY <1>1, ToldType
<1>6. ASSUME NEW m \in net', m \notin net
      PROVE  \/ m.kind = "DATA"
             \/ m.kind = "DISCONNECTFRAME" /\ m.src = p /\ m.frame = frame[p]
  <2>1. CASE m \in Broadcast(p, "DISCONNECTFRAME", frame[p], p)
    BY <1>2, <2>1, BroadcastSent
  <2>2. CASE \E q \in Players \ {p} : m \in FrameData(p, q, Told(p).frames[q])
    <3>1. PICK q \in Players \ {p} : m \in FrameData(p, q, Told(p).frames[q])
      BY <2>2
    <3>2. Told(p).frames[q] \in Nat
      BY <1>1, <1>2, <1>4
    <3> QED BY <3>1, <3>2, FramesSent
  <2> QED BY <1>6, <2>1, <2>2, NotifyEffect
<1>7. \A q \in alive \ {p} : SaysFrame(p, q, frame[p]) \in net'
  <2> SUFFICES ASSUME NEW q \in alive \ {p} PROVE SaysFrame(p, q, frame[p]) \in net'
    OBVIOUS
  <2>1. q \in (members[p] \ {p}) \cap alive
    BY <1>1 DEF Truth, OnlyDeadAreOut
  <2>2. SaysFrame(p, q, frame[p]) \in Broadcast(p, "DISCONNECTFRAME", frame[p], p)
    BY <2>1, BroadcastReaches DEF SaysFrame
  <2> QED BY <2>2, NotifyEffect
<1>8. OnlyDeadAreOut'
  <2>1. ASSUME NEW q \in alive, NEW r \in alive
        PROVE  /\ r \in members'[q] /\ r \notin dm'[q].timedOut
               /\ \A x \in Players : dm'[q].votes[r][x] = 0
    <3>1. CASE q = p
      BY <1>1, <1>4, <1>5, <3>1 DEF Truth, OnlyDeadAreOut
    <3>2. CASE q # p
      BY <1>1, <3>2 DEF Truth, OnlyDeadAreOut
    <3> QED BY <3>1, <3>2
  <2>2. ASSUME NEW m \in net', m.kind \in {"DISCONNECTVOTE", "DISCONNECTPLAYER"}
        PROVE  m.slot \notin alive
    BY <1>6, <2>2 DEF Truth, OnlyDeadAreOut
  <2> QED BY <1>1, <2>1, <2>2 DEF OnlyDeadAreOut
<1>9. FramesReached'
  <2> SUFFICES ASSUME NEW q \in alive, NEW r \in alive PROVE dm'[q].frames[r] <= frame[r]
    BY <1>1 DEF FramesReached
  <2>1. q \in Players /\ r \in Players /\ dm[q].frames[r] <= frame[r]
    BY <1>1 DEF Truth, FramesReached
  <2> QED BY <1>1, <1>2, <1>4, <2>1
<1>10. HeardTrue'
  <2> SUFFICES ASSUME NEW q \in alive, NEW r \in alive, dm'[q].heard[r]
               PROVE  \/ dm'[q].frames[r] = frame[r] /\ Waiting(r)'
                      \/ q # r /\ dm'[q].frames[r] < frame[r]
                         /\ SaysOff(r, q, dm'[q].frames[r]) \in net'
    BY <1>1 DEF HeardTrue, SaysOff
  <2>1. CASE q = p /\ r = p
    BY <1>4, <2>1 DEF Waiting
  <2>2. CASE ~(q = p /\ r = p)
    <3>1. dm'[q].frames[r] = dm[q].frames[r] /\ dm[q].heard[r]
      BY <1>1, <1>4, <2>2
    <3>2. Waiting(r) => Waiting(r)'
      BY <1>1, <1>4 DEF Waiting
    <3> QED BY <1>1, <3>1, <3>2 DEF Truth, HeardTrue, Waiting
  <2> QED BY <2>1, <2>2
<1>11. SaidTrue'
  <2> SUFFICES ASSUME NEW m \in net', m.src \in alive
               PROVE  /\ m.kind = "SCREENOFF" => m.frame < frame[m.src]
                      /\ m.kind = "DISCONNECTFRAME" /\ m.to \in alive =>
                           \/ m.frame = frame[m.src] /\ Waiting(m.src)'
                           \/ /\ m.frame < frame[m.src]
                              /\ SaysOff(m.src, m.to, m.frame) \in net'
    BY <1>1 DEF SaidTrue, SaysOff
  <2>1. CASE m \notin net
    BY <1>4, <1>6, <2>1 DEF Waiting
  <2>2. CASE m \in net
    <3>1. Waiting(m.src) => Waiting(m.src)'
      BY <1>1, <1>4 DEF Waiting
    <3> QED BY <1>1, <2>2, <3>1 DEF Truth, SaidTrue, Waiting
  <2> QED BY <2>1, <2>2
<1>12. NotifiedTrue'
  <2> SUFFICES ASSUME NEW q \in alive, dm'[q].notified, dm'[q].screenOn
               PROVE  /\ dm'[q].frames[q] = frame[q]
                      /\ \A r \in alive \ {q} : SaysFrame(q, r, frame[q]) \in net'
    BY <1>1 DEF NotifiedTrue, SaysFrame
  <2>1. CASE q = p
    BY <1>4, <1>7, <2>1
  <2>2. CASE q # p
    BY <1>1, <2>2 DEF Truth, NotifiedTrue
  <2> QED BY <2>1, <2>2
<1> QED BY <1>8, <1>9, <1>10, <1>11, <1>12 DEF Truth

LEMMA CrashTruth ==
  ASSUME Types, Truth, NEW p \in Players, Crash(p)
  PROVE  Truth'
<1>1. /\ alive' = alive \ {p} /\ alive \subseteq Players /\ net' \subseteq net
      /\ members' = members
      /\ \A q \in alive' : q \in Players /\ q # p /\ dm'[q] = dm[q] /\ frame'[q] = frame[q]
      /\ \A m \in net : m.to # p => m \in net'
  BY CrashEffect DEF Types
<1>2. OnlyDeadAreOut'
  BY <1>1 DEF Truth, OnlyDeadAreOut
<1>3. FramesReached'
  BY <1>1 DEF Truth, FramesReached
<1>4. \A q, r, f : SaysOff(q, r, f).to = r /\ SaysFrame(q, r, f).to = r
  BY DEF SaysOff, SaysFrame, Message
<1>5. HeardTrue'
  <2> SUFFICES ASSUME NEW q \in alive', NEW r \in alive', dm[q].heard[r]
               PROVE  \/ dm[q].frames[r] = frame[r] /\ Waiting(r)
                      \/ q # r /\ dm[q].frames[r] < frame[r]
                         /\ SaysOff(r, q, dm[q].frames[r]) \in net'
    BY <1>1 DEF HeardTrue, SaysOff, Waiting
  <2> QED BY <1>1, <1>4 DEF Truth, HeardTrue
<1>6. SaidTrue'
  <2> SUFFICES ASSUME NEW m \in net', m.src \in alive'
               PROVE  /\ m.kind = "SCREENOFF" => m.frame < frame[m.src]
                      /\ m.kind = "DISCONNECTFRAME" /\ m.to \in alive' =>
                           \/ m.frame = frame[m.src] /\ Waiting(m.src)
                           \/ /\ m.frame < frame[m.src]
                              /\ SaysOff(m.src, m.to, m.frame) \in net'
    BY <1>1 DEF SaidTrue, SaysOff, Waiting
  <2> QED BY <1>1, <1>4 DEF Truth, SaidTrue
<1>7. NotifiedTrue'
  <2> SUFFICES ASSUME NEW q \in alive', dm[q].notified, dm[q].screenOn
               PROVE  /\ dm[q].frames[q] = frame[q]
                      /\ \A r \in alive' \ {q} : SaysFrame(q, r, frame[q]) \in net'
    BY <1>1 DEF NotifiedTrue, SaysFrame
  <2> QED BY <1>1, <1>4 DEF Truth, NotifiedTrue
<1> QED BY <1>2, <1>3, <1>5, <1>6, <1>7 DEF Truth

LEMMA TimeOutTruth ==
  ASSUME Types, Truth, NEW p \in Players, NEW q \in Players, TimeOut(p, q)
  PROVE  Truth'
<1>1. UNCHANGED <<alive, frame, members, net>> /\ alive \subseteq Players /\ q \notin alive
  BY DEF TimeOut, Types
<1>2. \A r \in Players : /\ dm'[r].screenOn = dm[r].screenOn
                         /\ dm'[r].notified = dm[r].notified
                         /\ dm'[r].frames = dm[r].frames /\ dm'[r].heard = dm[r].heard
                         /\ dm'[r].votes = dm[r].votes
                         /\ dm'[r].timedOut \subseteq dm[r].timedOut \cup {q}
  BY TimeOutEffect
<1>3. \A r, x \in alive : /\ x \in members'[r] /\ x \notin dm'[r].timedOut
                          /\ \A y \in Players : dm'[r].votes[x][y] = 0
  BY <1>1, <1>2 DEF Truth, OnlyDeadAreOut
<1> QED BY <1>1, <1>2, <1>3, SameFrames

(* A vote that is cast or counted is one against a player that has crashed.*)
LEMMA CountedTruth ==
  ASSUME Types, Truth, NEW p \in Players, NEW q \in Players, NEW s \in Players \ alive,
         NEW f \in Frames, dm' = [dm EXCEPT ![p].votes[s][q] = f],
         UNCHANGED <<alive, frame, members>>, net \subseteq net',
         \A m \in net' : m \in net \/ (m.kind = "DISCONNECTVOTE" /\ m.slot = s)
  PROVE  Truth'
<1>1. \A r \in Players : /\ dm'[r].screenOn = dm[r].screenOn
                         /\ dm'[r].notified = dm[r].notified
                         /\ dm'[r].frames = dm[r].frames /\ dm'[r].heard = dm[r].heard
                         /\ dm'[r].timedOut = dm[r].timedOut
                         /\ \A x, y \in Players : x # s => dm'[r].votes[x][y] = dm[r].votes[x][y]
  BY CountedVote
<1>2. \A r, x \in alive : /\ x \in members'[r] /\ x \notin dm'[r].timedOut
                          /\ \A y \in Players : dm'[r].votes[x][y] = 0
  BY <1>1 DEF Truth, OnlyDeadAreOut, Types
<1> QED BY <1>1, <1>2, SameFrames

LEMMA VoteTruth ==
  ASSUME Timely, Types, Truth, NEW p \in Players, NEW s \in Players, Vote(p, s)
  PROVE  Truth'
<1>1. /\ s \in Players \ alive /\ frame[p] \in Frames
      /\ dm' = [dm EXCEPT ![p].votes[s][p] = frame[p]]
      /\ UNCHANGED <<alive, frame, members>> /\ net \subseteq net'
  BY DEF Vote, Types
<1>2. \A m \in net' : m \in net \/ (m.kind = "DISCONNECTVOTE" /\ m.slot = s)
  BY <1>1, BroadcastSent DEF Vote
<1> QED BY <1>1, <1>2, CountedTruth

LEMMA RemoveTruth ==
  ASSUME Types, Truth, NEW p \in Players, NEW s \in Players \ {p}, s \notin alive,
         NEW others, Remove(p, s, others), UNCHANGED <<alive, frame, dm>>,
         \A m \in others : m.kind = "DISCONNECTPLAYER" /\ m.slot = s
  PROVE  Truth'
<1>1. net \subseteq net' /\ members'[p] = members[p] \ {s}
      /\ \A q \in Players \ {p} : members'[q] = members[q]
  BY RemoveEffect
<1>2. ASSUME NEW m \in net'
      PROVE  \/ m \in net \/ m.kind = "DATA"
             \/ m.kind \in {"DISCONNECTVOTE", "DISCONNECTPLAYER"} /\ m.slot \notin alive
  <2>1. p \in members[p] \ {s} /\ members[p] \ {s} \in SUBSET Players
    BY DEF Types
  <2>2. ASSUME NEW f \in 1..MaxFrame, m \in SendLocal(p, members[p] \ {s}, f)
        PROVE  m.kind = "DATA"
    BY <2>1, <2>2, LocalSent
  <2> QED BY <2>2, RemoveEffect
<1>3. \A q, r \in alive : /\ r \in members'[q] /\ r \notin dm'[q].timedOut
                          /\ \A y \in Players : dm'[q].votes[r][y] = 0
  <2> SUFFICES ASSUME NEW q \in alive, NEW r \in alive
               PROVE  /\ r \in members'[q] /\ r \notin dm[q].timedOut
                      /\ \A y \in Players : dm[q].votes[r][y] = 0
    OBVIOUS
  <2>1. q \in Players /\ r \in members[q] /\ r # s
    BY DEF Types, Truth, OnlyDeadAreOut
  <2>2. r \in members'[q]
    BY <1>1, <2>1
  <2> QED BY <2>2 DEF Truth, OnlyDeadAreOut
<1> QED BY <1>1, <1>2, <1>3, SameFrames

LEMMA DisconnectTruth ==
  ASSUME Types, Truth, NEW p \in Players, NEW s \in Players, Disconnect(p, s)
  PROVE  Truth'
<1>1. s \in Players \ {p} /\ Remove(p, s, Orders(p, s)) /\ UNCHANGED <<alive, frame, dm>>
  BY DisconnectEffect DEF Types
<1>2. s \notin alive
  BY <1>1, NotOut DEF Disconnect, Truth
<1>3. \A m \in Orders(p, s) : m.kind = "DISCONNECTPLAYER" /\ m.slot = s
  BY OrdersSent
<1> QED BY <1>1, <1>2, <1>3, RemoveTruth

LEMMA AckStage2Truth ==
  ASSUME Types, Truth, NEW p \in Players, NEW f \in pending[p], AckStage2(p, f)
  PROVE  Truth'
<1>1. UNCHANGED <<alive, frame, members, dm, net>>
  BY DEF AckStage2
<1>2. \A q, r \in alive : /\ r \in members'[q] /\ r \notin dm'[q].timedOut
                          /\ \A y \in Players : dm'[q].votes[r][y] = 0
  BY <1>1 DEF Truth, OnlyDeadAreOut
<1> QED BY <1>1, <1>2, SameFrames

LEMMA ReceiveDataTruth ==
  ASSUME Types, Truth, NEW m \in net, Receive(m), ReceiveData(m)
  PROVE  Truth'
<1>1. UNCHANGED <<alive, frame, members, dm>> /\ net \subseteq net'
      /\ \A n \in net' : n \in net \/ n.kind = "DATA"
  BY ReceiveDataEffect, RelaySent
<1>2. \A q, r \in alive : /\ r \in members'[q] /\ r \notin dm'[q].timedOut
                          /\ \A y \in Players : dm'[q].votes[r][y] = 0
  BY <1>1 DEF Truth, OnlyDeadAreOut
<1> QED BY <1>1, <1>2, SameFrames

LEMMA ReceiveFrameTruth ==
  ASSUME Types, Truth, NEW m \in net, Receive(m), ReceiveFrame(m)
  PROVE  Truth'
<1> DEFINE p == m.to
<1> DEFINE s == m.from
<1> DEFINE d == HearFrame(dm[p], s, m.frame)
<1>1. /\ m.kind = "DISCONNECTFRAME" /\ m.frame \in Frames /\ m.frame \in Nat /\ m.src = s
      /\ p \in alive /\ p \in Players /\ s \in Players \ {p} /\ alive \subseteq Players
      /\ UNCHANGED <<alive, frame, members>> /\ net \subseteq net'
  <2>1. m.to \in alive
    BY DEF Receive
  <2>2. MessageOK(m) /\ alive \subseteq Players
    BY DEF Types
  <2>3. m.frame \in Frames /\ m.from = m.src
    BY ReceiveFrameEffect
  <2> QED BY <2>1, <2>2, <2>3, ReceiveFrameEffect, DisconnectAssumption DEF MessageOK, Frames
<1>2. dm[p] \in Manager /\ d \in Manager /\ dm' = [dm EXCEPT ![p] = d]
  <2>1. dm[p] \in Manager
    BY <1>1 DEF Types
  <2> QED BY <1>1, <2>1, ReceiveFrameEffect, HearFrameType
<1>3. dm'[p] = d /\ \A q \in Players \ {p} : dm'[q] = dm[q]
  BY <1>1, <1>2, ManagersType
<1>4. /\ d.screenOn = dm[p].screenOn /\ d.notified = dm[p].notified
      /\ d.timedOut = dm[p].timedOut
      /\ \A r \in Players \ {s} : d.frames[r] = dm[p].frames[r] /\ d.heard[r] = dm[p].heard[r]
      /\ dm[p].frames[s] >= m.frame => d = dm[p]
      /\ dm[p].frames[s] < m.frame => d.frames[s] = m.frame
  <2>1. dm[p] \in Manager /\ s \in Players /\ m.frame \in Frames
    BY <1>1, <1>2
  <2> QED BY <2>1, HearFrameType
<1>5. \A q, x \in Players : d.votes[x][q] \in {0, dm[p].votes[x][q]}
  BY <1>1, <1>2, HearFrameType
<1>6. ASSUME NEW n \in net', n \notin net PROVE n.kind = "DATA"
  <2>1. n \in FrameData(p, s, m.frame)
    BY <1>6, ReceiveFrameEffect
  <2> QED BY <1>1, <2>1, FramesSent
<1>7. s \in alive => \/ m.frame = frame[s] /\ Waiting(s)
                     \/ m.frame < frame[s] /\ SaysOff(s, p, m.frame) \in net
  BY <1>1 DEF Truth, SaidTrue
<1>8. \A q, r \in Players : frame[q] \in Nat /\ dm[q].frames[r] \in Nat
  BY Numbers
<1> HIDE DEF p, s, d
<1>9. \A q \in Players : dm'[q].screenOn = dm[q].screenOn /\ dm'[q].notified = dm[q].notified
                         /\ dm'[q].timedOut = dm[q].timedOut
  BY <1>3, <1>4
<1>10. OnlyDeadAreOut'
  <2>1. ASSUME NEW q \in alive, NEW r \in alive
        PROVE  /\ r \in members'[q] /\ r \notin dm'[q].timedOut
               /\ \A x \in Players : dm'[q].votes[r][x] = 0
    <3>1. CASE q = p
      BY <1>1, <1>3, <1>4, <1>5, <3>1 DEF Truth, OnlyDeadAreOut
    <3>2. CASE q # p
      BY <1>1, <1>3, <3>2 DEF Truth, OnlyDeadAreOut
    <3> QED BY <3>1, <3>2
  <2>2. ASSUME NEW n \in net', n.kind \in {"DISCONNECTVOTE", "DISCONNECTPLAYER"}
        PROVE  n.slot \notin alive
    BY <1>6, <2>2 DEF Truth, OnlyDeadAreOut
  <2> QED BY <1>1, <2>1, <2>2 DEF OnlyDeadAreOut
<1>11. FramesReached'
  <2> SUFFICES ASSUME NEW q \in alive, NEW r \in alive PROVE dm'[q].frames[r] <= frame[r]
    BY <1>1 DEF FramesReached
  <2>1. q \in Players /\ r \in Players /\ dm[q].frames[r] <= frame[r]
    BY <1>1 DEF Truth, FramesReached
  <2>2. CASE q = p /\ r = s /\ dm[p].frames[s] < m.frame
    BY <1>1, <1>3, <1>4, <1>7, <1>8, <2>1, <2>2
  <2>3. CASE ~(q = p /\ r = s /\ dm[p].frames[s] < m.frame)
    BY <1>1, <1>3, <1>4, <1>8, <2>1, <2>3
  <2> QED BY <2>2, <2>3
<1>12. HeardTrue'
  <2> SUFFICES ASSUME NEW q \in alive, NEW r \in alive, dm'[q].heard[r]
               PROVE  \/ dm'[q].frames[r] = frame[r] /\ Waiting(r)
                      \/ q # r /\ dm'[q].frames[r] < frame[r]
                         /\ SaysOff(r, q, dm'[q].frames[r]) \in net
    <3>1. \A r \in alive : Waiting(r)' <=> Waiting(r)
      BY <1>1, <1>9 DEF Waiting
    <3>2. \A q, r, f : SaysOff(r, q, f)' = SaysOff(r, q, f)
      BY DEF SaysOff, Message
    <3> QED BY <1>1, <3>1, <3>2 DEF HeardTrue
  <2>1. CASE q = p /\ r = s /\ dm[p].frames[s] < m.frame
    BY <1>1, <1>3, <1>4, <1>7, <1>8, <2>1
  <2>2. CASE ~(q = p /\ r = s /\ dm[p].frames[s] < m.frame)
    <3>1. dm'[q].frames[r] = dm[q].frames[r] /\ dm[q].heard[r]
      BY <1>1, <1>3, <1>4, <1>8, <2>2
    <3> QED BY <3>1 DEF Truth, HeardTrue
  <2> QED BY <2>1, <2>2
<1>13. SaidTrue'
  <2> SUFFICES ASSUME NEW n \in net', n.src \in alive
               PROVE  /\ n.kind = "SCREENOFF" => n.frame < frame[n.src]
                      /\ n.kind = "DISCONNECTFRAME" /\ n.to \in alive =>
                           \/ n.frame = frame[n.src] /\ Waiting(n.src)
                           \/ /\ n.frame < frame[n.src]
                              /\ SaysOff(n.src, n.to, n.frame) \in net
    BY <1>1, <1>9 DEF SaidTrue, SaysOff, Waiting
  <2> QED BY <1>6 DEF Truth, SaidTrue
<1>14. NotifiedTrue'
  <2> SUFFICES ASSUME NEW q \in alive, dm[q].notified, dm[q].screenOn
               PROVE  /\ dm'[q].frames[q] = frame[q]
                      /\ \A r \in alive \ {q} : SaysFrame(q, r, frame[q]) \in net
    BY <1>1, <1>9 DEF NotifiedTrue, SaysFrame
  <2> QED BY <1>1, <1>3, <1>4 DEF Truth, NotifiedTrue
<1> QED BY <1>10, <1>11, <1>12, <1>13, <1>14 DEF Truth

LEMMA ReceiveScreenOffTruth ==
  ASSUME Types, Truth, NEW m \in net, Receive(m), ReceiveScreenOff(m)
  PROVE  Truth'
<1> DEFINE p == m.to
<1> DEFINE s == m.from
<1> DEFINE d == HearScreenOff(dm[p], s, m.frame)
<1>1. /\ m.kind = "SCREENOFF" /\ m.frame \in Frames /\ m.frame \in Nat /\ m.src = s
      /\ p \in alive /\ p \in Players /\ s \in Players \ {p} /\ alive \subseteq Players
      /\ UNCHANGED <<alive, frame, members, net>>
  <2>1. m.to \in alive
    BY DEF Receive
  <2>2. MessageOK(m) /\ alive \subseteq Players
    BY DEF Types
  <2>3. m.frame \in Frames /\ m.from = m.src
    BY ReceiveScreenOffEffect
  <2> QED BY <2>1, <2>2, <2>3, ReceiveScreenOffEffect, DisconnectAssumption DEF MessageOK, Frames
<1>2. dm[p] \in Manager /\ d \in Manager /\ dm' = [dm EXCEPT ![p] = d]
  <2>1. dm[p] \in Manager
    BY <1>1 DEF Types
  <2> QED BY <1>1, <2>1, ReceiveScreenOffEffect, HearScreenOffType
<1>3. dm'[p] = d /\ \A q \in Players \ {p} : dm'[q] = dm[q]
  BY <1>1, <1>2, ManagersType
<1>4. /\ d.screenOn = dm[p].screenOn /\ d.notified = dm[p].notified
      /\ d.timedOut = dm[p].timedOut
      /\ \A r \in Players \ {s} : d.frames[r] = dm[p].frames[r] /\ d.heard[r] = dm[p].heard[r]
      /\ dm[p].frames[s] > m.frame => d = dm[p]
      /\ dm[p].frames[s] <= m.frame => d.frames[s] = m.frame /\ ~d.heard[s]
  <2>1. dm[p] \in Manager /\ s \in Players /\ m.frame \in Frames
    BY <1>1, <1>2
  <2> QED BY <2>1, HearScreenOffType
<1>5. \A q, x \in Players : d.votes[x][q] \in {0, dm[p].votes[x][q]}
  BY <1>1, <1>2, HearScreenOffType
<1>7. s \in alive => m.frame < frame[s]
  BY <1>1 DEF Truth, SaidTrue
<1>8. \A q, r \in Players : frame[q] \in Nat /\ dm[q].frames[r] \in Nat
  BY Numbers
<1> HIDE DEF p, s, d
<1>9. \A q \in Players : dm'[q].screenOn = dm[q].screenOn /\ dm'[q].notified = dm[q].notified
                         /\ dm'[q].timedOut = dm[q].timedOut
  BY <1>3, <1>4
<1>10. OnlyDeadAreOut'
  <2>1. ASSUME NEW q \in alive, NEW r \in alive
        PROVE  /\ r \in members'[q] /\ r \notin dm'[q].timedOut
               /\ \A x \in Players : dm'[q].votes[r][x] = 0
    <3>1. CASE q = p
      BY <1>1, <1>3, <1>4, <1>5, <3>1 DEF Truth, OnlyDeadAreOut
    <3>2. CASE q # p
      BY <1>1, <1>3, <3>2 DEF Truth, OnlyDeadAreOut
    <3> QED BY <3>1, <3>2
  <2> QED BY <1>1, <2>1 DEF Truth, OnlyDeadAreOut
<1>11. FramesReached'
  <2> SUFFICES ASSUME NEW q \in alive, NEW r \in alive PROVE dm'[q].frames[r] <= frame[r]
    BY <1>1 DEF FramesReached
  <2>1. q \in Players /\ r \in Players /\ dm[q].frames[r] <= frame[r]
    BY <1>1 DEF Truth, FramesReached
  <2>2. CASE q = p /\ r = s /\ dm[p].frames[s] <= m.frame
    BY <1>1, <1>3, <1>4, <1>7, <1>8, <2>1, <2>2
  <2>3. CASE ~(q = p /\ r = s /\ dm[p].frames[s] <= m.frame)
    BY <1>1, <1>3, <1>4, <1>8, <2>1, <2>3
  <2> QED BY <2>2, <2>3
<1>12. HeardTrue'
  <2> SUFFICES ASSUME NEW q \in alive, NEW r \in alive, dm'[q].heard[r]
               PROVE  \/ dm'[q].frames[r] = frame[r] /\ Waiting(r)
                      \/ q # r /\ dm'[q].frames[r] < frame[r]
                         /\ SaysOff(r, q, dm'[q].frames[r]) \in net
    <3>1. \A r \in alive : Waiting(r)' <=> Waiting(r)
      BY <1>1, <1>9 DEF Waiting
    <3>2. \A q, r, f : SaysOff(r, q, f)' = SaysOff(r, q, f)
      BY DEF SaysOff, Message
    <3> QED BY <1>1, <3>1, <3>2 DEF HeardTrue
  <2>1. ~(q = p /\ r = s /\ dm[p].frames[s] <= m.frame)
    BY <1>3, <1>4
  <2>2. dm'[q].frames[r] = dm[q].frames[r] /\ dm[q].heard[r]
    BY <1>1, <1>3, <1>4, <1>8, <2>1
  <2> QED BY <2>2 DEF Truth, HeardTrue
<1>13. SaidTrue'
  BY <1>1, <1>9 DEF Truth, SaidTrue, SaysOff, Waiting
<1>14. NotifiedTrue'
  <2> SUFFICES ASSUME NEW q \in alive, dm[q].notified, dm[q].screenOn
               PROVE  /\ dm'[q].frames[q] = frame[q]
                      /\ \A r \in alive \ {q} : SaysFrame(q, r, frame[q]) \in net
    BY <1>1, <1>9 DEF NotifiedTrue, SaysFrame
  <2> QED BY <1>1, <1>3, <1>4 DEF Truth, NotifiedTrue
<1> QED BY <1>10, <1>11, <1>12, <1>13, <1>14 DEF Truth

LEMMA ReceiveVoteTruth ==
  ASSUME Types, Truth, NEW m \in net, ReceiveVote(m)
  PROVE  Truth'
<1>1. /\ m.slot \in Players \ alive /\ m.frame \in Frames /\ m.to \in Players
      /\ m.from \in Players /\ dm' = [dm EXCEPT ![m.to].votes[m.slot][m.from] = m.frame]
      /\ UNCHANGED <<alive, frame, members>> /\ net' = net
  BY ReceiveVoteEffect DEF Truth, OnlyDeadAreOut
<1> QED BY <1>1, CountedTruth

LEMMA ReceiveDisconnectTruth ==
  ASSUME Types, Truth, NEW m \in net, ReceiveDisconnect(m)
  PROVE  Truth'
<1>1. /\ m.to \in Players /\ m.slot \in Players \ {m.to} /\ m.slot \notin alive
      /\ Remove(m.to, m.slot, {}) /\ UNCHANGED <<alive, frame, dm>>
  BY DEF Types, MessageOK, ReceiveDisconnect, Truth, OnlyDeadAreOut
<1> QED BY <1>1, RemoveTruth

LEMMA NextTruth == ASSUME Timely PROVE Types /\ Truth /\ [Next]_vars => Truth'
<1> SUFFICES ASSUME Types, Truth, [Next]_vars PROVE Truth'
  OBVIOUS
<1>1. ASSUME NEW p \in Players, Advance(p) PROVE Truth'
  BY <1>1, AdvanceTruth
<1>2. ASSUME NEW p \in Players, TurnOnScreen(p) PROVE Truth'
  BY <1>2, TurnOnScreenTruth
<1>3. ASSUME NEW p \in Players, Notify(p) PROVE Truth'
  BY <1>3, NotifyTruth
<1>4. ASSUME NEW p \in Players, Crash(p) PROVE Truth'
  BY <1>4, CrashTruth
<1>5. ASSUME NEW p \in Players, NEW q \in Players, TimeOut(p, q) PROVE Truth'
  BY <1>5, TimeOutTruth
<1>6. ASSUME NEW p \in Players, NEW q \in Players, Vote(p, q) PROVE Truth'
  BY <1>6, VoteTruth
<1>7. ASSUME NEW p \in Players, NEW q \in Players, Disconnect(p, q) PROVE Truth'
  BY <1>7, DisconnectTruth
<1>8. ASSUME NEW p \in Players, NEW f \in pending[p], AckStage2(p, f) PROVE Truth'
  BY <1>8, AckStage2Truth
<1>9. ASSUME NEW m \in net, Receive(m) PROVE Truth'
  <2>1. CASE ReceiveData(m)
    BY <1>9, <2>1, ReceiveDataTruth
  <2>2. CASE ReceiveFrame(m)
    BY <1>9, <2>2, ReceiveFrameTruth
  <2>3. CASE ReceiveScreenOff(m)
    BY <1>9, <2>3, ReceiveScreenOffTruth
  <2>4. CASE ReceiveVote(m)
    BY <2>4, ReceiveVoteTruth
  <2>5. CASE ReceiveDisconnect(m)
    BY <2>5, ReceiveDisconnectTruth
  <2> QED BY <1>9, <2>1, <2>2, <2>3, <2>4, <2>5 DEF Receive
<1>10. CASE UNCHANGED vars
  <2>1. UNCHANGED <<alive, frame, members, dm, net>>
    BY <1>10 DEF vars
  <2>2. \A q, r \in alive : /\ r \in members'[q] /\ r \notin dm'[q].timedOut
                            /\ \A y \in Players : dm'[q].votes[r][y] = 0
    BY <2>1 DEF Truth, OnlyDeadAreOut
  <2> QED BY <2>1, <2>2, SameFrames
<1> QED BY <1>1, <1>2, <1>3, <1>4, <1>5, <1>6, <1>7, <1>8, <1>9, <1>10 DEF Next

(* Whoever decides has heard of all that have not crashed, and what it has *)
(* heard is what they do: had one of them gone on, what it says of that    *)
(* would still be under way.                                               *)
LEMMA DeciderKnows ==
  ASSUME Timely, Types, Truth, NEW p \in alive, NEW s \in Players, Disconnect(p, s),
         NEW q \in alive
  PROVE  frame[q] = frame[p] /\ Waiting(q)
<1>1. p \in Players /\ q \in Players /\ q \in members[p]
  BY DEF Types, Truth, OnlyDeadAreOut
<1>2. /\ dm[p].screenOn /\ dm[p].notified /\ AllOnSameFrame(p)
      /\ \A m \in net : {m.src, m.to} \subseteq alive => Arrived(m)
  BY DEF Disconnect, Quiet
<1>3. dm[p].frames[p] = frame[p]
  BY <1>2 DEF Truth, NotifiedTrue
<1>4. CASE q = p
  BY <1>2, <1>4 DEF Waiting
<1>5. CASE q # p
  <2>1. dm[p].heard[q] /\ dm[p].frames[q] = dm[p].frames[p]
    BY <1>1, <1>2, <1>5, NotOut DEF AllOnSameFrame, Truth
  <2>2. dm[p].frames[q] \in Nat
    BY <1>1, Numbers
  <2>3. SaysOff(q, p, dm[p].frames[q]) \notin net
    <3> DEFINE m == SaysOff(q, p, dm[p].frames[q])
    <3>1. m.src = q /\ m.to = p /\ m.from = q /\ m.kind = "SCREENOFF"
          /\ m.frame = dm[p].frames[q]
      BY DEF SaysOff, Message
    <3> HIDE DEF m
    <3>2. ~Arrived(m)
      BY <1>1, <2>1, <2>2, <3>1 DEF Arrived
    <3>3. m \notin net
      BY <1>2, <3>1, <3>2
    <3> QED BY <3>3 DEF m
  <2> QED BY <1>3, <2>1, <2>3 DEF Truth, HeardTrue
<1> QED BY <1>4, <1>5

(* If messages are fast against the time-outs, whoever disconnects         *)
(* somebody is on the frame all others that have not crashed are on, in    *)
(* whatever order their messages came in, whoever crashes and whenever.    *)
THEOREM DecidedOnOneFrameHolds == ASSUME Timely PROVE Spec => DecidedOnOneFrame
<1>1. Spec => [](Types /\ Truth)
  BY InitTypes, InitTruth, NextTypes, NextTruth, PTL DEF Spec
<1>2. Types /\ Truth =>
        [\A p, q \in alive : \A s \in Players :
           Disconnect(p, s) /\ q \in members[p] => frame[q] = frame[p]]_vars
  BY DeciderKnows
<1> QED BY <1>1, <1>2, PTL DEF DecidedOnOneFrame

-----------------------------------------------------------------------------
(* If moreover only one player may crash, and data does not overtake the   *)
(* orders to disconnect it, the other players stay in lockstep.            *)

OneMayFail == \E s \in Players : Failing \subseteq {s}

Victim == CHOOSE s \in Players : Failing \subseteq {s}
Others == Players \ {Victim}

(* Only a packet router, the first or the one after it, is asked to relay. *)
RelaysByRouter ==
  \A m \in net : m.kind = "DATA" =>
    m.relay = {m.to} \/ m.to = Router(Players) \/ m.to = Router(Others)

(* p's log: everybody's commands before frame D, then those of the others. *)
LogEndsAt(p, D) ==
  \A f \in 1..(frame[p] - 1) : executed[p][f] = IF f < D THEN Players ELSE Others

Undecided ==
  /\ \A p \in alive : members[p] = Players /\ LogEndsAt(p, MaxFrame + 1)
  /\ \A m \in net : m.kind # "DISCONNECTPLAYER"

(* p has not obeyed d's order yet: it cannot execute frame D meanwhile.    *)
MustObey(p, d, D) ==
  /\ frame[p] = D /\ Waiting(p) /\ ~AllCommandsReady(p)
  /\ \E m \in net : m.kind = "DISCONNECTPLAYER" /\ m.src = d /\ m.to = p
  /\ \A m \in net : m.kind = "DATA" /\ m.to = p /\ m.src \in Others \ {d} =>
       m.frame < D \/ m.frame \in held[p][m.from]
  /\ \A q \in Others : /\ dm[q].frames[p] = D /\ dm[q].frames[q] <= D
                       /\ dm[q].screenOn => dm[q].notified

(* d has disconnected the victim on frame D.                               *)
Decided(d, D) ==
  /\ alive = Others /\ d \in Others /\ members[d] = Others
  /\ \A q \in Others : d <= q
  /\ \A m \in net : m.kind = "DISCONNECTPLAYER" => m.slot = Victim /\ m.src = d
  /\ \A p \in Others : /\ members[p] = Others \/ (members[p] = Players /\ MustObey(p, d, D))
                       /\ frame[p] >= D
                       /\ LogEndsAt(p, D)

OneCrash ==
  /\ Others \subseteq alive
  /\ Undecided \/ \E d \in Players, D \in Frames : Decided(d, D)

LEMMA VictimFails == ASSUME OneMayFail PROVE Victim \in Players /\ Failing \subseteq {Victim}
BY DEF OneMayFail, Victim

(* The data a step sends, and by whom it is to be relayed.                 *)
LEMMA DataSent ==
  ASSUME Types, Next, NEW m \in net', m \notin net, m.kind = "DATA"
  PROVE  m.src \in alive' /\ (m.relay = {m.to} \/ m.to = Router(members'[m.src]))
<1>1. ASSUME NEW p \in Players, Advance(p) PROVE m.src = p /\ p \in alive'
             /\ (m.relay = {m.to} \/ m.to = Router(members'[m.src]))
  <2>1. /\ frame[p] \in Frames /\ members' = members /\ p \in alive' /\ p \in members[p]
        /\ members[p] \in SUBSET Players
    BY <1>1 DEF Advance, Types
  <2>2. m \notin Broadcast(p, "SCREENOFF", frame[p], p)
    BY <2>1, BroadcastSent
  <2>3. PICK f \in {frame[p] + RunAhead} \cap 1..MaxFrame : m \in SendLocal(p, members[p], f)
    BY <1>1, <2>2 DEF Advance
  <2> QED BY <2>1, <2>3, LocalSent
<1>2. ASSUME NEW p \in Players, Notify(p) PROVE p \in alive' /\ m.src = p /\ m.relay = {m.to}
  <2>1. frame[p] \in Frames /\ p \in alive'
    BY <1>2 DEF Notify, Types
  <2>2. m \notin Broadcast(p, "DISCONNECTFRAME", frame[p], p)
    BY <2>1, BroadcastSent
  <2>3. PICK q \in Players \ {p} : m \in FrameData(p, q, Told(p).frames[q])
    BY <1>2, <2>2, NotifyEffect
  <2>4. Told(p).frames[q] \in Nat
    <3>1. Told(p).frames \in [Players -> 0..(MaxFrame + 1)]
      BY ToldType, ManagerType
    <3> QED BY <3>1, DisconnectAssumption
  <2> QED BY <2>1, <2>3, <2>4, FramesSent
<1>3. ASSUME NEW p \in Players, TurnOnScreen(p) \/ Crash(p) PROVE FALSE
  BY <1>3 DEF TurnOnScreen, Crash
<1>4. ASSUME NEW p \in Players, NEW q \in Players, TimeOut(p, q) PROVE FALSE
  BY <1>4 DEF TimeOut
<1>5. ASSUME NEW p \in Players, NEW s \in Players, Vote(p, s) PROVE FALSE
  <2>1. m \in Broadcast(p, "DISCONNECTVOTE", frame[p], s) /\ frame[p] \in Frames
    BY <1>5 DEF Vote, Types
  <2> QED BY <2>1, BroadcastSent
<1>6. ASSUME NEW p \in alive, NEW s \in Players \ {p}, NEW others, Remove(p, s, others),
             \A n \in others : n.kind # "DATA", alive' = alive
      PROVE  m.src \in alive' /\ (m.relay = {m.to} \/ m.to = Router(members'[m.src]))
  <2>1. p \in Players /\ p \in members[p] \ {s} /\ members[p] \ {s} \in SUBSET Players
    BY DEF Types
  <2>2. PICK f \in 1..MaxFrame : m \in SendLocal(p, members[p] \ {s}, f)
    BY <1>6, <2>1, RemoveEffect
  <2>3. members'[p] = members[p] \ {s}
    BY <1>6, <2>1, RemoveEffect
  <2>4. m.src = p /\ (m.relay = {m.to} \/ m.to = Router(members[p] \ {s}))
    BY <2>1, <2>2, LocalSent
  <2> QED BY <1>6, <2>3, <2>4
<1>7. ASSUME NEW p \in Players, NEW s \in Players, Disconnect(p, s)
      PROVE  m.src \in alive' /\ (m.relay = {m.to} \/ m.to = Router(members'[m.src]))
  <2>1. /\ s \in Players \ {p} /\ Remove(p, s, Orders(p, s)) /\ alive' = alive /\ p \in alive
        /\ \A n \in Orders(p, s) : n.kind # "DATA"
    BY <1>7, DisconnectEffect, OrdersSent DEF Types, Disconnect
  <2> QED BY <1>6, <2>1
<1>8. ASSUME NEW p \in Players, NEW f \in pending[p], AckStage2(p, f) PROVE FALSE
  BY <1>8 DEF AckStage2
<1>9. ASSUME NEW n \in net, Receive(n)
      PROVE  m.src \in alive' /\ (m.relay = {m.to} \/ m.to = Router(members'[m.src]))
  <2>1. CASE ReceiveData(n)
    <3>1. m \in Relayed(n) /\ n.kind = "DATA" /\ alive' = alive /\ n.to \in alive
      BY <1>9, <2>1, ReceiveDataEffect DEF Receive
    <3> QED BY <3>1, RelaySent
  <2>2. CASE ReceiveFrame(n)
    <3>1. /\ n.kind = "DISCONNECTFRAME" /\ n.frame \in Nat /\ n.to \in alive /\ alive' = alive
          /\ n.to \in Players /\ n.from \in Players \ {n.to}
      BY <1>9, <2>2, ReceiveFrameEffect, DisconnectAssumption
         DEF Receive, Types, MessageOK, Frames
    <3>2. m \in FrameData(n.to, n.from, n.frame)
      BY <2>2, ReceiveFrameEffect
    <3> QED BY <3>1, <3>2, FramesSent
  <2>3. CASE ReceiveScreenOff(n) \/ ReceiveVote(n)
    BY <2>3, ReceiveScreenOffEffect, ReceiveVoteEffect
  <2>4. CASE ReceiveDisconnect(n)
    <3>1. /\ n.to \in alive /\ n.slot \in Players \ {n.to} /\ Remove(n.to, n.slot, {})
          /\ alive' = alive
      BY <1>9, <2>4 DEF Receive, Types, MessageOK, ReceiveDisconnect
    <3> QED BY <1>6, <3>1
  <2> QED BY <1>9, <2>1, <2>2, <2>3, <2>4 DEF Receive
<1> QED BY <1>1, <1>2, <1>3, <1>4, <1>5, <1>7, <1>8, <1>9 DEF Next

(* Messages only go, if at all, with the player they were for.             *)
LEMMA RelaysKept ==
  ASSUME Types, OneCrash', RelaysByRouter, Next
  PROVE  RelaysByRouter'
<1> SUFFICES ASSUME NEW m \in net', m.kind = "DATA"
             PROVE  m.relay = {m.to} \/ m.to = Router(Players) \/ m.to = Router(Others)
  BY DEF RelaysByRouter
<1>1. CASE m \in net
  BY <1>1 DEF RelaysByRouter
<1>2. CASE m \notin net
  <2>1. \A p \in alive' : members'[p] \in {Players, Others}
    BY DEF OneCrash, Undecided, Decided
  <2> QED BY <1>2, <2>1, DataSent
<1> QED BY <1>1, <1>2

LEMMA InitOneCrash == Init => OneCrash /\ RelaysByRouter
<1> SUFFICES ASSUME Init PROVE OneCrash /\ RelaysByRouter
  OBVIOUS
<1>1. ASSUME NEW m \in net
      PROVE  m.kind = "DATA" /\ (m.relay = {m.to} \/ m.to = Router(Players))
  <2>1. PICK p \in Players, f \in 1..RunAhead : m \in SendLocal(p, Players, f)
    BY DEF Init
  <2>2. f \in 1..MaxFrame
    BY DisconnectAssumption
  <2> QED BY <2>1, <2>2, LocalSent
<1>2. alive = Players /\ \A p \in Players : frame[p] = 1 /\ members[p] = Players
  BY DEF Init
<1>3. \A p \in Players : LogEndsAt(p, MaxFrame + 1)
  BY <1>2 DEF LogEndsAt
<1> QED BY <1>1, <1>2, <1>3 DEF OneCrash, Undecided, Others, RelaysByRouter

-----------------------------------------------------------------------------
(* Before the victim is disconnected.                                      *)

LEMMA LogKept ==
  ASSUME NEW p \in Players, NEW D, frame'[p] = frame[p], executed'[p] = executed[p],
         LogEndsAt(p, D)
  PROVE  LogEndsAt(p, D)'
BY DEF LogEndsAt

LEMMA LogExtended ==
  ASSUME Types, NEW p \in Players, NEW D \in Frames, Advance(p), LogEndsAt(p, D),
         members[p] = IF frame[p] < D THEN Players ELSE Others
  PROVE  LogEndsAt(p, D)'
<1>1. /\ frame[p] \in Nat /\ frame[p] >= 1 /\ frame'[p] = frame[p] + 1
      /\ executed[p] \in Seq(SUBSET Players) /\ Len(executed[p]) = frame[p] - 1
      /\ executed'[p] = Append(executed[p], members[p])
  BY Numbers DEF Types, Advance
<1>2. /\ \A f \in 1..Len(executed[p]) : executed'[p][f] = executed[p][f]
      /\ executed'[p][frame[p]] = members[p]
  <2>1. members[p] \in SUBSET Players
    BY DEF Types
  <2> QED BY <1>1, <2>1, AppendProperties
<1> SUFFICES ASSUME NEW f \in 1..(frame'[p] - 1)
             PROVE  executed'[p][f] = IF f < D THEN Players ELSE Others
  BY DEF LogEndsAt
<1>3. CASE f = frame[p]
  BY <1>2, <1>3
<1>4. CASE f # frame[p]
  <2>1. f \in 1..(frame[p] - 1)
    BY <1>1, <1>4
  <2> QED BY <1>1, <1>2, <2>1 DEF LogEndsAt
<1> QED BY <1>3, <1>4

(* A step that disconnects nobody.                                         *)
LEMMA UndecidedKept ==
  ASSUME Types, Undecided, alive' \subseteq alive,
         \A p \in alive' : /\ members'[p] = members[p] /\ frame'[p] = frame[p]
                           /\ executed'[p] = executed[p],
         \A m \in net' : m \in net \/ m.kind # "DISCONNECTPLAYER"
  PROVE  Undecided'
<1>1. \A p \in alive' : LogEndsAt(p, MaxFrame + 1)'
  BY LogKept DEF Undecided, Types
<1> QED BY <1>1 DEF Undecided

LEMMA UndecidedAdvance ==
  ASSUME Types, Undecided, NEW p \in Players, Advance(p)
  PROVE  Undecided'
<1>1. /\ p \in alive /\ alive' = alive /\ members' = members /\ members[p] = Players
      /\ frame[p] \in Frames /\ frame[p] <= MaxFrame /\ MaxFrame \in Nat
      /\ \A q \in Players \ {p} : frame'[q] = frame[q] /\ executed'[q] = executed[q]
  BY DisconnectAssumption DEF Undecided, Advance, Types
<1>2. MaxFrame + 1 \in Frames /\ frame[p] < MaxFrame + 1
  BY <1>1 DEF Frames
<1>3. LogEndsAt(p, MaxFrame + 1)'
  BY <1>1, <1>2, LogExtended DEF Undecided
<1>4. \A q \in alive \ {p} : LogEndsAt(q, MaxFrame + 1)'
  BY <1>1, LogKept DEF Undecided, Types
<1>5. ASSUME NEW m \in net', m \notin net PROVE m.kind # "DISCONNECTPLAYER"
  <2>1. p \in members[p] /\ members[p] \in SUBSET Players
    BY DEF Types
  <2>2. CASE \E f \in {frame[p] + RunAhead} \cap 1..MaxFrame : m \in SendLocal(p, members[p], f)
    BY <2>1, <2>2, LocalSent
  <2>3. CASE m \in Broadcast(p, "SCREENOFF", frame[p], p)
    BY <1>1, <2>3, BroadcastSent
  <2> QED BY <1>5, <2>2, <2>3 DEF Advance
<1> QED BY <1>1, <1>3, <1>4, <1>5 DEF Undecided

(* The first decision: all have waited for it, and shall obey.             *)
LEMMA FirstDecision ==
  ASSUME Timely, Types, Truth, Others \subseteq alive, Undecided,
         NEW p \in Players, NEW s \in Players, Disconnect(p, s),
         NEW D \in Frames, frame[p] = D
  PROVE  Decided(p, D)'
<1>1. /\ p \in alive /\ s \in Players \ {p} /\ s \notin alive
      /\ Remove(p, s, Orders(p, s)) /\ UNCHANGED <<alive, frame, dm, executed>>
  <2>1. p \in alive /\ s \in Players \ {p} /\ Remove(p, s, Orders(p, s))
        /\ UNCHANGED <<alive, frame, dm, executed>>
    BY DisconnectEffect DEF Disconnect, Types
  <2>2. s \notin alive
    BY <2>1, NotOut DEF Disconnect, Truth
  <2> QED BY <2>1, <2>2
<1>2. s = Victim /\ alive = Others /\ p \in Others /\ D \in Frames
  BY <1>1 DEF Others, Types
<1>3. \A q \in Others : members[q] = Players /\ LogEndsAt(q, MaxFrame + 1)
  BY <1>2 DEF Undecided
<1>4. /\ members'[p] = Others /\ \A q \in Others \ {p} : members'[q] = Players
      /\ \A q \in Others \ {p} : held'[q] = held[q] /\ net \cup Orders(p, s) \subseteq net'
  <2>1. /\ members'[p] = members[p] \ {s}
        /\ \A q \in Players \ {p} : members'[q] = members[q]
    BY <1>1, RemoveEffect
  <2>2. \A q \in Players \ {p} : held'[q] = held[q]
    BY <1>1, RemoveEffect
  <2>3. net \cup Orders(p, s) \subseteq net'
    BY <1>1, RemoveEffect
  <2> QED BY <1>2, <1>3, <2>1, <2>2, <2>3 DEF Others
<1>5. \A q \in Others : frame[q] = D /\ Waiting(q)
  BY <1>2, DeciderKnows
<1>6. \A q \in Others : p <= q
  <2> SUFFICES ASSUME NEW q \in Others PROVE p <= q
    OBVIOUS
  <2> DEFINE S == {r \in members[p] : InGame(p, r)}
  <2>1. S \subseteq Nat /\ p = Min(S)
    BY DisconnectAssumption DEF Types, Disconnect, NextPacketRouter
  <2>2. CASE q = p
    BY <1>2, <2>2, DisconnectAssumption
  <2>3. CASE q # p
    <3>1. q \in S
      BY <1>2, <1>3, <2>3, NotOut DEF Truth, Others
    <3> QED BY <2>1, <3>1, MinOfNats
  <2> QED BY <2>2, <2>3
<1>7. ASSUME NEW m \in net', m \notin net, m \notin Orders(p, s)
      PROVE  m.kind = "DATA" /\ m.src = p
  <2>1. p \in members[p] \ {s} /\ members[p] \ {s} \in SUBSET Players
    BY <1>1 DEF Types
  <2>2. PICK f \in 1..MaxFrame : m \in SendLocal(p, members[p] \ {s}, f)
    BY <1>1, <1>7, RemoveEffect
  <2> QED BY <2>1, <2>2, LocalSent
<1>8. \A m \in net' : m.kind = "DISCONNECTPLAYER" => m.slot = Victim /\ m.src = p
  BY <1>2, <1>7, OrdersSent DEF Undecided
<1>9. \A q \in Others : LogEndsAt(q, D)'
  <2> SUFFICES ASSUME NEW q \in Others, NEW f \in 1..(frame[q] - 1)
               PROVE  executed[q][f] = IF f < D THEN Players ELSE Others
    BY <1>1 DEF LogEndsAt
  <2>1. f < D /\ f < MaxFrame + 1 /\ executed[q][f] = IF f < MaxFrame + 1 THEN Players ELSE Others
    BY <1>2, <1>3, <1>5, Numbers DEF LogEndsAt, Frames
  <2> QED BY <2>1
<1>10. ASSUME NEW q \in Others, q # p PROVE MustObey(q, p, D)'
  <2>1. q \in alive /\ q \in Players /\ members[q] = Players
    BY <1>2, <1>3, <1>10 DEF Others
  <2>2. /\ \A m \in net : {m.src, m.to} \subseteq alive => Arrived(m)
        /\ frame[q] <= MaxFrame => ~AllCommandsReady(q)
    BY <2>1 DEF Disconnect, Quiet
  <2>3. ~AllCommandsReady(q)
    <3>1. CASE D <= MaxFrame
      BY <1>5, <2>2, <3>1
    <3>2. CASE ~(D <= MaxFrame)
      <4>1. D \notin held[q][p] /\ p \in members[q] \ {q}
        BY <1>2, <1>10, <2>1, <3>2, Numbers DEF Types
      <4> QED BY <1>5, <4>1 DEF AllCommandsReady
    <3> QED BY <3>1, <3>2
  <2>4. ~AllCommandsReady(q)'
    BY <1>1, <1>4, <1>10, <2>1, <2>3 DEF AllCommandsReady
  <2>5. \E m \in net' : m.kind = "DISCONNECTPLAYER" /\ m.src = p /\ m.to = q
    <3> DEFINE last == Max({dm[p].frames[x] : x \in Players})
    <3> DEFINE m == Message(p, q, "DISCONNECTPLAYER", p, last, s, {q})
    <3>1. m \in Broadcast(p, "DISCONNECTPLAYER", last, s)
      BY <1>2, <1>3, <1>10, <2>1, BroadcastReaches
    <3> HIDE DEF last
    <3>2. m.kind = "DISCONNECTPLAYER" /\ m.src = p /\ m.to = q
      BY DEF Message
    <3>3. m.to # s
      BY <1>2, <3>2 DEF Others
    <3> HIDE DEF m
    <3>4. m \in Orders(p, s)
      BY <3>1, <3>3 DEF Orders, last
    <3> QED BY <1>4, <1>10, <3>2, <3>4
  <2>6. ASSUME NEW m \in net', m.kind = "DATA", m.to = q, m.src \in Others \ {p}
        PROVE  m.frame < D \/ m.frame \in held'[q][m.from]
    <3>1. m \in net
      BY <1>7, <2>6, OrdersSent
    <3>2. Arrived(m) /\ m.from \in members[q]
      BY <1>2, <2>1, <2>2, <2>6, <3>1 DEF Types, MessageOK
    <3> QED BY <1>4, <1>5, <1>10, <2>6, <3>2 DEF Arrived
  <2>7. ASSUME NEW r \in Others
        PROVE  dm[r].frames[q] = D /\ dm[r].frames[r] <= D /\ dm[r].notified
    <3>1. dm[r].frames[r] = D /\ dm[r].notified /\ dm[q].frames[q] = D
      BY <1>2, <1>5 DEF Waiting, Truth, NotifiedTrue
    <3>2. CASE r = q
      BY <1>2, <3>1, <3>2 DEF Frames
    <3>3. CASE r # q
      <4>1. SaysFrame(q, r, D) \in net
        BY <1>2, <1>5, <3>3 DEF Waiting, Truth, NotifiedTrue
      <4>2. Arrived(SaysFrame(q, r, D))
        BY <1>2, <2>2, <4>1 DEF SaysFrame, Message
      <4>3. D <= dm[r].frames[q]
        BY <1>2, <1>3, <2>1, <4>2 DEF SaysFrame, Message, Arrived
      <4>4. dm[r].frames[q] <= D
        BY <1>2, <1>5 DEF Truth, FramesReached
      <4> QED BY <1>2, <2>1, <3>1, <4>3, <4>4, Numbers DEF Others
    <3> QED BY <3>2, <3>3
  <2>8. frame'[q] = D /\ Waiting(q)'
    BY <1>1, <1>5 DEF Waiting
  <2> QED BY <1>1, <2>4, <2>5, <2>6, <2>7, <2>8 DEF MustObey
<1>11. \A q \in Others : frame'[q] >= D
  BY <1>1, <1>2, <1>5, Numbers DEF Others
<1>12. \A q \in Others : /\ members'[q] = Others \/ (members'[q] = Players /\ MustObey(q, p, D)')
                         /\ frame'[q] >= D
                         /\ LogEndsAt(q, D)'
  BY <1>4, <1>9, <1>10, <1>11
<1>13. alive' = Others /\ p \in Others /\ members'[p] = Others
  BY <1>1, <1>2, <1>4
<1> QED BY <1>6, <1>8, <1>12, <1>13 DEF Decided

-----------------------------------------------------------------------------
(* After the decision.                                                     *)

(* An order that has not been obeyed is under way: nobody else decides,    *)
(* and no screen comes up on the next frame.                               *)
LEMMA OrderUnderWay ==
  ASSUME Types, NEW d \in Players, NEW D \in Frames, Decided(d, D),
         NEW p \in Others, members[p] = Players, MustObey(p, d, D)
  PROVE  ~OrdersObeyed /\ ~Quiet /\ p # d
<1>1. PICK m \in net : m.kind = "DISCONNECTPLAYER" /\ m.src = d /\ m.to = p
  BY DEF MustObey
<1>2. {m.src, m.to} \subseteq alive /\ m.slot = Victim /\ m.from = d
  <2>1. MessageOK(m)
    BY DEF Types
  <2>2. m.src \in alive /\ m.to \in alive /\ m.slot = Victim
    BY <1>1 DEF Decided
  <2> QED BY <1>1, <2>1, <2>2 DEF MessageOK
<1>3. Victim \in Players
  BY <1>2, <1>1 DEF Types, MessageOK
<1>4. ~Arrived(m)
  BY <1>1, <1>2, <1>3 DEF Arrived
<1>5. Others # Players
  BY <1>3 DEF Others
<1> QED BY <1>1, <1>2, <1>4, <1>5 DEF OrdersObeyed, Quiet, Decided

(* Only the one that decided can be asked to relay.                        *)
LEMMA NothingRelayed ==
  ASSUME Types, RelaysByRouter, NEW d \in Players, NEW D \in Frames, Decided(d, D),
         NEW m \in net, m.kind = "DATA", m.to \in Others \ {d}
  PROVE  Relayed(m) = {}
<1>1. Players \subseteq Nat /\ Others \subseteq Players /\ d \in Others /\ d <= m.to
  BY DisconnectAssumption DEF Others, Decided
<1>2. Router(Players) <= d /\ Router(Others) <= d
  BY <1>1, RouterConnected
<1>3. m.to # Router(Players) /\ m.to # Router(Others)
  <2>1. \A i, j \in Nat : i <= j /\ j <= i => i = j
    OBVIOUS
  <2>2. m.to \in Nat /\ d \in Nat /\ m.to # d
    BY <1>1
  <2> QED BY <1>1, <1>2, <2>1, <2>2
<1>4. m.relay = {m.to}
  BY <1>3 DEF RelaysByRouter
<1> QED BY <1>4 DEF Relayed

LEMMA MustObeyKept ==
  ASSUME Types, NEW d \in Players, NEW D \in Frames, NEW p \in Others, MustObey(p, d, D),
         frame'[p] = frame[p], members'[p] = members[p], held'[p] = held[p],
         net \subseteq net', Waiting(p)',
         \A m \in net' : m.kind = "DATA" /\ m.to = p /\ m.src \in Others \ {d} => m \in net,
         \A q \in Others : /\ dm'[q].frames[p] = D /\ dm'[q].frames[q] <= D
                           /\ dm'[q].screenOn => dm'[q].notified
  PROVE  MustObey(p, d, D)'
<1>1. ~AllCommandsReady(p)'
  BY DEF MustObey, AllCommandsReady
<1>2. \E m \in net' : m.kind = "DISCONNECTPLAYER" /\ m.src = d /\ m.to = p
  BY DEF MustObey
<1>3. \A m \in net' : m.kind = "DATA" /\ m.to = p /\ m.src \in Others \ {d} =>
        m.frame < D \/ m.frame \in held'[p][m.from]
  BY DEF MustObey
<1> QED BY <1>1, <1>2, <1>3 DEF MustObey

(* A step that leaves frames and connections alone.                        *)
LEMMA DecidedKept ==
  ASSUME Types, NEW d \in Players, NEW D \in Frames, Decided(d, D),
         UNCHANGED <<alive, frame, members, executed>>,
         \A m \in net' : m \in net \/ m.kind # "DISCONNECTPLAYER",
         \A p \in Others : members[p] = Players /\ MustObey(p, d, D) => MustObey(p, d, D)'
  PROVE  Decided(d, D)'
<1>1. \A p \in Others : LogEndsAt(p, D)'
  BY LogKept DEF Decided, Others
<1> QED BY <1>1 DEF Decided

LEMMA DecidedAdvance ==
  ASSUME Types, Truth, NEW d \in Players, NEW D \in Frames, Decided(d, D),
         NEW p \in Players, Advance(p)
  PROVE  Decided(d, D)'
<1>1. /\ p \in Others /\ UNCHANGED <<alive, members, held>> /\ net \subseteq net'
      /\ frame[p] \in Frames /\ frame[p] \in Nat /\ frame[p] >= D /\ AllCommandsReady(p)
      /\ frame'[p] = frame[p] + 1 /\ dm'[p] = ScreenOff(p)
      /\ \A q \in Players \ {p} : /\ frame'[q] = frame[q] /\ executed'[q] = executed[q]
                                  /\ dm'[q] = dm[q]
      /\ D \in Nat /\ dm[p].frames[p] \in Nat
  <2>1. p \in alive /\ D \in Nat /\ frame[p] \in Frames
    BY DisconnectAssumption DEF Advance, Types, Frames
  <2>2. p \in Others /\ frame[p] >= D
    BY <2>1 DEF Decided
  <2>3. /\ UNCHANGED <<alive, members, held>> /\ net \subseteq net' /\ AllCommandsReady(p)
        /\ frame'[p] = frame[p] + 1 /\ dm'[p] = ScreenOff(p)
        /\ \A q \in Players \ {p} : /\ frame'[q] = frame[q] /\ executed'[q] = executed[q]
                                    /\ dm'[q] = dm[q]
    BY DEF Advance, Types
  <2> QED BY <2>1, <2>2, <2>3, Numbers
<1>2. members[p] = Others
  BY <1>1 DEF Decided, MustObey
<1>3. ASSUME NEW m \in net', m \notin net
      PROVE  m.kind # "DISCONNECTPLAYER" /\ (m.kind = "DATA" => m.src = p /\
                                                 (p # d => m.to = d))
  <2>1. p \in members[p] /\ members[p] \in SUBSET Players
    BY DEF Types
  <2>2. ASSUME NEW f \in {frame[p] + RunAhead} \cap 1..MaxFrame,
               m \in SendLocal(p, members[p], f)
        PROVE  m.kind = "DATA" /\ m.src = p /\ (p # d => m.to = d)
    <3>1. m.kind = "DATA" /\ m.src = p
      BY <2>1, <2>2, LocalSent
    <3>2. Router(Others) = d
      <4>1. Others \subseteq Players /\ Others \subseteq Nat /\ d \in Others
        BY DisconnectAssumption DEF Decided, Others
      <4>2. /\ Router(Others) \in Others /\ \A q \in Others : Router(Others) <= q
            /\ \A q \in Others : d <= q
        BY <4>1, RouterConnected DEF Decided
      <4>3. \A i, j \in Nat : i <= j /\ j <= i => i = j
        OBVIOUS
      <4>4. Router(Others) \in Nat /\ d \in Nat /\ Router(Others) <= d /\ d <= Router(Others)
        BY <4>1, <4>2
      <4> QED BY <4>3, <4>4
    <3>3. p # d => m.to = d
      BY <1>2, <2>2, <3>2 DEF SendLocal, Data, Message
    <3> QED BY <3>1, <3>3
  <2>3. CASE m \in Broadcast(p, "SCREENOFF", frame[p], p)
    BY <1>1, <2>3, BroadcastSent
  <2> QED BY <1>3, <2>2, <2>3 DEF Advance
<1>4. LogEndsAt(p, D)'
  BY <1>1, <1>2, LogExtended DEF Decided
<1>5. \A q \in Others \ {p} : LogEndsAt(q, D)'
  BY <1>1, LogKept DEF Decided, Others
<1>6. ASSUME NEW q \in Others, members[q] = Players, MustObey(q, d, D)
      PROVE  MustObey(q, d, D)'
  <2>1. q # p /\ q # d /\ q \in Players
    BY <1>1, <1>6, OrderUnderWay DEF MustObey, Others
  <2>2. dm[p].frames[q] = D /\ dm[p].frames[p] <= D /\ (dm[p].screenOn => dm[p].notified)
    BY <1>1, <1>6 DEF MustObey
  <2>3. dm[p].screenOn => dm[p].frames[p] = frame[p]
    BY <1>1, <2>2 DEF Truth, NotifiedTrue, Decided
  <2>4. /\ dm'[p].frames[q] = D /\ dm'[p].frames[p] <= D /\ ~dm'[p].screenOn
    BY <1>1, <2>1, <2>2, <2>3, ScreenOffType
  <2>5. \A r \in Others : /\ dm'[r].frames[q] = D /\ dm'[r].frames[r] <= D
                          /\ dm'[r].screenOn => dm'[r].notified
    BY <1>1, <1>6, <2>4 DEF MustObey, Others
  <2>6. \A m \in net' : m.kind = "DATA" /\ m.to = q /\ m.src \in Others \ {d} => m \in net
    BY <1>3, <2>1
  <2>7. Waiting(q)'
    BY <1>1, <1>6, <2>1 DEF MustObey, Waiting
  <2> QED BY <1>1, <1>6, <2>1, <2>5, <2>6, <2>7, MustObeyKept
<1>7. \A q \in Others : frame'[q] >= D
  BY <1>1 DEF Decided, Others
<1> QED BY <1>1, <1>3, <1>4, <1>5, <1>6, <1>7 DEF Decided

LEMMA DecidedScreens ==
  ASSUME Timely, Types, NEW d \in Players, NEW D \in Frames, Decided(d, D),
         NEW p \in Players, TurnOnScreen(p) \/ Notify(p)
  PROVE  Decided(d, D)'
<1>1. p \in alive /\ UNCHANGED <<alive, frame, members, executed>>
  BY DEF TurnOnScreen, Notify
<1>2. ASSUME NEW m \in net', m \notin net PROVE m.kind # "DISCONNECTPLAYER"
  <2>1. CASE TurnOnScreen(p)
    BY <1>2, <2>1 DEF TurnOnScreen
  <2>2. CASE Notify(p)
    <3>1. frame[p] \in Frames
      BY DEF Types
    <3>2. CASE m \in Broadcast(p, "DISCONNECTFRAME", frame[p], p)
      BY <3>1, <3>2, BroadcastSent
    <3>3. CASE \E q \in Players \ {p} : m \in FrameData(p, q, Told(p).frames[q])
      BY <3>3 DEF FrameData, Data, Message
    <3> QED BY <1>2, <2>2, <3>2, <3>3, NotifyEffect
  <2> QED BY <2>1, <2>2
<1>3. ASSUME NEW q \in Others, members[q] = Players, MustObey(q, d, D) PROVE FALSE
  <2>1. CASE TurnOnScreen(p)
    <3>1. alive # Players
      BY <1>3, OrderUnderWay, <2>1 DEF TurnOnScreen
    <3> QED BY <1>3, OrderUnderWay, <2>1 DEF TurnOnScreen
  <2>2. CASE Notify(p)
    <3>1. p \in Others
      BY <1>1 DEF Decided
    <3> QED BY <1>3, <2>2, <3>1 DEF Notify, MustObey
  <2> QED BY <2>1, <2>2
<1> QED BY <1>1, <1>2, <1>3, DecidedKept

(* A step in which nobody hears of frames or of data.                      *)
LEMMA DecidedSameFrames ==
  ASSUME Types, NEW d \in Players, NEW D \in Frames, Decided(d, D),
         UNCHANGED <<alive, frame, members, held, executed>>, net \subseteq net',
         \A m \in net' : m \in net \/ m.kind = "DISCONNECTVOTE",
         \A p \in Players : /\ dm'[p].screenOn = dm[p].screenOn
                            /\ dm'[p].notified = dm[p].notified
                            /\ dm'[p].frames = dm[p].frames
  PROVE  Decided(d, D)'
<1>1. ASSUME NEW p \in Others, MustObey(p, d, D) PROVE MustObey(p, d, D)'
  <2>1. Waiting(p)'
    BY <1>1 DEF MustObey, Waiting, Others
  <2>2. \A q \in Others : /\ dm'[q].frames[p] = D /\ dm'[q].frames[q] <= D
                          /\ dm'[q].screenOn => dm'[q].notified
    BY <1>1 DEF MustObey, Others
  <2>3. \A m \in net' : m.kind = "DATA" => m \in net
    OBVIOUS
  <2> QED BY <1>1, <2>1, <2>2, <2>3, MustObeyKept
<1> QED BY <1>1, DecidedKept

LEMMA DecidedDisconnect ==
  ASSUME Timely, Types, Truth, NEW d \in Players, NEW D \in Frames, Decided(d, D),
         NEW p \in Players, NEW s \in Players, Disconnect(p, s)
  PROVE  FALSE
<1>1. p \in Others /\ s \in members[p] \ {p} /\ Quiet
  BY DEF Disconnect, Decided
<1>2. s \notin Others
  BY <1>1, NotOut DEF Disconnect, Truth, Decided
<1>3. members[p] = Players /\ MustObey(p, d, D)
  BY <1>1, <1>2 DEF Decided
<1> QED BY <1>1, <1>3, OrderUnderWay

LEMMA DecidedData ==
  ASSUME Timely, ~Overtaking, Types, RelaysByRouter,
         NEW d \in Players, NEW D \in Frames, Decided(d, D),
         NEW m \in net, Receive(m), ReceiveData(m)
  PROVE  Decided(d, D)'
<1>1. /\ m.kind = "DATA" /\ m.frame \in 1..MaxFrame /\ m.frame >= frame[m.to]
      /\ MessageOK(m) /\ m.to \in Others /\ m.to \in Players /\ m.from \in Players
      /\ net' = net \cup Relayed(m)
      /\ UNCHANGED <<alive, frame, members, pending, dm, executed>>
  BY ReceiveDataEffect DEF Receive, Decided, Types, MessageOK
<1>2. \A n \in Relayed(m) : n.kind = "DATA" /\ n.src = m.to
  BY <1>1, RelaySent
<1>3. m.to # d => Relayed(m) = {}
  BY <1>1, NothingRelayed
<1>4. ASSUME NEW p \in Others, members[p] = Players, MustObey(p, d, D)
      PROVE  MustObey(p, d, D)'
  <2>1. p # d /\ p \in Players
    BY <1>4, OrderUnderWay DEF Others
  <2>2. held'[p] = held[p]
    <3>1. CASE m.to # p
      BY <1>1, <2>1, <3>1 DEF ReceiveData, Types
    <3>2. CASE m.to = p
      <4>1. m.src \in alive
        BY <1>4, <3>2 DEF Receive, MustObey, Waiting
      <4>2. m.src # d
        <5>1. PICK o \in net : o.kind = "DISCONNECTPLAYER" /\ o.src = d /\ o.to = p
          BY <1>4 DEF MustObey
        <5>2. MessageOK(o) /\ o.slot = Victim /\ d \in members[p]
          BY <1>4, <5>1 DEF Types, Decided
        <5>3. ~Arrived(o)
          BY <1>4, <5>1, <5>2 DEF Arrived, MessageOK
        <5> QED BY <3>2, <5>1, <5>3 DEF ReceiveData, Overtakes
      <4>3. m.frame < D \/ m.frame \in held[p][m.from]
        BY <1>1, <1>4, <3>2, <4>1, <4>2 DEF MustObey, Decided
      <4>4. frame[p] = D /\ D \in Int
        BY <1>4, DisconnectAssumption DEF MustObey, Frames
      <4>5. m.frame \in held[p][m.from]
        BY <1>1, <3>2, <4>3, <4>4
      <4>6. held' = [held EXCEPT ![p] = [held[p] EXCEPT ![m.from] = held[p][m.from] \cup {m.frame}]]
        BY <3>2 DEF ReceiveData
      <4>7. held[p] \in [Players -> SUBSET (1..MaxFrame)]
        BY <2>1 DEF Types
      <4>8. held[p][m.from] \cup {m.frame} = held[p][m.from]
        BY <4>5
      <4>9. [held[p] EXCEPT ![m.from] = held[p][m.from] \cup {m.frame}] = held[p]
        BY <4>7, <4>8
      <4> QED BY <2>1, <4>6, <4>9 DEF Types
    <3> QED BY <3>1, <3>2
  <2>3. \A n \in net' : n.kind = "DATA" /\ n.to = p /\ n.src \in Others \ {d} => n \in net
    BY <1>1, <1>2, <1>3
  <2>4. Waiting(p)'
    BY <1>1, <1>4 DEF MustObey, Waiting
  <2>5. \A q \in Others : /\ dm'[q].frames[p] = D /\ dm'[q].frames[q] <= D
                          /\ dm'[q].screenOn => dm'[q].notified
    BY <1>1, <1>4 DEF MustObey
  <2> QED BY <1>1, <1>4, <2>2, <2>3, <2>4, <2>5, MustObeyKept
<1> QED BY <1>1, <1>2, <1>4, DecidedKept

LEMMA FrameHeard ==
  ASSUME Types, NEW x \in Players, NEW s \in Players, NEW f \in Frames,
         dm' = [dm EXCEPT ![x] = HearFrame(dm[x], s, f)]
  PROVE  /\ \A q \in Players : /\ dm'[q].screenOn = dm[q].screenOn
                               /\ dm'[q].notified = dm[q].notified
         /\ \A q, r \in Players : q # x \/ r # s => dm'[q].frames[r] = dm[q].frames[r]
         /\ dm[x].frames[s] >= f => dm'[x].frames[s] = dm[x].frames[s]
<1> DEFINE h == HearFrame(dm[x], s, f)
<1>1. dm[x] \in Manager
  BY DEF Types
<1>2. /\ h \in Manager /\ h.screenOn = dm[x].screenOn /\ h.notified = dm[x].notified
      /\ \A r \in Players : r # s => h.frames[r] = dm[x].frames[r]
      /\ dm[x].frames[s] >= f => h = dm[x]
  BY <1>1, HearFrameType
<1> HIDE DEF h
<1>3. dm'[x] = h /\ \A q \in Players \ {x} : dm'[q] = dm[q]
  BY <1>2, ManagersType DEF h
<1> QED BY <1>2, <1>3

LEMMA ScreenOffHeard ==
  ASSUME Types, NEW x \in Players, NEW s \in Players, NEW f \in Frames,
         dm' = [dm EXCEPT ![x] = HearScreenOff(dm[x], s, f)]
  PROVE  /\ \A q \in Players : /\ dm'[q].screenOn = dm[q].screenOn
                               /\ dm'[q].notified = dm[q].notified
         /\ \A q, r \in Players : q # x \/ r # s => dm'[q].frames[r] = dm[q].frames[r]
         /\ dm[x].frames[s] > f => dm'[x].frames[s] = dm[x].frames[s]
<1> DEFINE h == HearScreenOff(dm[x], s, f)
<1>1. dm[x] \in Manager
  BY DEF Types
<1>2. /\ h \in Manager /\ h.screenOn = dm[x].screenOn /\ h.notified = dm[x].notified
      /\ \A r \in Players : r # s => h.frames[r] = dm[x].frames[r]
      /\ dm[x].frames[s] > f => h = dm[x]
  BY <1>1, HearScreenOffType
<1> HIDE DEF h
<1>3. dm'[x] = h /\ \A q \in Players \ {x} : dm'[q] = dm[q]
  BY <1>2, ManagersType DEF h
<1> QED BY <1>2, <1>3

(* What is heard of a player that has not obeyed yet is nothing new, and   *)
(* nobody is ahead of it to serve it.                                      *)
LEMMA DecidedHears ==
  ASSUME Types, NEW d \in Players, NEW D \in Frames, Decided(d, D),
         NEW x \in Others, NEW s \in Players \ {x}, net \subseteq net',
         UNCHANGED <<alive, frame, members, held, executed>>,
         \A q \in Players : /\ dm'[q].screenOn = dm[q].screenOn
                            /\ dm'[q].notified = dm[q].notified,
         \A q, r \in Players : q # x \/ r # s => dm'[q].frames[r] = dm[q].frames[r],
         s \in Others /\ dm[x].frames[s] = frame[s] => dm'[x].frames[s] = dm[x].frames[s],
         \A n \in net' : \/ n \in net
                         \/ /\ n.kind = "DATA" /\ n.to = s
                            /\ dm'[x].frames[s] < dm'[x].frames[x]
  PROVE  Decided(d, D)'
<1>1. ASSUME NEW p \in Others, members[p] = Players, MustObey(p, d, D)
      PROVE  MustObey(p, d, D)'
  <2>1. p \in Players /\ x \in Players /\ frame[p] = D /\ D \in Nat
    BY <1>1, DisconnectAssumption DEF Others, MustObey, Frames
  <2>2. ASSUME NEW q \in Others
        PROVE  dm[q].frames[p] = D /\ dm[q].frames[q] <= D /\ (dm[q].screenOn => dm[q].notified)
    BY <1>1 DEF MustObey
  <2>3. ASSUME NEW q \in Others
        PROVE  dm'[q].frames[p] = dm[q].frames[p] /\ dm'[q].frames[q] = dm[q].frames[q]
    <3>1. CASE q = x /\ p = s
      BY <2>1, <2>2, <3>1 DEF Others
    <3>2. CASE ~(q = x /\ p = s)
      BY <2>1, <3>2 DEF Others
    <3> QED BY <3>1, <3>2
  <2>4. ASSUME NEW n \in net', n.kind = "DATA", n.to = p, n \notin net PROVE FALSE
    <3>1. dm'[x].frames[p] < dm'[x].frames[x]
      BY <2>4
    <3>2. dm[x].frames[p] = D /\ dm[x].frames[x] <= D /\ dm[x].frames[x] \in Nat
      BY <2>1, <2>2, Numbers
    <3> QED BY <2>1, <2>3, <3>1, <3>2
  <2>5. Waiting(p)'
    BY <1>1, <2>1 DEF MustObey, Waiting
  <2>6. \A q \in Others : /\ dm'[q].frames[p] = D /\ dm'[q].frames[q] <= D
                          /\ dm'[q].screenOn => dm'[q].notified
    BY <2>2, <2>3 DEF Others
  <2> QED BY <1>1, <2>4, <2>5, <2>6, MustObeyKept
<1> QED BY <1>1, DecidedKept

LEMMA DecidedFrame ==
  ASSUME Types, Truth, NEW d \in Players, NEW D \in Frames, Decided(d, D),
         NEW m \in net, Receive(m), ReceiveFrame(m)
  PROVE  Decided(d, D)'
<1> DEFINE x == m.to
<1> DEFINE s == m.from
<1>1. /\ m.kind = "DISCONNECTFRAME" /\ m.frame \in Frames /\ m.frame \in Nat
      /\ m.src = s /\ x \in alive /\ x \in Others /\ x \in Players /\ s \in Players \ {x}
      /\ net \subseteq net' /\ UNCHANGED <<alive, frame, members, held, executed>>
      /\ dm' = [dm EXCEPT ![x] = HearFrame(dm[x], s, m.frame)]
  <2>1. m.to \in alive /\ MessageOK(m)
    BY DEF Receive, Types
  <2>2. m.to \in Others
    BY <2>1 DEF Decided
  <2> QED BY <2>1, <2>2, ReceiveFrameEffect, DisconnectAssumption DEF MessageOK, Frames
<1>2. ASSUME NEW n \in net', n \notin net
      PROVE  n.kind = "DATA" /\ n.to = s /\ dm'[x].frames[s] < dm'[x].frames[x]
  <2>1. n \in FrameData(x, s, m.frame)
    BY <1>2, ReceiveFrameEffect
  <2>2. HearFrame(dm[x], s, m.frame).frames[s] < HearFrame(dm[x], s, m.frame).frames[x]
    BY <1>2 DEF ReceiveFrame
  <2>3. dm'[x] = HearFrame(dm[x], s, m.frame)
    BY <1>1 DEF Types
  <2> QED BY <1>1, <2>1, <2>2, <2>3, FramesSent
<1>3. s \in Others => m.frame <= frame[s]
  BY <1>1, Numbers DEF Truth, SaidTrue, Decided
<1> HIDE DEF x, s
<1>4. /\ \A q \in Players : /\ dm'[q].screenOn = dm[q].screenOn
                            /\ dm'[q].notified = dm[q].notified
      /\ \A q, r \in Players : q # x \/ r # s => dm'[q].frames[r] = dm[q].frames[r]
      /\ dm[x].frames[s] >= m.frame => dm'[x].frames[s] = dm[x].frames[s]
  <2>1. x \in Players /\ s \in Players /\ m.frame \in Frames
        /\ dm' = [dm EXCEPT ![x] = HearFrame(dm[x], s, m.frame)]
    BY <1>1
  <2> QED BY <2>1, FrameHeard
<1>5. s \in Others /\ dm[x].frames[s] = frame[s] => dm'[x].frames[s] = dm[x].frames[s]
  BY <1>1, <1>3, <1>4, Numbers
<1> QED BY <1>1, <1>2, <1>4, <1>5, DecidedHears

LEMMA DecidedScreenOff ==
  ASSUME Types, Truth, NEW d \in Players, NEW D \in Frames, Decided(d, D),
         NEW m \in net, Receive(m), ReceiveScreenOff(m)
  PROVE  Decided(d, D)'
<1> DEFINE x == m.to
<1> DEFINE s == m.from
<1>1. /\ m.kind = "SCREENOFF" /\ m.frame \in Frames /\ m.frame \in Nat
      /\ m.src = s /\ x \in Others /\ x \in Players /\ s \in Players \ {x}
      /\ UNCHANGED <<alive, frame, members, held, net, executed>>
      /\ dm' = [dm EXCEPT ![x] = HearScreenOff(dm[x], s, m.frame)]
  <2>1. m.to \in alive /\ MessageOK(m)
    BY DEF Receive, Types
  <2>2. m.to \in Others
    BY <2>1 DEF Decided
  <2> QED BY <2>1, <2>2, ReceiveScreenOffEffect, DisconnectAssumption DEF MessageOK, Frames
<1>2. s \in Others => m.frame < frame[s]
  BY <1>1 DEF Truth, SaidTrue, Decided
<1> HIDE DEF x, s
<1>3. /\ \A q \in Players : /\ dm'[q].screenOn = dm[q].screenOn
                            /\ dm'[q].notified = dm[q].notified
      /\ \A q, r \in Players : q # x \/ r # s => dm'[q].frames[r] = dm[q].frames[r]
      /\ dm[x].frames[s] > m.frame => dm'[x].frames[s] = dm[x].frames[s]
  <2>1. /\ x \in Players /\ s \in Players /\ m.frame \in Frames
        /\ dm' = [dm EXCEPT ![x] = HearScreenOff(dm[x], s, m.frame)]
    BY <1>1
  <2> QED BY <2>1, ScreenOffHeard
<1>4. s \in Others /\ dm[x].frames[s] = frame[s] => dm'[x].frames[s] = dm[x].frames[s]
  BY <1>1, <1>2, <1>3, Numbers
<1> QED BY <1>1, <1>3, <1>4, DecidedHears

LEMMA DecidedObeyed ==
  ASSUME Types, NEW d \in Players, NEW D \in Frames, Decided(d, D),
         NEW x \in Others, Victim \in members[x] \ {x}, Remove(x, Victim, {}),
         UNCHANGED <<alive, frame, dm, executed>>
  PROVE  Decided(d, D)'
<1>1. x \in Players /\ Victim \in Players \ {x}
  BY DEF Types, Others
<1>2. members[x] = Players /\ MustObey(x, d, D) /\ x # d
  BY <1>1 DEF Decided, Others
<1>3. /\ members'[x] = Others
      /\ \A p \in Players \ {x} : members'[p] = members[p]
  BY <1>1, <1>2, RemoveEffect DEF Others
<1>4. /\ \A p \in Players \ {x} : held'[p] = held[p]
      /\ net \subseteq net'
  BY <1>1, RemoveEffect
<1>5. ASSUME NEW n \in net', n \notin net PROVE n.kind = "DATA" /\ n.to = d
  <2>1. x \in Others /\ Others \in SUBSET Players /\ Others \subseteq Nat
    BY <1>1, DisconnectAssumption DEF Others
  <2>2. PICK f \in 1..MaxFrame : n \in SendLocal(x, Others, f)
    <3>0. \A m \in net' : \/ m \in net
                         \/ \E f \in 1..MaxFrame : m \in SendLocal(x, members[x] \ {Victim}, f)
      BY <1>1, RemoveSent
    <3>1. PICK f \in 1..MaxFrame : n \in SendLocal(x, members[x] \ {Victim}, f)
      BY <1>5, <3>0
    <3>2. members[x] \ {Victim} = Others
      BY <1>2 DEF Others
    <3> QED BY <3>1, <3>2
  <2>3. n.kind = "DATA"
    BY <2>1, <2>2, LocalSent
  <2>4. Router(Others) = d
    <3>1. /\ Router(Others) \in Others /\ \A q \in Others : Router(Others) <= q
          /\ \A q \in Others : d <= q
      BY <2>1, RouterConnected DEF Decided
    <3>2. \A i, j \in Nat : i <= j /\ j <= i => i = j
      OBVIOUS
    <3>3. d \in Others
      BY DEF Decided
    <3>4. Router(Others) \in Nat /\ d \in Nat /\ Router(Others) <= d /\ d <= Router(Others)
      BY <2>1, <3>1, <3>3
    <3> QED BY <3>2, <3>4
  <2> QED BY <1>2, <2>2, <2>3, <2>4 DEF SendLocal, Data, Message
<1>6. ASSUME NEW p \in Others, p # x, members[p] = Players, MustObey(p, d, D)
      PROVE  MustObey(p, d, D)'
  <2>1. p \in Players /\ p # d
    BY <1>6, OrderUnderWay DEF Others
  <2>2. \A n \in net' : n.kind = "DATA" /\ n.to = p /\ n.src \in Others \ {d} => n \in net
    BY <1>5, <2>1
  <2>3. Waiting(p)'
    BY <1>1, <1>6 DEF MustObey, Waiting
  <2>4. \A q \in Others : /\ dm'[q].frames[p] = D /\ dm'[q].frames[q] <= D
                          /\ dm'[q].screenOn => dm'[q].notified
    BY <1>1, <1>6 DEF MustObey
  <2>5. members'[p] = members[p] /\ held'[p] = held[p] /\ frame'[p] = frame[p]
    BY <1>1, <1>3, <1>4, <1>6, <2>1
  <2> QED BY <1>4, <1>6, <2>2, <2>3, <2>4, <2>5, MustObeyKept
<1>7. \A p \in Others : LogEndsAt(p, D)'
  BY <1>1, LogKept DEF Decided, Others
<1>8. alive' = Others /\ d \in Others /\ members'[d] = Others
  BY <1>1, <1>2, <1>3 DEF Decided
<1>9. \A n \in net' : n.kind = "DISCONNECTPLAYER" => n.slot = Victim /\ n.src = d
  BY <1>5 DEF Decided
<1>10. ASSUME NEW p \in Others
       PROVE  /\ members'[p] = Others \/ (members'[p] = Players /\ MustObey(p, d, D)')
              /\ frame'[p] >= D
  <2>1. CASE p = x
    BY <1>1, <1>3, <2>1 DEF Decided
  <2>2. CASE p # x
    <3>1. members'[p] = members[p]
      BY <1>3, <2>2 DEF Others
    <3> QED BY <1>1, <1>6, <2>2, <3>1 DEF Decided
  <2> QED BY <2>1, <2>2
<1> QED BY <1>7, <1>8, <1>9, <1>10 DEF Decided

LEMMA DecidedNext ==
  ASSUME Timely, ~Overtaking, OneMayFail, Types, Truth, RelaysByRouter,
         NEW d \in Players, NEW D \in Frames, Decided(d, D), Next
  PROVE  Decided(d, D)'
<1>1. ASSUME NEW p \in Players, Advance(p) PROVE Decided(d, D)'
  BY <1>1, DecidedAdvance
<1>2. ASSUME NEW p \in Players, TurnOnScreen(p) \/ Notify(p) PROVE Decided(d, D)'
  BY <1>2, DecidedScreens
<1>3. ASSUME NEW p \in Players, Crash(p) PROVE FALSE
  BY <1>3, VictimFails DEF Crash, Decided, Others
<1>4. ASSUME NEW p \in Players, NEW q \in Players, TimeOut(p, q) PROVE Decided(d, D)'
  <2>1. UNCHANGED <<alive, frame, members, held, net, executed>>
    BY <1>4 DEF TimeOut
  <2>2. \A r \in Players : /\ dm'[r].screenOn = dm[r].screenOn
                           /\ dm'[r].notified = dm[r].notified
                           /\ dm'[r].frames = dm[r].frames
    BY <1>4, TimeOutEffect
  <2> QED BY <2>1, <2>2, DecidedSameFrames
<1>5. ASSUME NEW p \in Players, NEW s \in Players, NEW q \in Players, NEW f \in Frames,
             dm' = [dm EXCEPT ![p].votes[s][q] = f], net \subseteq net',
             UNCHANGED <<alive, frame, members, held, executed>>,
             \A m \in net' : m \in net \/ m.kind = "DISCONNECTVOTE"
      PROVE  Decided(d, D)'
  <2>1. \A r \in Players : /\ dm'[r].screenOn = dm[r].screenOn
                           /\ dm'[r].notified = dm[r].notified
                           /\ dm'[r].frames = dm[r].frames
    BY <1>5, CountedVote
  <2> QED BY <1>5, <2>1, DecidedSameFrames
<1>6. ASSUME NEW p \in Players, NEW s \in Players, Vote(p, s) PROVE Decided(d, D)'
  <2>1. /\ frame[p] \in Frames /\ dm' = [dm EXCEPT ![p].votes[s][p] = frame[p]]
        /\ UNCHANGED <<alive, frame, members, held, executed>> /\ net \subseteq net'
    BY <1>6 DEF Vote, Types
  <2>2. \A m \in net' : m \in net \/ m.kind = "DISCONNECTVOTE"
    BY <1>6, <2>1, BroadcastSent DEF Vote
  <2> QED BY <1>5, <2>1, <2>2
<1>7. ASSUME NEW p \in Players, NEW s \in Players, Disconnect(p, s) PROVE FALSE
  BY <1>7, DecidedDisconnect
<1>8. ASSUME NEW p \in Players, NEW f \in pending[p], AckStage2(p, f) PROVE Decided(d, D)'
  <2>1. UNCHANGED <<alive, frame, members, held, dm, net, executed>>
    BY <1>8 DEF AckStage2
  <2> QED BY <2>1, DecidedSameFrames
<1>9. ASSUME NEW m \in net, Receive(m) PROVE Decided(d, D)'
  <2>1. CASE ReceiveData(m)
    BY <1>9, <2>1, DecidedData
  <2>2. CASE ReceiveFrame(m)
    BY <1>9, <2>2, DecidedFrame
  <2>3. CASE ReceiveScreenOff(m)
    BY <1>9, <2>3, DecidedScreenOff
  <2>4. CASE ReceiveVote(m)
    <3>1. /\ m.slot \in Players /\ m.frame \in Frames /\ m.to \in Players
          /\ m.from \in Players /\ dm' = [dm EXCEPT ![m.to].votes[m.slot][m.from] = m.frame]
          /\ UNCHANGED <<alive, frame, members, held, net, executed>>
      BY <2>4, ReceiveVoteEffect
    <3> QED BY <1>5, <3>1
  <2>5. CASE ReceiveDisconnect(m)
    <3>1. m.to \in Others /\ m.slot = Victim
      BY <1>9, <2>5 DEF Receive, ReceiveDisconnect, Decided
    <3> QED BY <2>5, <3>1, DecidedObeyed DEF ReceiveDisconnect
  <2> QED BY <1>9, <2>1, <2>2, <2>3, <2>4, <2>5 DEF Receive
<1> QED BY <1>1, <1>2, <1>3, <1>4, <1>6, <1>7, <1>8, <1>9 DEF Next

LEMMA UndecidedNext ==
  ASSUME Timely, Types, Truth, Others \subseteq alive, Undecided, Next
  PROVE  Undecided' \/ \E d \in Players, D \in Frames : Decided(d, D)'
<1>1. ASSUME NEW p \in Players, Advance(p) PROVE Undecided'
  BY <1>1, UndecidedAdvance
<1>2. ASSUME NEW p \in Players, Notify(p) PROVE Undecided'
  <2>1. frame[p] \in Frames
    BY DEF Types
  <2>2. UNCHANGED <<alive, frame, members, executed>>
    BY <1>2 DEF Notify
  <2>3. ASSUME NEW m \in net', m \notin net PROVE m.kind # "DISCONNECTPLAYER"
    <3>1. CASE m \in Broadcast(p, "DISCONNECTFRAME", frame[p], p)
      BY <2>1, <3>1, BroadcastSent
    <3>2. CASE \E q \in Players \ {p} : m \in FrameData(p, q, Told(p).frames[q])
      BY <3>2 DEF FrameData, Data, Message
    <3> QED BY <1>2, <2>3, <3>1, <3>2, NotifyEffect
  <2> QED BY <2>2, <2>3, UndecidedKept
<1>3. ASSUME NEW p \in Players, TurnOnScreen(p) PROVE Undecided'
  <2>1. UNCHANGED <<alive, frame, members, net, executed>>
    BY <1>3 DEF TurnOnScreen
  <2> QED BY <2>1, UndecidedKept
<1>4. ASSUME NEW p \in Players, Crash(p) PROVE Undecided'
  <2>1. /\ alive' = alive \ {p} /\ net' \subseteq net /\ members' = members
        /\ \A q \in Players \ {p} : executed'[q] = executed[q] /\ frame'[q] = frame[q]
    BY <1>4, CrashEffect
  <2> QED BY <2>1, UndecidedKept DEF Types
<1>5. ASSUME NEW p \in Players, NEW q \in Players, TimeOut(p, q) PROVE Undecided'
  <2>1. UNCHANGED <<alive, frame, members, net, executed>>
    BY <1>5 DEF TimeOut
  <2> QED BY <2>1, UndecidedKept
<1>6. ASSUME NEW p \in Players, NEW s \in Players, Vote(p, s) PROVE Undecided'
  <2>1. frame[p] \in Frames /\ UNCHANGED <<alive, frame, members, executed>>
    BY <1>6 DEF Vote, Types
  <2>2. \A m \in net' : m \in net \/ m.kind # "DISCONNECTPLAYER"
    BY <1>6, <2>1, BroadcastSent DEF Vote
  <2> QED BY <2>1, <2>2, UndecidedKept
<1>7. ASSUME NEW p \in Players, NEW s \in Players, Disconnect(p, s)
      PROVE  \E d \in Players, D \in Frames : Decided(d, D)'
  <2>1. frame[p] \in Frames
    BY DEF Types
  <2>2. PICK D \in Frames : frame[p] = D
    BY <2>1
  <2>3. Decided(p, D)'
    BY <1>7, <2>2, FirstDecision
  <2> QED BY <2>3
<1>8. ASSUME NEW p \in Players, NEW f \in pending[p], AckStage2(p, f) PROVE Undecided'
  <2>1. UNCHANGED <<alive, frame, members, net, executed>>
    BY <1>8 DEF AckStage2
  <2> QED BY <2>1, UndecidedKept
<1>9. ASSUME NEW m \in net, Receive(m) PROVE Undecided'
  <2>1. CASE ReceiveData(m)
    <3>1. UNCHANGED <<alive, frame, members, executed>>
          /\ \A n \in net' : n \in net \/ n.kind = "DATA"
      BY <1>9, <2>1, ReceiveDataEffect, RelaySent
    <3> QED BY <3>1, UndecidedKept
  <2>2. CASE ReceiveFrame(m)
    <3>1. \A n \in FrameData(m.to, m.from, m.frame) : n.kind = "DATA"
      BY DEF FrameData, Data, Message
    <3>2. UNCHANGED <<alive, frame, members, executed>>
          /\ \A n \in net' : n \in net \/ n.kind = "DATA"
      BY <2>2, <3>1, ReceiveFrameEffect
    <3> QED BY <3>2, UndecidedKept
  <2>3. CASE ReceiveScreenOff(m) \/ ReceiveVote(m)
    <3>1. UNCHANGED <<alive, frame, members, net, executed>>
      BY <2>3 DEF ReceiveScreenOff, ReceiveVote
    <3> QED BY <3>1, UndecidedKept
  <2>4. ~ReceiveDisconnect(m)
    BY DEF ReceiveDisconnect, Undecided
  <2> QED BY <1>9, <2>1, <2>2, <2>3, <2>4 DEF Receive
<1> QED BY <1>1, <1>2, <1>3, <1>4, <1>5, <1>6, <1>7, <1>8, <1>9 DEF Next

LEMMA NextOneCrash ==
  ASSUME Timely, ~Overtaking, OneMayFail
  PROVE  Types /\ Truth /\ OneCrash /\ RelaysByRouter /\ [Next]_vars
           => (OneCrash /\ RelaysByRouter)'
<1> SUFFICES ASSUME Types, Truth, OneCrash, RelaysByRouter, [Next]_vars
             PROVE  (OneCrash /\ RelaysByRouter)'
  OBVIOUS
<1>1. CASE Next
  <2>1. Others \subseteq alive'
    <3>1. alive' = alive \/ \E p \in Failing : alive' = alive \ {p}
      BY <1>1 DEF Next, Advance, TurnOnScreen, Notify, Crash, TimeOut, Vote, Disconnect,
                  AckStage2, Receive, ReceiveData, ReceiveFrame, ReceiveScreenOff, ReceiveVote,
                  ReceiveDisconnect
    <3> QED BY <3>1, VictimFails DEF OneCrash, Others
  <2>2. CASE Undecided
    <3>1. Undecided' \/ \E d \in Players, D \in Frames : Decided(d, D)'
      BY <1>1, <2>2, UndecidedNext DEF OneCrash
    <3> QED BY <1>1, <2>1, <3>1, RelaysKept DEF OneCrash
  <2>3. CASE \E d \in Players, D \in Frames : Decided(d, D)
    <3>1. PICK d \in Players, D \in Frames : Decided(d, D)
      BY <2>3
    <3>2. Decided(d, D)'
      BY <1>1, <3>1, DecidedNext
    <3> QED BY <1>1, <2>1, <3>2, RelaysKept DEF OneCrash
  <2> QED BY <2>2, <2>3 DEF OneCrash
<1>2. CASE UNCHANGED vars
  <2>1. UNCHANGED <<alive, frame, members, held, dm, net, executed>>
    BY <1>2 DEF vars
  <2>2. RelaysByRouter'
    BY <2>1 DEF RelaysByRouter
  <2>3. Undecided => Undecided'
    BY <2>1, UndecidedKept
  <2>4. ASSUME NEW d \in Players, NEW D \in Frames, Decided(d, D) PROVE Decided(d, D)'
    BY <2>1, <2>4, DecidedSameFrames
  <2> QED BY <2>1, <2>2, <2>3, <2>4 DEF OneCrash
<1> QED BY <1>1, <1>2

LEMMA OneCrashAgrees == Types /\ OneCrash => SurvivorsAgree
<1> SUFFICES ASSUME Types, OneCrash, NEW p \in alive, NEW q \in alive,
                    NEW f \in 1..(Min({frame[p], frame[q]}) - 1)
             PROVE  executed[p][f] = executed[q][f]
  BY DEF SurvivorsAgree
<1>1. p \in Players /\ q \in Players /\ frame[p] \in Nat /\ frame[q] \in Nat
  BY Numbers DEF Types
<1>2. f \in 1..(frame[p] - 1) /\ f \in 1..(frame[q] - 1)
  <2>1. /\ Min({frame[p], frame[q]}) \in {frame[p], frame[q]}
        /\ \A y \in {frame[p], frame[q]} : Min({frame[p], frame[q]}) <= y
    BY <1>1, MinOfNats
  <2> QED BY <1>1, <2>1
<1>3. \E D \in Int : LogEndsAt(p, D) /\ LogEndsAt(q, D)
  <2>1. MaxFrame + 1 \in Int /\ Frames \subseteq Int
    BY DisconnectAssumption DEF Frames
  <2> QED BY <2>1 DEF OneCrash, Undecided, Decided
<1> QED BY <1>2, <1>3 DEF LogEndsAt

(* If messages are fast against the time-outs, data does not overtake the  *)
(* orders to disconnect, and only one player may crash, whichever it is    *)
(* and whenever it does, the players that are left have executed the same  *)
(* commands on every frame, those of the one disconnected up to the same   *)
(* frame everywhere.                                                       *)
THEOREM SurvivorsAgreeHolds ==
  ASSUME Timely, ~Overtaking, OneMayFail PROVE Spec => []SurvivorsAgree
<1>1. Spec => [](Types /\ Truth /\ OneCrash /\ RelaysByRouter)
  BY InitTypes, InitTruth, InitOneCrash, NextTypes, NextTruth, NextOneCrash, PTL DEF Spec
<1> QED BY <1>1, OneCrashAgrees, PTL
=============================================================================
