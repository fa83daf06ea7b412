--------------------------- MODULE NetCommandList ---------------------------
(***************************************************************************)
(* The list of commands that every queue of the network layer is built     *)
(* from: the commands of a frame, of a connection, of the packet router.   *)
(* Commands are inserted in the order of their type, their player and      *)
(* their number, whatever order they arrive in, and a command that is      *)
(* already in the list is dropped.  All players execute the commands of a  *)
(* frame in list order, so the order may depend on nothing but the set of  *)
(* commands.                                                               *)
(*                                                                         *)
(* The linked list is a sequence, m_lastMessageInserted an index into it.  *)
(***************************************************************************)
EXTENDS Integers, Sequences, SequencesExt

CONSTANT Commands  \* a finite set of Command

(* What the list reads of a NetCommandMsg: its type, player and ID, the    *)
(* number it sorts by, and for an acknowledgement the player whose command *)
(* it acknowledges.  hasID is DoesCommandRequireACommandID.                *)
Command == [type : Nat, player : Nat, id : Nat, sort : Nat, orig : Nat,
            hasID : BOOLEAN]

AckTypes == 0..2  \* ACKBOTH, ACKSTAGE1, ACKSTAGE2

(* NetCommandMsg::getSortNumber of a command with an ID is that ID, and a  *)
(* player gives an ID to one command.                                      *)
ASSUME CommandsAssumption ==
  /\ Commands \subseteq Command
  /\ \A c \in Commands : c.hasID => c.sort = c.id
  /\ \A c, d \in Commands :
       c.hasID /\ d.hasID /\ c.player = d.player /\ c.id = d.id => c = d

VARIABLES
  list,  \* m_first to m_last
  hint   \* m_lastMessageInserted, 0 if it is null

vars == <<list, hint>>

Init == list = <<>> /\ hint = 0

-----------------------------------------------------------------------------

(* Mutant of Equal: commands of two players may pass for the same one.     *)
EqualNumbers(c, d) == c.hasID = d.hasID /\ c.sort = d.sort

(* NetCommandList::isEqualCommandMsg                                       *)
Equal(c, d) ==
  /\ c.hasID = d.hasID
  /\ c.player = d.player
  /\ IF c.hasID
       THEN c.id = d.id
       ELSE /\ c.type = d.type /\ c.type \in AckTypes
            /\ c.orig = d.orig /\ c.sort = d.sort

(* Mutant of InOrder: what follows the hint is not looked at.              *)
InOrderIgnoringNext(c) ==
  /\ hint # 0
  /\ list[hint].type = c.type
  /\ list[hint].player = c.player
  /\ list[hint].id < c.id

(* A command that belongs right behind the last one inserted.  The test    *)
(* that the two are not equal cannot fail, their IDs differ.               *)
InOrder(c) ==
  /\ hint # 0
  /\ list[hint].type = c.type
  /\ list[hint].player = c.player
  /\ list[hint].id < c.id
  /\ hint < Len(list) =>
       \/ list[hint + 1].type > c.type
       \/ list[hint + 1].player > c.player
       \/ list[hint + 1].id > c.id

(* A loop of addMessage: the first position from i on that is not in past. *)
Scan(i, past) ==
  CHOOSE j \in i..(Len(list) + 1) : j \notin past /\ i..(j - 1) \subseteq past

(* The three loops of addMessage, past smaller types, then players, then   *)
(* numbers.  Its shortcuts for a type beyond the last or before the first  *)
(* one come to the same.                                                   *)
Position(c) ==
  LET types   == {k \in 1..Len(list) : list[k].type < c.type}
      players == {k \in 1..Len(list) : /\ list[k].type = c.type
                                      /\ list[k].player < c.player}
      numbers == {k \in 1..Len(list) : /\ list[k].type = c.type
                                      /\ list[k].player = c.player
                                      /\ list[k].sort < c.sort}
  IN Scan(Scan(Scan(1, types), players), numbers)

(* The command the new one is compared with before it is inserted.         *)
Neighbour(i) == IF i > Len(list) THEN Last(list) ELSE list[i]

InsertAtPosition(c, i) ==
  /\ list' = InsertAt(list, i, c)
  /\ hint' = i

Dropped(c) ==
  list # <<>> /\ ~InOrder(c) /\ Equal(Neighbour(Position(c)), c)

(* NetCommandList::addMessage                                              *)
AddMessage(c) ==
  \/ list = <<>> /\ InsertAtPosition(c, 1)
  \/ list # <<>> /\ InOrder(c) /\ InsertAtPosition(c, hint + 1)
  \/ Dropped(c) /\ UNCHANGED vars
  \/ list # <<>> /\ ~InOrder(c) /\ ~Dropped(c) /\ InsertAtPosition(c, Position(c))

(* Mutant of HintWithout: the hint is left on the command removed.         *)
StaleHint(i) == hint

(* NetCommandList::removeMessage: the hint moves on to the next command.   *)
HintWithout(i) ==
  IF hint = i THEN IF i = Len(list) THEN 0 ELSE i
  ELSE IF hint > i THEN hint - 1
  ELSE hint

RemoveMessage(i) ==
  /\ list' = RemoveAt(list, i)
  /\ hint' = HintWithout(i)

(* NetCommandList::reset                                                   *)
Reset == list' = <<>> /\ hint' = 0

Next ==
  \/ \E c \in Commands : AddMessage(c)
  \/ \E i \in 1..Len(list) : RemoveMessage(i)
  \/ Reset

Spec == Init /\ [][Next]_vars

-----------------------------------------------------------------------------

TypeOK ==
  /\ list \in Seq(Commands)
  /\ hint \in 0..Len(list)

(* The order of execution: by type, then player, then number.              *)
Less(c, d) ==
  \/ c.type < d.type
  \/ c.type = d.type /\ c.player < d.player
  \/ c.type = d.type /\ c.player = d.player /\ c.sort < d.sort

(* Two lists of the same commands are the same list, however they were     *)
(* filled: every player executes the commands of a frame in one order.     *)
StrictlySorted ==
  \A i, j \in 1..Len(list) : i < j => Less(list[i], list[j])

(* A command is only dropped if the list holds it: looking at one          *)
(* neighbour is enough, and no command of another player is taken for it.  *)
DropsOnlyDuplicates ==
  \A c \in Commands : Dropped(c) => c \in ToSet(list)

=============================================================================
