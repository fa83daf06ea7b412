----------------------- MODULE NetCommandWrapperList -----------------------
(***************************************************************************)
(* A command that does not fit in a packet travels in wrappers, one for    *)
(* each chunk of its bytes, and is put together again at the other end in  *)
(* a buffer kept under the command's ID.  Wrappers arrive in any order,    *)
(* and more than once: connections send again what was not acknowledged in *)
(* time, and the packet router passes on every wrapper and, once it has    *)
(* the whole command, that too, in wrappers of its own.                    *)
(*                                                                         *)
(* An ID may be another command's before or after: every player counts its *)
(* own from the same start, and the 16 bits wrap.  Of a chunk only the     *)
(* command counts that it is a part of.  Chunks are taken to be of one     *)
(* size: one whose number is within the buffer is within it, too.          *)
(***************************************************************************)
EXTENDS Naturals, FiniteSets

CONSTANTS
  WrappedCommand,
  Id,           \* Id[c]: the ID of the wrapped command
  Size,         \* Size[c]: the number of chunks it is cut into
  MaxCopies     \* bound: how often a chunk arrives

ASSUME WrapperAssumption ==
  /\ DOMAIN Id = WrappedCommand
  /\ Size \in [WrappedCommand -> Nat \ {0}]
  /\ MaxCopies \in Nat

VARIABLES
  wrappers,     \* m_list: the buffer of each ID, NoNode without one
  sent, over,   \* the commands sent, and those of which no copy is left
  arrived,      \* history: how often each chunk has arrived
  handed,       \* history: how often each command was handed over
  garbled,      \* history: IDs under which something else was handed over
  clashed       \* history: IDs sent while an earlier use was not over

wrapperVars == <<wrappers, sent, over, arrived, handed, garbled, clashed>>

Ids == {Id[c] : c \in WrappedCommand}
Chunks(c) == 0..Size[c] - 1

(* NetCommandWrapperListNode: m_numChunks, m_numChunksPresent, and m_data  *)
(* of the chunks in m_chunksPresent, by the command each is a part of.     *)
Node(n) == [num |-> n, present |-> 0, data |-> [k \in {} |-> k]]
NoNode == Node(0)

WrapperInit ==
  /\ wrappers = [i \in Ids |-> NoNode]
  /\ sent = {} /\ over = {}
  /\ arrived = [c \in WrappedCommand |-> [k \in Chunks(c) |-> 0]]
  /\ handed = [c \in WrappedCommand |-> 0]
  /\ garbled = {} /\ clashed = {}

(* Whether an ID is in use: a copy is under way, or a buffer open.         *)
InUse(i) == wrappers[i] # NoNode \/ \E c \in sent \ over : Id[c] = i

(* ConstructBigCommandPacketList: the chunks of a command are sent.        *)
Send(c) ==
  /\ c \notin sent
  /\ sent' = sent \cup {c}
  /\ clashed' = IF InUse(Id[c]) THEN clashed \cup {Id[c]} ELSE clashed
  /\ UNCHANGED <<wrappers, over, arrived, handed, garbled>>

(* The network has delivered the last copy: each chunk was sent until it   *)
(* was acknowledged.                                                       *)
LastCopy(c) ==
  /\ c \in sent \ over
  /\ \A k \in Chunks(c) : arrived[c][k] > 0
  /\ over' = over \cup {c}
  /\ UNCHANGED <<wrappers, sent, arrived, handed, garbled, clashed>>

(* Mutant of Fits: the last chunk is taken to exceed the buffer.           *)
FitsBelow(node, k) == k + 1 < node.num

Fits(node, k) == k < node.num

(* Mutant of Missing: a chunk that was received is received again.         *)
AnyChunk(node, k) == TRUE

Missing(node, k) == k \notin DOMAIN node.data

(* copyChunkData                                                           *)
WithChunk(node, c, k) ==
  IF Fits(node, k) /\ Missing(node, k)
  THEN [num |-> node.num, present |-> node.present + 1,
        data |-> [j \in DOMAIN node.data \cup {k} |->
                    IF j = k THEN c ELSE node.data[j]]]
  ELSE node

(* processWrapper, of a wrapper that doRelay found in a packet.            *)
ProcessWrapper(c, k) ==
  LET node == IF wrappers[Id[c]] = NoNode THEN Node(Size[c]) ELSE wrappers[Id[c]] IN
  /\ c \in sent \ over /\ arrived[c][k] < MaxCopies
  /\ wrappers' = [wrappers EXCEPT ![Id[c]] = WithChunk(node, c, k)]
  /\ arrived' = [arrived EXCEPT ![c][k] = @ + 1]
  /\ UNCHANGED <<sent, over, handed, garbled, clashed>>

IsComplete(i) == wrappers[i] # NoNode /\ wrappers[i].present = wrappers[i].num

Holds(i, c) == Id[c] = i /\ wrappers[i].data = [k \in Chunks(c) |-> c]

(* Mutant of Remaining: what was handed over stays in the list.            *)
KeepsAll == wrappers

Remaining == [i \in Ids |-> IF IsComplete(i) THEN NoNode ELSE wrappers[i]]

(* getReadyCommands, at the end of doRelay: whatever is complete is read   *)
(* as a command and leaves the list.                                       *)
GetReadyCommands ==
  /\ \E i \in Ids : IsComplete(i)
  /\ wrappers' = Remaining
  /\ handed' = [c \in WrappedCommand |->
                  IF IsComplete(Id[c]) /\ Holds(Id[c], c)
                  THEN handed[c] + 1 ELSE handed[c]]
  /\ garbled' = garbled \cup
       {i \in Ids : IsComplete(i) /\ ~\E c \in WrappedCommand : Holds(i, c)}
  /\ UNCHANGED <<sent, over, arrived, clashed>>

WrapperNext ==
  \/ \E c \in WrappedCommand : Send(c) \/ LastCopy(c)
  \/ \E c \in WrappedCommand : \E k \in Chunks(c) : ProcessWrapper(c, k)
  \/ GetReadyCommands

WrapperSpec == WrapperInit /\ [][WrapperNext]_wrapperVars

(* Each chunk is sent until it has arrived, and doRelay ends by looking    *)
(* for what is complete.                                                   *)
FairWrapperSpec ==
  /\ WrapperSpec
  /\ \A c \in WrappedCommand : \A k \in Chunks(c) :
       WF_wrapperVars(arrived[c][k] = 0 /\ ProcessWrapper(c, k))
  /\ WF_wrapperVars(GetReadyCommands)
-----------------------------------------------------------------------------
(* Types. A buffer counts the chunks it has.                               *)
NodeOK(node) ==
  /\ node.num \in Nat /\ node.present \in Nat
  /\ node = [num |-> node.num, present |-> node.present, data |-> node.data]
  /\ node.data \in [DOMAIN node.data -> WrappedCommand]
  /\ DOMAIN node.data \subseteq 0..node.num - 1
  /\ node.present = Cardinality(DOMAIN node.data)

WrapperTypeOK ==
  /\ DOMAIN wrappers = Ids /\ \A i \in Ids : NodeOK(wrappers[i])
  /\ sent \subseteq WrappedCommand /\ over \subseteq sent
  /\ DOMAIN arrived = WrappedCommand
  /\ \A c \in WrappedCommand : arrived[c] \in [Chunks(c) -> Nat]
  /\ handed \in [WrappedCommand -> Nat]
  /\ garbled \subseteq Ids /\ clashed \subseteq Ids

(* What is handed over is a command as it was sent, whole and of one       *)
(* piece, unless its ID came into use again while an earlier use was not   *)
(* over: "we already received this chunk" is true of no other command's.   *)
HandedOverIntact == garbled \subseteq clashed

(* A command is handed over again only if every chunk has arrived again.   *)
NoMoreThanArrived ==
  \A c \in WrappedCommand : \A k \in Chunks(c) : handed[c] <= arrived[c][k]

(* No chunk is lost: once each has arrived, the command was handed over or *)
(* is complete in its buffer.                                              *)
NothingMissing ==
  \A c \in WrappedCommand :
    Id[c] \notin clashed /\ (\A k \in Chunks(c) : arrived[c][k] > 0) =>
      handed[c] > 0 \/ (IsComplete(Id[c]) /\ Holds(Id[c], c))

(* A command that is sent is handed over at last.                          *)
HandedOver ==
  \A c \in WrappedCommand : c \in sent ~> (handed[c] > 0 \/ Id[c] \in clashed)
=============================================================================
