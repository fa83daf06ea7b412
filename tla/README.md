# Verification of W3DNext

TLA+ modules, TLC configurations and TLAPS proofs about the parts of this
repository (a Direct3D 11 port of Command & Conquer Generals: Zero Hour) in which
order, failure or stale state decide whether the program is right:

* the lockstep network protocol (`src/Core/GameEngine/Source/GameNetwork`),
* the replay check in worker processes (`src/Core/GameEngine/Source/Common`),
* the scheduler that calls the update modules of a logic frame
  (`src/GeneralsMD/Code/GameEngine/Source/GameLogic/System/GameLogic.cpp`),
* the render-state caches and the texture slots of the Direct3D 11 backend
  (`src/Core/Libraries/Source/WWVegas/WW3D2`).

`PROJECT.json` maps each definition to the source lines it translates and lists
the runs, the theorems, the hazards and, for every property, a mutation of the code
that breaks it. This file explains the whole.

1. [The system](#1-the-system)
2. [Modules](#2-modules)
3. [Runs: what is checked, with which bounds](#3-runs-what-is-checked-with-which-bounds)
4. [Fairness](#4-fairness)
5. [Proofs](#5-proofs)
6. [Disagreements between the code and what it says of itself](#6-disagreements-between-the-code-and-what-it-says-of-itself)
7. [What is not modelled](#7-what-is-not-modelled)
8. [Plan](#8-plan)
9. [Running it](#9-running-it)

## 1. The system

The game is a deterministic simulation. In a network game every player runs all of
it and the players exchange only commands. All must execute the same commands on
the same logic frame, or the simulations diverge and the game ends with a
"mismatch". The network layer exists to make that so over UDP.

| Component | State it keeps | Operations | Talks to |
|---|---|---|---|
| `Network` | status of the local player, run ahead, last execution frame, last frame completed | issue a command, tick frames, leave, relay a ready frame | the game's command list, `ConnectionManager` |
| `ConnectionManager` | connections, a `FrameDataManager` per player, pending and relayed commands, packet router | send, relay, acknowledge, count commands, test readiness, disconnect a player, change the run ahead | `Network`, `Connection`, `DisconnectManager`, `Transport` |
| `FrameData`, `FrameDataManager` | ring of frames: commands held, count announced, quit frame | add, count, ready?, reset, zero | `ConnectionManager` |
| `Connection` | queue, times, quitting flag | send, `doSend`, `processAck`, quit | `Transport`, `NetCommandList` |
| `NetCommandList` | sorted list, insertion hint | add, remove, reset | all of the above |
| `NetCommandWrapperList` | buffers of chunks | collect, hand over | `ConnectionManager` |
| `DisconnectManager` | screen, time-outs, votes | wait, vote, time out, choose a new packet router | `ConnectionManager`, `Network` |
| `Transport` | send and receive buffers | queue, send, receive | UDP |
| Replay check | worker processes, positions, errors | start, poll, print | operating system |
| `GameLogic` scheduler | heap of sleeping update modules, list of objects to destroy | register, awaken, destroy, the update loop, save and load | the update modules, which call back |
| D3D11 render states | vector, state cache, objects last bound | setters, flush, default, invalidate | device context |
| D3D11 texture slots | texture cache, render targets, stage slots, references | bind, upload, evict, release | textures, device context |
| `DX8Wrapper` raw states | `RenderStates[]` | `Set_DX8_Render_State`, `Reset_Device` | the backend's vector |
| LAN lobby, NAT, GameSpy threads | see `PROJECT.json` | | |

How a command travels: a local command gets the *execution frame*, the current frame
plus the *run ahead* (never going back). It joins the local `FrameData` and is sent
to the *packet router*, one of the players, who passes it on to all others. When a
player's execution frame has moved on, it announces how many commands it has
scheduled for each frame passed (`FRAMEINFO`). A player executes a frame once it
holds, of every player still in the game, as many commands as were announced.

What makes this hard:

* **Numbers that must agree.** A count announced is a promise. The run ahead changes
  while commands are under way, on one frame for everybody; the ring of frames has
  to span both the past kept for others and the future others may schedule.
* **Unreliable delivery.** Packets are lost, doubled and reordered, the transport's
  buffer runs full after a command was marked as sent, acknowledgements are sent once.
* **Waiting.** Everybody waits for everybody; a lost count, or waiting for a player
  that has left, stops the game for all.
* **Crashes.** A player that crashes has sent its commands of a frame to some of the
  others. Those that are left must find out, agree on the frame it is last part of,
  and replace it if it was the packet router.
* **Leaving.** A player leaves on a frame in the future, and its connections must
  flush or give up; the other players must neither wait for it nor miss its commands.
* **Hints and caches.** The insertion hint of a list, the objects last bound, the place
  of a module in the heap, the uploaded copy of a texture: each is a second record of
  something that changes elsewhere.
* **Callbacks.** An update may create, destroy and wake others while the scheduler's
  loop is in the middle of the heap.
* **References counted by hand.** The device context holds views it does not count.

What makes each component right:

* `Network`: a count is final, no frame is skipped, a player has announced what it
  executes, a command gets the run ahead to travel.
* `ConnectionManager` with `FrameData`: all players execute the same bundles (the
  refinement of `Lockstep`), slots are not mixed up, laggards can be served, nobody
  runs away, everybody advances.
* `DisconnectManager`: those that are left execute the same, whoever decides is right
  about the others' frames, and they go on.
* `Connection`: what was accepted arrives, queues drain, leaving ends.
* `NetCommandList`: the order is a function of the contents, only duplicates are
  dropped, the hint is never stale.
* `NetCommandWrapperList`: what is handed over is a command as it was sent, no oftener
  than its chunks came, and at last.
* `GameLogic` scheduler: the heap is in order, everybody due is called in its frame and
  once, every frame ends, and a loaded game goes on as the saved one would.
* Replay check: output in order, limit kept, exit code right, it ends.
* D3D11 render states: a draw uses what the vector says.
* D3D11 texture slots: a draw samples the bytes asked for, and every view is released as
  often as it is held.

## 2. Modules

| Module | Models | Notes |
|---|---|---|
| `FrameTicker` | `Network.cpp`, one player in full detail | one pass of `GameEngine::update` in five steps; what the peers send is left open |
| `FrameTickerProofs` | | seven theorems |
| `Lockstep` | nothing; the abstract promise | a frame is closed by the first player to execute it |
| `FrameSync` | `ConnectionManager`, `FrameData`, `FrameDataManager` of all players, composed with the scheduling of `FrameTicker` in short form | implements `Lockstep` under a refinement mapping |
| `FrameSyncProofs` | | eight theorems, the refinement among them |
| `DisconnectSync` | `DisconnectManager` of all players, with the parts of `ConnectionManager` it drives | what a player sends for a frame is one item |
| `DisconnectSyncProofs` | | three theorems |
| `Connection` | `Connection.cpp`, both ends and the wire | safety and liveness |
| `ConnectionProofs` | | three theorems |
| `NetCommandList` | `NetCommandList.cpp` | its linked list as a sequence, the hint as a position |
| `NetCommandWrapperList` | `NetCommandWrapperList.cpp` | of a chunk, only the command it is a part of |
| `NetCommandListsProofs` | proofs about both lists | eight theorems |
| `ReplaySimulation` | `ReplaySimulation.cpp`, `WorkerProcess.cpp` | parent and workers |
| `ReplaySimulationProofs` | | three theorems |
| `RenderStateFlush` | `D3D11Backend.cpp`, `D3D11StateCache` | keys and descriptions are parameters |
| `D3D11States` | `D3D11States.cpp` | the keys, bit by bit in 32-bit arithmetic, and the descriptions |
| `TextureSlots` | `D3D11Backend.cpp`, `D3D11Backend_W3D.cpp`, `texture.cpp` | addresses and memory of views may be used again |
| `D3D11BackendProofs` | proofs about `TextureSlots` and `RenderStateFlush` | seven theorems |
| `SleepySchedule` | nothing; the abstract promise | a set of modules with the frames they are due |
| `SleepyUpdates` | `GameLogic.cpp`, `UpdateModule.h` | the heap array, its indices and its loops, step by step |
| `SleepyUpdatesProofs` | | eight theorems |
| `MC...` | instances for TLC | commands, vectors and values of the runs |

### FrameTicker

Variables have the names of the members without `m_`; `step` says where the pass of
the main loop is. `commandCount` and `announced` stand for the local `FrameData`
(commands scheduled per frame) and for what `FRAMEINFO` commands have promised.

| Action | Code |
|---|---|
| `IssueCommand` | `sendLocalGameMessage(getExecutionFrame())` |
| `FrameTick` | the first part of `Network::processCommand`, with `processFrameTick` for each frame due |
| `Leave` | `MSG_CLEAR_GAME_DATA`: `PLAYERLEAVE` one frame beyond, both frames announced |
| `UpdateRunAhead` | `ConnectionManager::updateRunAhead` on the packet router |
| `DestroyPlayer` | `DisconnectManager::sendPlayerDestruct` while a frame is waited for |
| `ManagerUpdate` | `DisconnectManager::update`: notes the frame it has seen |
| `RelayCommands` | `RelayCommandsToCommandList`, its `RUNAHEAD` and `PLAYERLEAVE` |
| `WaitForFrame` | the frame is not ready, or the local player has left and runs on |
| `EndOfGame` | `endOfGameCheck` |
| `GameLogicUpdate` | `GameLogic::update`; `GameEngine.cpp` runs it after each ready frame |

That a pass is split into these steps matters: a command is issued before the tick or
after it, and the run ahead changes between the tick and the next command.

### FrameSync and Lockstep

Each player's `frameData[p][q]` is a real ring of `FrameDataLength` slots addressed by
`frame % length`, so that a wrong length, an early reset or a late message shows.
The network is the set of all messages ever sent, which may arrive at any time and any
number of times: it covers loss, resending and duplicates, and relieves this module of
`Connection`. `Receive` is `processNetCommand` and `sendRemoteCommand`; `Advance`
is one ready pass of `Network::update` with the `GameLogic` update and the tick that
follow it. Players may leave, the packet router may not.

`FRAMEDATA_RESEND`, the answer of `FrameData::allCommandsReady` when a frame holds more
commands than announced, is not an action: the invariant `NeverTooManyCommands`
says that it never occurs as long as nobody is disconnected by time-out.

What is said of slots is said of the frames a player serves, `Served(p)`: those it keeps
for others behind it, and those it has yet to execute. Section 6 says why a player that
leaves serves fewer.

### DisconnectSync

What happens when the players wait in vain. Each has a `dm[p]` with the members of
its `DisconnectManager`; the menu and the pings are left out. Here a player's
commands of a frame and their count are one item, `held[p][q]` the frames `p` has all
of: `FrameSync` has the parts, and a disconnect drops or passes on the whole.

| Action | Code |
|---|---|
| `Advance` | a ready pass of `Network::update`, with `allCommandsReady` (screen off, votes reset) and `nextFrame` |
| `TurnOnScreen` | `DisconnectManager::update`, the frame has not changed for `m_networkDisconnectTime` |
| `Notify` | `notifyOthersOfCurrentFrame`, which also hears itself and serves those known to be behind |
| `TimeOut` | one of the `m_playerTimeouts` runs out |
| `Vote` | `voteForPlayerDisconnect` |
| `Disconnect` | `updateDisconnectStatus`: somebody is out, all others are on one frame, and this is the next packet router |
| `ReceiveData` | commands, passed on if they came for others |
| `ReceiveFrame`, `ReceiveScreenOff`, `ReceiveVote`, `ReceiveDisconnect` | `processDisconnectCommand` |
| `AckStage2` | the packet router has all acknowledgements of a command: no longer pending |
| `Crash` | a player is gone, with what its memory held |

`Remove` is `ConnectionManager::disconnectPlayer` with `resendPendingCommands`: on a
change of the packet router everybody sends again what is pending. `Next` lets every
disconnect message be late or come again. Two assumptions are constants, because the
code relies on them without ensuring them:

* `Timely`: messages take much less than the time-outs (5 seconds to the screen, 15 to
  the first notice, 60 to the disconnect). The screen comes up only if somebody has
  crashed, and not on the frame after a decision before the order to disconnect is with
  all that shall obey it; only crashed players are timed out or voted against; when a player decides, what
  the others had to say has arrived; a crashed player's last messages are in, or
  lost, when the notices begin. Without it, a player that is voted out alive may still
  get its commands to some of the others (`PROJECT.json`, hazards).
* `~Overtaking`: what a player sends after a `DISCONNECTPLAYER` is not taken in before
  it. Mostly both are in one packet. Section 6 shows what happens otherwise.

### Connection

`queue[p]` maps each command held to the age of its last sending. `DoSend(p, n)` is
`Connection::doSend` with a transport that takes `n` of the packets: the code marks
commands as sent, and deletes acknowledgements, before it knows whether the packet
was taken. Packing is modelled with the command that does not fit, which ends the
packet, and is left for the next call. Times are ages, cut off beyond what they are
compared with.

### NetCommandList

`addMessage` in full: the hint's shortcut, the three scans and the comparison with one
neighbour. Its special cases for a type beyond both ends of the list compute the same
position. The scans are written with `CHOOSE`, not recursively, for the proofs.

### NetCommandWrapperList

A buffer (`list[i]`, a `NetCommandWrapperListNode`) is opened by the first chunk that
comes under its ID. `Send` is `ConstructBigCommandPacketList`, `ProcessWrapper` the
function of that name with `copyChunkData`, `GetReadyCommands` the end of `doRelay`.
Chunks come in any order and up to `MaxCopies` times, as retries and the packet router
make them; `LastCopy` says that no more will come. Two commands may have one ID, at
different times or at once: `clashed` remembers the IDs of which a new use began while
a copy or a buffer of the last one was still about, and the properties exempt those.

### ReplaySimulation

The loop of `simulateReplaysInWorkerProcesses`, one action per phase of a pass,
interleaved with workers that end at any time with any code. `CreateProcess` may fail.

### RenderStateFlush and D3D11States

`RenderStateFlush` leaves open how a vector is keyed; the theorem about it names the
condition (`KeysTellStatesApart`) and the runs supply the real keys. Creation of an
object may fail. Left out: `blendOp` and `depthEnable`, to which all callers give one
value; and the two-sided stencil fields, whose raw states `Set_DX8_Render_State` does not
forward (it forwards 52 to 59).

### TextureSlots

`stageView` is `m_stageSRV`, `slot` what the device context has bound, `refs` the COM
reference counts. A view's memory (`View`) and a texture's address (`Address`) may be
used again for another, which is how a dangling pointer becomes a wrong picture.

| Action | Code |
|---|---|
| `SetNull`, `SetTarget`, `SetUnready`, `SetManaged` | the branches of `Set_Texture`, with `Bind_Neutral_Texture`, `Bind_Cached_Texture`, the uploads and `Store_Cached_Texture` |
| `CreateTexture`, `Create_Render_Target` | a texture object at a free address; a target of this backend |
| `Set_D3D_Base_Texture`, `Invalidate` | the surface is exchanged, or given up: the generation counts |
| `Rewrite` | a video frame or the radar painted into the same surface |
| `Destroy` | `~TextureBaseClass`, with both evictions |
| `Set_Render_Target`, `Bind_Back_Buffer_Targets` | what is drawn to |
| `Apply_Color_Grade` | the end of a frame: the back buffer, and an empty slot 0 |
| `Shutdown` | `Release_Device_Objects`, and a new backend while textures live on |

A creation may fail for the kinds in `MayFail`. `asked` remembers what a stage was last
asked to sample, `adrift` the stages whose slot was emptied by the color grade, or left
as it was because nothing could be created; `DrawsAsAsked` exempts those (section 6).

### SleepyUpdates and SleepySchedule

| Action | Code |
|---|---|
| `BeginObjects`, `EndObjects`, `CleanUp`, `CleanedUp`, `EndFrame` | the parts of `GameLogic::update` around the loop |
| `CallUpdate`, `ReturnFromUpdate`, `PutOffDisabled` | the loop: the module on top is called, or put off because it is disabled |
| `SetWakeFrame` | `friend_awakenUpdateModule`, from whatever is running |
| `NewObject`, `DestroyObject`, `ProcessDestroyList` | `registerObject`, `destroyObject`, `processDestroyList` |
| `RebalanceParent`, `RebalanceChild` | one swap of the loop that moves a module up or down |
| `SaveAndLoad` | `loadPostProcess`: `remakeSleepyUpdate` from the objects' modules |

The loops are steps of their own (`loop`, `at`), although nothing runs between them, so
that an order that holds only at the end of a loop is stated as such. `SleepySchedule`
has no heap: modules are due in frames, the most urgent is called. It is implemented
under the mapping `Abstract`.

## 3. Runs: what is checked, with which bounds

| Run | Shows | Bounds, and why they are enough |
|---|---|---|
| `frame_ticker` | counts are final in a game, and there are no gaps (the types, the window of frames scheduled, own counts before execution and the travel time are proved only) | run ahead 1 to 3: it can shrink by more than one and grow back; 5 frames, so that each is ticked after a change; 2 commands a frame, one before and one after an event |
| `sleepy_updates` | heap order, punctual calls, one call a frame, frames end, refinement of `SleepySchedule` | a vehicle (AI module, helper) and a factory (production module, tracker), modules of three phases; calls asked for at once, for the next frame and the one after, sleeps of 0 and 2 frames and for ever (5); 2 frames and the load of a saved game before each: the second frame calls what slept through the first, what the first created and what it woke |
| `frame_sync_pair` | no aliasing, servable laggards, counts never exceeded, one run ahead | 12 frames in a ring of 9: slots are reused; run ahead 1 to 2 changes, and a player leaves, while commands of earlier frames are under way; one command, or change of the run ahead, each |
| `frame_sync_relay` | refinement with three players through the packet router, bounded drift, everybody advances | the smallest case in which the packet router relays and one player waits for another's count; one of them issues a command or leaves, and 3 frames let the others execute that |
| `disconnect_sync` | survivors agree, whoever decides is right, survivors go on | three players, of which the packet router and another one may crash in either order and at any point; one frame is executed and the next one waited for, so that players are ahead and behind. A larger `MaxFrame` repeats that |
| `disconnect_sync_overtaking` | violation, see 6 | as above, one crash, no votes |
| `command_list` | strictly sorted, only duplicates dropped, the hint valid | nine commands of two players and three types, with IDs that wrap around |
| `wrapper_list` | commands handed over whole, no oftener than they came, and at last | two commands of one ID, of 2 and 3 chunks: the second comes while the first is under way, when it is over, or when a late copy has opened a new buffer; three copies of each chunk, so that a command can come again in full and leave a part behind |
| `connection` | nothing lost, delivery, draining, closing | two commands with one ID, the sender's own and a relayed one, packets of one command, so that commands are skipped; both ends leave at any time; a quitting connection has 1 tick to flush. `NothingLost` is proved for all other values |
| `replay_simulation` | output in order, process limit, exit code, it ends if all could be started | four replays, two at a time: the slots are used twice; three exit codes tell an error from another |
| `render_state_flush` | the memory of what is bound is right, draws are as set | five vectors with the real keys, as a frame of the game sets them: opaque, blended, two stencil passes, stencil off with its reference kept |
| `texture_slots` | references exact, nothing freed is bound, only living textures are kept, draws sample the bytes asked for | a managed texture, one painted over and a target take turns on two addresses; two stages, so that a view is shared; four views for at most five holders, so that memory is used again at once; two contents and three generations; uploads, also of the white stand-in, may fail. Symmetric in addresses and views |

The bounds `MaxFrame`, `MaxCommands`, `Leavers`, `Commands`, `Replays` and the sets of
vectors and values are bounds of the exploration; the other constants are the code's
(`MIN_RUNAHEAD` and so on), made smaller: `FRAMES_TO_KEEP` is one more than the largest
run ahead, the ring as long as the assumption in `FrameSync` needs. With the code's values (128 frames ahead, a ring of
258) the same assumption holds with room to spare: 3M/2 + 3 <= 2(M + 1) for M >= 2.

Deadlock is checked except where a finished run is the end of the behaviour: a
player in `POSTGAME` or at `MaxFrame` (`FrameTicker`), players that have all left or
reached `MaxFrame` (`frame_sync_pair`), survivors that have reached it
(`disconnect_sync`, where `SurvivorsGoOn` rules out an early stop), the last frame of
`sleepy_updates` (`FramesEnd` rules out an early stop), all commands handed over and all
copies used up (`wrapper_list`, with `HandedOver`), all textures gone (`texture_slots`),
and the end of the replay check.

## 4. Fairness

* `FrameSync`: weak fairness of each player's `Advance`, because the main loop calls
  `Network::update` for ever; weak fairness of receiving something, because
  `Connection` resends what is not acknowledged. `MaxFrame` ends the behaviour.
* `DisconnectSync`: the passes of the main loop of each player (`Advance`,
  `TurnOnScreen`, `Notify`, `Disconnect`), its clock (`TimeOut`), and the arrival of
  commands, disconnect frames and disconnect orders from players that have not crashed,
  which `Connection` resends. Nobody has to vote, and no acknowledgement has to arrive.
* `Connection`: time passes (weak fairness of `Tick`). Of what is needed and sent
  again and again, some is taken by the transport and some arrives (strong fairness):
  the usual fair-lossy channel. No datagram is duplicated for ever. Without one of the
  last two the retries could not help, whatever the code did.
* `ReplaySimulation`: the parent keeps running and every worker ends in the end. A
  worker that hangs hangs the check, that is so in the code, too.
* `SleepyUpdates`: the loops that restore the heap run on (weak fairness of their
  steps), update functions return and `GameLogic::update` goes on (strong fairness, as
  saving, loading or being woken may come in between).
* `NetCommandWrapperList`: a chunk is sent again until it has arrived, and `doRelay` ends
  with `getReadyCommands`.
* `FrameTicker`, `NetCommandList`, the render states and the texture slots: safety only,
  no fairness.

## 5. Proofs

All leaves are checked by TLAPS (Z3, Zenon, LS4); nothing is assumed but the named
assumptions on the constants, which TLC evaluates in the runs.

**FrameTickerProofs.** For every run ahead range, number of frames and commands:
`TypeCorrect`, `CountsFinal`, `NoGap`, `ExecutedAfterAnnounced`, `BoundedWindow`,
`CommandsInTime`. None of these is inductive alone. The inductive invariant `IInv`
adds what the code relies on without saying so: until the first tick of a game nothing
is scheduled (`PregameInv`); once the present frame is ticked, the last completed
frame is exactly the one before the execution frame and the execution frame is at
least the run ahead away (`IngameInv`); a leaving player never gets past its leave
frame (`LeavingInv`); and commands lie below the execution frame plus one
(`WindowInv`). The argument: an announcement covers frames below the execution frame,
which never decreases, and every scheduling is at the execution frame or beyond it.
The one exception is the leave frame, which is announced while `DestroyPlayer` may
still schedule for it; `CountsFinal` excludes it, and section 6 says why.

**FrameSyncProofs.** For any players (even infinitely many), run aheads, ring, commands
and number of frames, on the network that loses, doubles and reorders: `TypeCorrect`,
`NeverTooManyCommandsHolds`, `NoAliasingHolds`, `LaggardServableHolds`,
`BoundedDriftHolds`, `SameRunAheadHolds` and the refinement `LockstepImplemented`. All
follow from one inductive invariant (`InvHolds`), and none is inductive without it:

* a player schedules ahead of its frame and has announced all but the last frame it
  schedules for (`CountersInStep`, `CommandsInRange`, `CommandsNumbered`);
* what is under way is true whenever it arrives (`MessagesTrue`): a count is of a frame
  its sender has closed, so it is right for ever, and a command is one that was scheduled;
* nobody gets past the last frame another has closed without having seen it leave
  (`NobodyRunsAway`);
* a slot holds commands, and a count, of frames of the player's window
  (`HeldTrue`, `CountsTrue`), which is shorter than the ring: frames in one window have
  slots of their own (`SlotInjective`, `ServedAlone`). This is where the assumption on
  `FRAME_DATA_LENGTH` is used;
* a player has all of its own commands, and everybody's of the frames it has executed
  (`OwnComplete`, `KeptComplete`), and executed what was scheduled (`LogTrue`); its run
  ahead is the last change it executed (`RunAheadFromLog`).

The step that matters is `Advance`: a frame that is ready is complete (`ReadyIsComplete`),
because the slot holds as many commands as were announced, only commands of that frame,
and the announcement is true. Then the log stays true, and two players' logs agree
wherever both have one (`EqualFramesEqualLogs`). The log of `Lockstep` is that of any player
furthest ahead (`SomebodyLeads`): the first to execute a frame closes it, the others
follow.

**DisconnectSyncProofs.** For any players, run ahead and number of frames. `TypeCorrect`
holds whatever crashes and however late messages are. With `Timely` alone, any number of
crashes, `DecidedOnOneFrameHolds`: all that have not crashed are on the frame of the one
that decides. Its invariant says that what players have heard of each other is true or
about to be corrected: if `p` has heard of `q` on a frame, then `q` waits there, or the
`SCREENOFF` that says otherwise is under way to `p` (`HeardTrue`, and `SaidTrue` of the
messages). A decision waits for what is under way, so the second case is excluded.

`SurvivorsAgreeHolds` needs `Timely`, `~Overtaking`, and that at most one player, any of
them, crashes (`OneMayFail`). Two crashes are too many in general: with four players, the
one that decides may crash when it has told one of the others only. The invariant
(`OneCrash`) has two phases. Until the decision, everybody is connected to everybody
(`Undecided`). From then on (`Decided`), one player `d` has disconnected the victim on a
frame `D`, all logs change from all players to the others at `D`, and who has not yet
obeyed the order cannot execute `D` (`MustObey`). That last part is the proof's work: what is
missing of frame `D` cannot come from `d`, whose data does not overtake the order; nor
from the victim, whose last messages are in; nor from anybody else, as these send to `d`
alone, are not asked to relay (`RelaysByRouter`), and serve only players they know to be
behind, which this one is not. The order also keeps further players from deciding, and
the screen of the next frame off.

**NetCommandListsProofs, sorted list.** For every finite or infinite set of commands that have IDs
(`AllHaveIDs`): after any history of additions, removals and resets the list is
strictly sorted (`Sorted`), and `addMessage` drops only what is there already
(`OnlyDuplicatesDropped`). Strict sorting is inductive with the type invariant, which
includes that the hint is a position of the list; `TypeCorrect` holds for commands without IDs, too. The work is in two lemmas: the
position the three scans find splits the list into smaller and not smaller
(`PositionSplits`), and so does the place behind the hint when the shortcut is taken
(`InOrderSplits`). Two players that hold the same commands of a frame hold them in one
order: a strictly sorted list is determined by its contents. Without `AllHaveIDs` the
theorem is false, see section 6.

**ConnectionProofs.** For any two players, commands, packet size and times:
`TypeCorrect` and `NoLoss`. The inductive invariant is
`TypeOK /\ AcksAreTrue /\ NothingLost`: an acknowledgement anywhere, in a
queue or on the wire, is of a command its sender has received, unless that sender had
closed the connection. Without `AcksAreTrue` an acknowledgement could remove a command
that has not arrived.

**D3D11BackendProofs, render states.** For every set of vectors and every keying:
`RememberedIsAlwaysBound` and `FlushTypeCorrect`. If different states never share a key
(`KeysTellStatesApart`): `FlushDrawsAsSet`. The inductive invariant adds that cached
objects say what a vector with their key says, and that a clean vector's objects are
the ones last bound. The condition holds for the vectors of `render_state_flush`;
it does not hold for all stencil operations, see section 6.

**SleepyUpdatesProofs.** For any objects, modules, phases and delays: `TypeCorrect`,
`Sorted`, `IndicesRight`, `OnTopWhileUpdated`, `Valid`, `NoneOverslept`, `OnceAFrame` and
the refinement `Implements`. The inductive invariant follows the heap through its loops:
while one runs, the order holds everywhere but at one place (`HeapOrder`), and around that
place between its parent and its children (`AroundOrder`), so that the next swap repairs
more than it breaks. `Places` and `Members` tie the indices to the array and the array to
the living objects, `OnTop` keeps the called module on top whatever its update does: it
asks others to be called no earlier than itself, and `Punctual` bounds their frames.

**NetCommandListsProofs, wrappers.** For any commands, IDs and sizes: `Intact`,
`ArrivedFirst`, `Complete`, `WrapperTypeCorrect`. The inductive invariant: under an ID that has not
clashed, a buffer holds chunks of one command (`Owned`), and copies of only one are under
way (`OneUser`); a chunk in a buffer came once more than its command was handed over
(`Counted`); and what came of a command not handed over yet is in its buffer
(`Collected`).

**ReplaySimulationProofs.** For any number of replays, any `-jobs` and any exit codes:
`OutputInOrder`, `LimitKept`, `ExitCodeTrue`. The inductive invariant says that the list
holds the replays from the first that is not printed on, without a gap (`ListInOrder`),
that an error is counted exactly if a printed replay has one (`ErrorsCounted`), and that
the number counted at the start of a pass is never too small while workers are started,
nor left over when the list is empty (`CountHolds`): without the latter the loop could
end with replays that were never started.

**D3D11BackendProofs, texture slots.** For any finite sets of textures, addresses and stages, any views,
and whatever fails to be created: `EveryReferenceCounted`, `NothingFreedIsBound`,
`NothingOutlivesItsTexture`, `DrawsSampleWhatWasAsked`. The first half counts: who holds a
view is a sum over stages, kept copies, targets and the stand-in, and each of these that
gives up one view for another changes it by one less and one more (`CountedStage`,
`CountedCopy`, `CountedTarget`, `CountedStandIn`, `CountedEviction`). A view whose memory
is used again is counted by nobody, hence held by nobody (`FreshView`), and what is held
is not destroyed by a step (`CountedStep`). The inductive invariant adds to the four
properties what each holder's view shows: a kept copy of the current version the present
bytes of its texture (`CopiesOK`), a target what is rendered to it (`TargetsShow`), the
stand-in white (`NeutralShows`), and a stage that is not adrift what was asked for
(`StageOK`); and that no object is at two addresses (`OneAddress`).

**Only model-checked:** `SurvivorsAgree` with two crashes among three players, and all
liveness, as TLAPS has no `ENABLED` and no proof rules for fairness here. `D3D11States` computes with bits, which the provers do not
reason about.

## 6. Disagreements between the code and what it says of itself

The run `disconnect_sync_overtaking` shows `SurvivorsAgree` violated. Who disconnects a
player asks whether all are on one frame, not what each holds of it. The packet router
crashes when its commands of the frame are with player 2 but not with player 1. Player 1
disconnects it and, now packet router, sends its own commands again. If they reach player
2 before the `DISCONNECTPLAYER`, that player can execute the frame with the crashed
player's commands; player 1 executes it without. `ConnectionManager.cpp:1765` says that
this case is accounted for; the assertion at `DisconnectManager.cpp:315` sees it in debug
builds.

More were met while modelling, some of them as counterexamples of TLC to properties that
were then restricted to what holds; no run is kept for them:

* A leaving player announces the count of the frame it leaves on (`Network.cpp:537`: "we
  are guaranteed not to send any more commands for this frame"). While it waits for the
  last frames its disconnect manager may still put another player out of the game, with a
  command on that very frame (`DisconnectManager.cpp:736`). The others hold more commands
  than announced. `CountsAreFinalInGame` exempts the leave frame.
* `NetworkDefs.h:38` gives the length of the ring as one frame beyond twice the run ahead.
  Players also send to one that is leaving and waits for its last frame, as far ahead as
  they schedule, while it keeps `FRAMES_TO_KEEP` frames behind: its ring would have to span
  `FRAMES_TO_KEEP` and three run aheads. It does not, and a slot may hold the commands of
  two frames; but the later one is beyond its last frame and is never executed. So
  `NoAliasing` and its like are about frames served (`Served`).
* In `Depth_Key`, `^` binds tighter than `|`: the packed stencil operations are OR-ed with
  the mixed masks. With both masks at their default the low twelve bits of the mixture are
  0x9B8, which hides nine bits of comparison and operations; the 512 combinations of
  operations have 8 keys. The comment calls collisions "practically impossible". The
  game's own stencil passes, in `render_state_flush`, do not collide.
* `Apply_Color_Grade` leaves slot 0 of the context empty at the end of a frame. If stage 0
  was white then, `Bind_Neutral_Texture` takes it for bound (`D3D11Backend.cpp:1966`), and
  draws without a texture sample black until another texture is bound there;
  `D3D11Backend_W3D.cpp:815` says that a null bind samples white.
* The upload of an uncompressed texture that fails leaves the slot with the view that was
  in it, whose reference was released (`D3D11Backend_W3D.cpp:1174` does not look at the
  result), and the draw samples that; a compressed one becomes white.
* Wrappers of a command's second journey (a retry, or the packet router passing on both
  the wrappers and the command they make up) open a buffer that may never be complete. A
  later command with that ID, of another player or after the wrap, finds the chunks
  "already received" (`NetCommandWrapperList.cpp:94`) and is handed over mixed with them.
* `m_objectsToDestroy` is not saved, `OBJECT_STATUS_DESTROYED` is. An object destroyed
  after the clean-up of a frame (by the delayed damage of weapons, `TheWeaponStore->update`)
  is, in a game saved before the next clean-up, destroyed for ever and never deleted:
  `destroyObject` ignores it (`GameLogic.cpp:4089`).
* `UpdateModule.h:76` says that phases are called in order. A module with a phase after the
  first, of an object created after the objects' updates of a frame, is due in that frame,
  and comes before everybody in the next.
* `simulateReplaysInWorkerProcesses` does not look at the result of `startProcess`: a
  worker that could not be started is neither running nor done, and is waited for
  for ever (`ReplaySimulation.cpp:179`; `ReplaySimulation.h:27` promises exit code 1
  for errors). `ExitsIfStarted` excludes only that.
* `getMaxDisconnectFrame` counts the frame of the player being disconnected: if that
  one was ahead when it reported, the assertion at `DisconnectManager.cpp:315` fails at
  players who are all on the right frame.
* Acknowledgements sort by the ID of the command they acknowledge alone, and
  `addMessage` compares with one neighbour: after the acknowledgements of commands of
  two players with one ID, a copy of one of them is kept
  (`NetCommandList.cpp:165` says it is not). It does no harm, receiving one is idempotent.
  The list is checked, and proved, for commands with IDs.
* `dx8wrapper.h:957` says that raw blend writes must reach the backend. A raw
  write that repeats the wrapper's last one is swallowed although a shader has changed
  the blend state in between.

## 7. What is not modelled

* Of the disconnect protocol: a player voted out alive and crashes among four or more
  players, where the one that decides may crash after it has told only some of the
  others (hazards in `PROJECT.json`); the pings; `DESTROYPLAYER` is in `FrameTicker`. The
  packet router does not leave of its own will.
* Frame pacing (`timeForNewFrame`): it only delays, and `FrameTicker` may wait at will.
* Latency and frame rate averages: any clamped run ahead may result.
* Packet encoding, files, chat, statistics: no state that the properties speak of.
* `Transport` beyond refusing and losing packets.
* LAN lobby, NAT, GameSpy threads: protocols of their own, see the plan.
* Of the scheduler: resetting the game, which destroys all objects outside of a frame.
* Of texture slots: cube and volume textures, the copies made for shadows, the
  runtime's own clearing of slots whose view is bound as a target, and toggling the cache.
* Of wrapped commands: byte offsets and the progress shown for files.
* The game simulation beyond its scheduler, its GUI, audio, assets, tools and base libraries: deterministic
  code without the hazards treated here, or far outside a model checker's reach.
* The backend's recovery from a removed device: there is none, the process ends. Its
  `Release_Device_Objects` keeps `m_last*State`, but the backend object is deleted
  right after it.

## 8. Plan

In this order, the most important behaviour first. 1 to 10 exist:

1. `FrameTicker`, then its proofs.
2. `Lockstep`, and `FrameSync` refining it, then its proofs.
3. `NetCommandList`, then its proofs.
4. `Connection`, then its proofs.
5. `ReplaySimulation`, then its proofs.
6. `RenderStateFlush` with `D3D11States` and proofs.
7. `DisconnectSync`, with the pending commands; then its proofs.
8. `TextureSlots`: the backend's texture cache, stage slots and render targets with
   their references, and addresses used again after eviction; then its proofs.
9. `NetCommandWrapperList`, then its proofs.
10. `SleepySchedule`, and `SleepyUpdates` refining it, then the proofs.
11. `DisconnectSync` with a player that is slow, not dead, and the abstract promise
    that those left are on one list of members; four players with symmetry of those
    that do not route.
12. `RawRenderStates`: the raw states remembered by `DX8Wrapper` against the backend's
    vector, which shaders and mirrors write directly.
13. Candidates: the GameSpy request and response queues, NAT rounds, LAN game slots,
    the texture loader's thread, the CRC queue of the replay check.

No module of the components uses `RECURSIVE`.

## 9. Running it

    tlc -workers 2 -config FrameTicker.cfg MCFrameTicker.tla
    tlapm FrameTickerProofs.tla

The module of each run is in `PROJECT.json`. Most runs end within seconds, the largest
(`frame_sync_pair`, `texture_slots`, `connection`, `disconnect_sync`, `sleepy_updates`) in
one to three minutes. `FrameSyncProofs` and `SleepyUpdatesProofs` take the longest to prove, some minutes,
`D3D11BackendProofs` and `DisconnectSyncProofs` one or two.
The modules use the community modules `SequencesExt`, `FiniteSetsExt` and `Bitwise`.
