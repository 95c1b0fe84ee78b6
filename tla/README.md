# Verification of the water-dispenser panel

TLA+ modules, TLC runs and TLAPS proofs for the control panel program in `src/`: a cdroid
application with a home page, a page of water modes, pages to edit and add a mode, and a
serial (or, in development builds, TCP) link to the control board of the appliance. Paths
below are relative to `src/src/` unless they start with `src/`.

Every definition that models code has its lines in `PROJECT.json` (`map`); every property is
stated in words in front of its definition. A definition called "a slip" in its comment is a
plausible mistake in the definition after it; it is not used by the model, only by the mutants
in `PROJECT.json`, each of which makes one property fail.

## 1. The system

One thread, the main thread, runs cdroid's looper: it polls descriptors (`addFd`), delivers
messages and delayed runnables, and polls the event handlers (`checkEvents`, `handleEvents`).
Everything below runs on it but the workers of `ThreadPool`. So the interleavings that matter
are those of *callbacks*: taps, ticks, received bytes, delayed messages, each run to its end.

| Component | State | Operations | Talks to |
|---|---|---|---|
| Link, sending (`protocol/conn_mgr.cc`, `uart_client.cc`, `packet_buffer.cc`) | `mSndData`, `mSetData`, `mLastSendTime`s, `mSendQueue`, the buffer pool | setters, `handleEvents`, `send2MCU`, `send`, `onTick`, `obtain`, `recycle` | pages call the setters; writes to the line |
| Link, receiving (`uart_client.cc`, `cmd_handler.cc`, `conn_mgr.cc`) | `mLastRecv`, `mLastDealDataTime`, `mRecvTimeout`, warning times and counts, product-test callback | `onUartData`, `onCommand`, `onTick`, `onCommDeal`, `setProductTest` | fed by the parser; resets the sender's `mLastSendTime` |
| Serial port and frame parser (`uart/uart.cc`, `uart_client.cc`, `protocol/mcu_ui.h`) | the port's settings and pending bytes, `mCurrRecv` (32 bytes, 128 for Tuya) | `init`, `UART0_Set`, `UART0_Recv`, `add`, `complete`, `check` | reads of any length |
| Socket client (`net/client.cc`, `socket_client.cc`, `uart_client.cc`) | `mStatus`, `mFd`, `mSockId`, three ages on the uptime clock and one on the wall clock | `onTick`, `connectServer`, `onCheckConnecting`, `handleEvent`, `onStatusChange`, `sendHeart` | the looper, the server, the sender (`isConn`) |
| Water-mode store (`data/conf_mgr.cc`, `json_func.cc`) | `modeDataList`, `waterModeData.json` | `init`, `updateModeDataByPos`, `deleteModeData`, `movedMode`, `saveLocalJson` | called by the pages |
| Pages and window manager (`windows/`) | page shown, `page_recycle_list`, delayed message, timers, each page's copies | `Show_Page`, `handleMessage`, the buttons, the pop-up | the store, the looper |
| Custom views (`viewlibs/arc_seekbar.cc`, `time_textview.cc`) | value, limits, range and last touch of the slider; a clock's `mIsStart` and ticker | setters, `onTouchEvent`, `onDraw`; `start`, `stop`, `onMeasure` | the finger; the pages that show a clock |
| Thread pool (`common/comm_class.cc`) | waiting and finished lists, workers' status and task | `add`, `del`, `handleEvents`, `onThread` | the tasks' `onTask` (worker) and `onMain` (main thread) |

Not modelled, and why: drawing (`paint.cc`, `zzCommon.cc`, `waveAnim`, what `onDraw` paints), the
static view pager adapters, cdroid itself, the layouts and images; the string and time helpers,
most of them unused (`comm_func.cc`, `crc.cc`); and what is compiled but has no caller: the socket
server and the classes that write Tuya frames. `PROJECT.json` lists each with its status.

What is hard to test here, and where (`hazards` in `PROJECT.json` has every one at its line):
setters racing the periodic resend and the 100 ms spacing; frames dropped as duplicates, lost or
kept over a reconnection; a receive timeout racing the answer; a parser out of step with the
frames; a crash or a loss of power at any step of a save that removes the old file first; pages
that act on copies and positions taken earlier; a delayed message that closes pages while they
are reused; tasks handed to workers by two unlocked stores; sockets that are refused, slow,
half open, or timed on a clock that is set; a port that receives while it is being set up; a slider
whose two ends are next to each other.

## 2. Modules

| Module | Models | Composes |
|---|---|---|
| SendQueue | settings, setters, send queue, buffer pool, `handleEvents`/`onTick` | |
| LinkFreshness | SendQueue seen from the board (history: what the board holds, quiet time, owed beep), lossy wire | extends SendQueue |
| RecvDispatch | repetition filter, dispatch, receive timeout, warnings, product test | |
| RecvWatch | RecvDispatch seen from the wire (history: silence, latest good frame, what CConnMgr was told) | extends RecvDispatch |
| FrameParser | opening the port; `add`, `complete`, `check` of both frame types under `onUartData`; a lossy and noisy line | |
| ArcSeekBar | the slider: limits, range, check listener, taps, drags, the slider as last drawn | |
| SocketLink | the socket client, the far end, the wall clock | |
| ModeList | *abstract*: the row of modes as the user sees it | |
| ModeData | the list of modes and what the operations make of it, shared by the next and by PageFlow | |
| ModeStore | the list, the edit page's copy, every step of a save, crash, loss of power | extends ModeData; implements ModeList |
| ModeRestart | ModeStore across restarts (history: the lists that may come back) | extends ModeStore |
| PageFlow | pages, window manager, timers, clocks, copies, pop-up | extends ModeData; implements ModeList |
| TaskContract | *abstract*: what a task is promised | |
| ThreadPool | the pool, its main thread and its workers, store by store | implements TaskContract |
| `*_proofs` | theorems about SendQueue and LinkFreshness, FrameParser and RecvWatch (Receiving_proofs), SocketLink, ArcSeekBar, ModeData, ModeStore and ModeRestart, PageFlow, ThreadPool | extend the modules they are about; ModeStore_proofs and PageFlow_proofs extend ModeData_proofs |
| `MC*` | instances for TLC | |

**How state corresponds to code.** A time stamp of the code appears as its age, capped where the
code tells no larger ages apart; so time needs no unbounded clock. SendQueue and SocketLink count in
ticks of `TICK_TIME` (50 ms): `SEND_PACKET_TIME_SPACE` is 2 of them. The other periods (1 s, 3 s, 5 s,
30 s) are scaled down in the instances, in their order; the theorems hold for any values with the
stated order. `MaxLag` lets a busy main loop come late.

*SendQueue.* `snd` is `mSndData`, one action per setter (values are cut to bytes as the assignments
cut them); `HandleEvents(lag)` is one whole `CConnMgr::handleEvents`: `onTick`'s transmission first,
then `send2MCU` when a setter was called or a second has passed, with `obtain`, `send` and its
refusals, and the clearing of the beep bit and of `mSetData` whatever became of the frame. Buffers
have identities. `ConnTcp` selects the build: on the serial line `isConn` may be false and frames
are written all the same. The `TUYA_OS` parts are not compiled and left out.

*RecvDispatch.* A frame is what the code tells frames apart by: whether bytes 6 to 9 are zero
(`compare` counts only such frames as equal), the warning bits, and the rest as a model value.
`Receive` is one frame through `onUartData`; `OnTick` is `CHandlerManager::onTick`; `Pass` is time.

*FrameParser.* `port` follows `UartClient::init` step by step (Open, Flush, Configure, Drain, and
Listen for the first read that is not refused by `mLastRecvTime`); bytes may arrive at any time and
are `garbled` when the port was set to something that alters them. What the last user left the port
set to is any of `LeftBehind`, a set of termios settings. `SetUp` is `UART0_Set` on them: it sets the speed,
the frame format and the flow control, clears two local and five input flags (`Cleared`) and keeps every other one
that tcgetattr returned; those of them by which a tty alters its input are `LeftAlone`. Bytes are
numbers below `Modulus`. A control board frame is as long as its second head byte and the buffer is
two frames, as 0x10 and 32 are; a Tuya frame announces its length in bytes 5 and 6. `Fill` is one
turn of the loop in `add`: it copies what fits, searches the head over old and new bytes, and moves the
buffer down; `Parse` is one turn of the loop in `onUartData`, which empties the buffer after each
complete frame. `Add` and `OnUartData` are the state after as many turns as there are bytes: every
turn uses up at least one, and a loop that is over stays as it is.

*ArcSeekBar.* A bar begins with any value of `Starts` (30, or the layout's attribute), within its limits or not, and
`SetMin` and `SetMax` set limits in any order, as the code checks neither. A touch is an angle on a grid and whether it is on the arc; `Relative`, `ValueAt` and
`SliderAngle` divide as the code's ints do, so positions and values do not match exactly. `Press`, `Move` and
`Lift` are the three cases of `onTouchEvent`; the slider can only be grabbed where `Draw` left it.
`mAngleAdd` is set and used within one event and is no state.

*SocketLink.* `OnTick(lag, frame)` is one whole `UartClient::onTick`: `SocketClient::onTick` in one of
its branches, then the heart-beat, then a queued frame or none. `Poll` is a pass of the looper over
its descriptors; a tick comes only after one. `recv` returning 0 leaves `errno` as it was, so whether
`handleEvent` notices the end of the connection is a free choice. `initData` leaves two time stamps
uninitialised: their first ages are free. `SetClock` is `timeSet` (or another program) at any moment.

*ModeStore.* A mode is `dataPos`, whether it is a default one, and a setting (all the rest).
`saveLocalJson` is one action per system call: remove, create (or fail), write a part, write all (or
fail), `sync`. `file` is what a crash of the process leaves, `onDisk` every content a loss of power may
leave. `Load` sorts by `dataPos` with nothing promised about equal ones.

*PageFlow.* `Boot` comes up with the default modes or with a list of `Saved`, the lists the file may hold; that
they are numbered from 1, which the proofs assume, is what ModeStore shows of its file (Numbered). `ShowPage(p)` is the whole of `Show_Page`: hide and recycle the page shown, reuse or
construct the next, its `Start_Page_action` (which timers start and which copies are taken), the
removed and re-posted delayed message; `CloseRecycled` is that message. Each button is an action.
`Start` and `Stop` are the TimeTextView's, called when pages are constructed, shown again and
removed; `MeasureClock` is its `onMeasure`, which posts a start, and `StartClock` that start, which
nothing takes back: only that it is due before the delayed message (10 ms and 200 ms) is assumed.

*ThreadPool.* Each store to a worker's `status` and `tdata`, each section under the mutex and each
call of `onTask` and `onMain` is a step. A task freed and then read by `del()` may read anything
or take the process down (`DelCrashes`).

## 3. Runs

| Run | Instance | What it shows |
|---|---|---|
| link | socket build, frames lost, link up and down; queue of 3, `Resend` 3 ticks, lag up to 2, wrapping temperatures and yields | BufferOwnership, NoDuplicateWaiting; StaleBounded: a connected board has the current settings after StaleBound = QueueCap(SendSpace+MaxLag-1)+Resend ticks without a setter or a loss; BeepNotLost; Converges: a board that stays connected ends with the current settings |
| recv | two frame bodies, all flags, DealSpace 3, RecvTimeout 7, lag 2 | TimeoutMeansSilence, SilenceIsDetected, HandlerIsCurrent |
| recv_alarm | the same | *violated*: NoAlarmWhileReceiving (finding 1) |
| frame_parser | control board frames of 4 bytes in a buffer of 8, Tuya frames of 7 and 8 in a buffer of 8, bodies that look like heads, one noise byte, reads of 1 to 8 bytes; 448 settings the port may be left with: none of the flags left alone, each of them, and `IUCLC` with `IEXTEN`, with and without the seven cleared, and two values of each other setting | ReadAsSent, NeverWedged, Resynchronises, NothingInvented |
| seek_bar | bar of 150 to 390 degrees as in the code, touches every 15 degrees but at the top of the bar, limits 0 or 8 and 6 or 16 (8 and 6 are in the wrong order), begun at 30, plain and reversed; a range that is in force between some limits only and an empty one, with and without refused values | StaysWithin, NoJump, Follows, OnlyAllowed |
| socket_link | TimeOut 5, HeartTime 2, CONN_SPACE and CONN_TIMEOUT 3, lag up to 2, clock set once, by up to 2 back | SocketOwnership, DeadPeerNoticed, DropsOnlyTheDead, Reconnects |
| socket_attempt | the same | *violated*: AttemptGetsItsTime (finding 2) |
| mode_store | one default mode, up to 3 modes, two contents waiting for the disk | Numbered, NeverStale, KeepsRow (implements ModeList), RestartKeepsModes |
| default_modes | two default modes | *violated*: DefaultsKept (finding 3) |
| pages | two settings, two default modes, up to 3 modes; switched on with the default modes or any saved list of up to 2 | OneOfEach, HiddenAreStopped, TapsHitTheirMode, KeepsRow (implements ModeList) |
| page_clock | the same | *violated*: ClockRuns (finding 4) |
| thread_pool | 2 workers, 3 tasks, batch of 2 | OnePlace, LiveWhenUsed, KeepsContract (implements TaskContract), AllServed |

Each module's type invariant (TypeOK, FrameParser's ParserTypeOK) is checked by one of its passing runs. All of them check deadlock but
thread_pool, which ends when all tasks are done and the program has none to add.

**Why the bounds are enough.** The queue of three frames holds an older equal frame in front of a
different one, which is what makes `send()` drop the newest; the pool is then used in any order. Two
frame bodies tell "the same" from "another"; more add nothing to a filter that remembers one. Frames
of four bytes in a buffer of eight have every split of a frame, a head across two reads, a false head,
a full buffer and two frames in one; a Tuya length that does not fit is one lost byte away. On a bar
of 8 values an eighth is one, on one of 16 it is two, and steps of 15 degrees are less than that; at the top of the
bar, more than 65 degrees from either end, nothing is decided that is not decided beside it. Moving the limits takes the range
in and out of force and puts them in the wrong order and right again. Whether a port receives as sent depends on each
of its settings alone, but for `IUCLC` with `IEXTEN`, so not every combination of flags is needed; OnlyReadAsSent is proved for all of them.
The properties of the slider were also checked on bars of 9,
11, 13, 14, 23 and 30 values. Three modes have a first, a middle and a last; two contents waiting for the disk let a
second save begin before the first is safe. Two workers and three tasks with a batch of two leave a
finished task for the next call and a waiting task without a worker. One descriptor more than the
client uses shows a leak. The bounds that appear in guards are constants named for it: QueueCap,
MaxModes, MaxPending, MaxTasks, MaxSets, MaxBack, WireCap, DirtyCap, EarlyCap.

The link is checked in the build that talks to a socket: frames are lost there as on the serial line, and the
link also goes up and down; setters are called without bound.

## 4. Fairness

- *Converges*: weak fairness of the tick (the looper polls its handlers for ever) and strong
  fairness of Delivery: a frame transmitted again and again is at last not lost.
- *AllServed*: weak fairness of `handleEvents` and of each worker's own steps (threads are scheduled),
  strong fairness of Push (the mutex is free again and again, and `pthread_mutex_lock` returns) and
  of OnTaskDone (a task that is called again and again is done at last: the contract of `onTask`).
- *Reconnects*: weak fairness of the tick, of the looper's pass and, for a server that has the
  connection request, of its acceptance. The property itself assumes a server that is prompt from
  some time on: connect() does not fail and the server accepts before the next tick. Sockets left
  half open, attempts already refused and a clock set back before then are what it recovers from.

## 5. Proofs

TLAPS proves, for every value of the constants that satisfies their assumptions:

| Module | Theorems | Assumptions |
|---|---|---|
| SendQueue_proofs | TypeCorrect, BuffersOwned, DuplicatesNeverWait; of LinkFreshness: BeepsNotLost, BoardSoonCurrent | LinkConstants: periods positive, settings contain what the code starts with |
| Receiving_proofs | of FrameParser: ParserTyped, OnlyReadAsSent, ParserNeverWedged, and of its steps ParserInventsNothing, ParserResynchronises | ParserConstants: a port left with any set of settings; heads whose first two bytes differ, control board frames longer than their head and check code in a buffer of two, Tuya frames that fit their buffer |
| | of RecvWatch: RecvTyped, NoFalseAlarm, SilenceDetected, HandlerKeepsUp | RecvConstants: RecvTimeout >= DealSpace (3 s and 1 s) |
| SocketLink_proofs | LinkTyped, SocketsOwned, DeathNoticed, OnlyTheDeadDropped | SocketConstants: HeartTime + MaxLag <= TimeOut (5 s, 30 s) |
| ArcSeekBar_proofs | TypeCorrect, KeptWithin, ChangesAllowed, NeverRound, SliderFollows | ArcConstants: limits, values set and values to begin with are any integers; a bar that begins left of six o'clock and ends past three; a slow finger's step is at most a fifteenth of the bar, and less than the gap between its ends |
| ModeData_proofs | lemmas on what adding, editing, deleting and moving do to the list and to the row the user sees | ModeConstants: at least one default mode |
| ModeStore_proofs | StoreTyped, AlwaysNumbered, FileNeverStale, StoreKeepsRow (refinement); of ModeRestart: RestartsKeepModes | ModeConstants, StoreConstants: room for the default modes |
| PageFlow_proofs | PagesTyped, PagesConstructedOnce, HiddenPagesStop, TapsHitWhatIsSeen, PagesKeepRow (refinement) | ModeConstants; SavedNumbered: lists in the file are numbered from 1 |
| ThreadPool_proofs | PoolTyped, TasksInOnePlace, TasksLiveWhenUsed, PoolKeepsContract (refinement) | PoolConstants: at least one worker, a batch of at least one |

QueueCap and MaxModes bound the state only where a guard of the model names them; the theorems hold for every
value they may have. Lists and queues are of any length the guards allow.

Each theorem rests on an inductive invariant, proved with a step per action.

- *SendQueue*: TypeOK, BufferOwnership and NoDuplicateWaiting together are inductive: ownership needs the
  queue to be typed, and the argument follows a buffer through obtain, queue, wire and pool. Sequences
  are handled by lemmas on Append, Head and Tail.
- *LinkFreshness, the beep*: BeepInv adds that a beep is owed on a live link only. `send()` drops a frame only
  where an equal one waits, and equal frames have equal beep bits.
- *LinkFreshness, staleness*: StaleInv gives every waiting frame that differs from the current settings a deadline by its
  place in the queue, SendSpace+MaxLag-1 ticks for each one in front of it, and says that it is among the first
  QueueCap-1. When the last of them has left, the current settings wait behind it, or are queued by the
  periodic resend, or the board has them. SpaceAge and PeriodSpent are what has passed of the wait at hand.
- *FrameParser, the loops*: `add` and `onUartData` run until their input is used up. LoopExists and LoopStays do once,
  from the least number in a set, what an induction over the turns would: a loop has a state after every
  turn, and what a turn keeps true is true after all of them. FillKeeps and ParseKeeps are the loop
  invariants: once a head is found the buffer begins with it, until then it is too short to be searched or a
  frame; what is in it is the tail of what was taken; each good frame lies within the bytes read.
- *FrameParser, the steps*: ParserIInv says that the buffer between reads is sound: less than the frame it
  announces, with a head once it is long enough. That is what makes "never wedged" inductive: a control
  board buffer that is less than a frame has room for another. Of the port it says that
  once it is set up it receives what the board sends, unless it was left with flags that alter its input and that
  `UART0_Set` keeps, and that bytes are garbled only under such flags; SetUpLine shows the first for whatever
  settings `UART0_Set` begins with. ReadAlone, ReadTwo and ReadAfterLoss follow one read turn by turn: a good frame behind a sound
  remainder completes a buffer, whether or not its check code is right, so the buffer ends empty.
- *RecvWatch*: "no false alarm" is not inductive. AlarmInv relates the age of the last dispatch to the
  true silence: a repetition can be suppressed only for DealSpace, so recvAge exceeds silence by less
  than that. NewsInv does the same for the last frame CConnMgr saw and the one remembered.
- *SocketLink*: "only the dead are dropped" needs both halves of `isTimeout`. BeatInv: sndAge never exceeds
  HeartTime nor the age of the last heart-beat, so the sending half cannot fire. AgeInv, FreshInv and
  LapseInv: bytes that wait unread are no older than one tick, so rcvAge is below the true silence
  after each pass of the looper; NetInv says what the network can have done in each status.
- *ModeStore*: SaveInv says which contents the disk may hold at each step of saveLocalJson; Numbered must
  hold in every one of them. The refinement maps the list without its numbers to ModeList's row; each
  operation is one abstract step, every step of a save, crash and restart a stutter or a switch.
- *ModeRestart*: ExpectedInv says that every content the disk may come up with is a list the user saw since the
  last save that is safe, and that the list in memory is one as well.
- *PageFlow*: TapsHitTheirMode needs the list to be numbered from 1, and every way of leaving a page to
  refresh or drop its copies. HiddenAreStopped needs OneOfEach (a page is taken out of the recycled
  ones once, so it is not both shown and recycled) and ClockInv: a clock runs, or is due to start, only on
  the page shown or on one that the delayed message will still remove. OffInv says what holds before the first page.
- *ThreadPool*: WorkerInv and MainInv tie what a worker or the main thread may do next to the status, the
  task and the mutex it left behind; SomewhereInv and NowhereElseInv are OnePlace without counting; ProgressInv says that a
  task's `onTask` is over when it is handed back. The contract follows: `onMain` only runs on such a task.
- *ArcSeekBar*: the value under a finger may lie outside the limits (off the bar, or on a reversed bar that does
  not begin at 0) and is only known to be an integer, and so is the slider's own value before something sets it;
  SetToBounds shows that what setProgress changes it brings within limits that are in their order. For KeptWithin, ProgressSet
  leaves three cases: setProgress, and each limit moving past the value. For the drag, BarInOrder gives the limits their order (a bar of eight
  values or more) and the value its place between them (under the finger, or at an end).
  NeverRound and SliderFollows are steps of a typed state. Steps(w, x) is the quotient the code computes; StepsRound,
  StepsGrow and StepsEnds bound it by cancelling the length of the bar from inequalities between products, so
  a slow step moves the value by no more than a fifteenth of the bar, rounded up, which the code's
  eighths, rounded down, always allow. FingerTurns says which slow steps cross the gap and when calcTouchState is right.

What the proofs found about the properties themselves: StaleBound was too long by more than two frames' time.
A finger that moves more than a fifteenth of the bar at once can go round a bar of 15 values (value 1 is in the
lowest eighth, but the guard's eighth is rounded down), and on some reversed bars with a negative lower limit one
of any speed can (values are left beyond the upper end). TLC shows both on instances outside them; ArcConstants
and NoJump name them.

Every safety invariant and action property of the passing runs, and the refinements of ModeList (twice) and TaskContract, are stated
by a theorem. Only model-checked: Converges, AllServed, Reconnects (liveness is out of the prover's reach).
What the recursive functions compute (`Sum`, say) is not proved either, which would be an induction over data; the
theorems need only that they exist and what their turns keep.

## 6. Findings

1. *recv_alarm*: `RECV_TIMEOUT_TIME` is documented as a warning that received data timed out, but during
   the product test frames arrive and are dispatched to its callback, and the timeout is raised after
   3 s all the same (`protocol/uart_client.cc:151`, `cmd_handler.cc:20`).
2. *socket_attempt*: `CONN_TIMEOUT` is 5 s and `onCheckConnecting` is asked again at every tick, but an
   attempt that is merely not finished when `select` has waited 10 ms is closed like a refused
   one (`net/socket_client.cc:131`): a handshake slower than one tick never succeeds.
3. *default_modes*: `windows/ModeData.h:12` says that default modes cannot be deleted; the edit page's
   delete button does not ask `canDelete` (`windows/page_water_mode_modify.cc:134`).
4. *page_clock*: `windows/pagebase.h:38` asks each page that overrides `Start_Page_action` to bind the
   clock's timer again; two pages do not, and their clock stands still from the second time on
   (`windows/page_water_mode_modify.cc:92`, `page_steam_barbecue.cc:145`).

## 7. Limits of the model

- Two control board frames in one read cost the second (`len = 0` in `onUartData`); Resynchronises states that
  the first is heard and nothing else is lost.
- The edit page's `std::stoi` of a temperature that is not a number is not modelled: a mode's text is
  part of its setting.
- Whether a tap can arrive between `notifyDataSetChanged` and the next layout is cdroid's affair;
  PageFlow binds the list's buttons to the list as shown.
- ThreadPool takes the two unlocked stores of a hand-over in program order; a machine that reorders
  them is not modelled. The number pickers of the steam page are not in PageFlow.
- Where the code is wrong and no document says otherwise, the property names the exception, and fails without it:
  `NeverWedged` (a Tuya frame announced longer than the buffer makes the receiver deaf for good),
  `ReadAsSent` (`UART0_Set` does not make the port raw: one left with `IGNCR`, `INLCR` or `PARMRK` goes on dropping, replacing or
  doubling bytes, and one left with both `IUCLC` and `IEXTEN` folds letters, `uart/uart.cc:81`), `StaysWithin` (a bar may begin outside its limits and
  stays there until something sets it, `viewlibs/arc_seekbar.cc:28-30`; between limits in the wrong order there is nothing), `NoJump` (bars of fewer than eight values are
  unguarded and stuck at their lower end, reversed bars with a negative lower limit have values left beyond their upper end), `Follows` (a counter-clockwise drag over three o'clock
  from the last eighth jumps to the end, `viewlibs/arc_seekbar.cc:475`), `OnlyAllowed` (a refused value is
  set when one beyond it is cut, and setMin and setMax ignore the range).
- FrameParser knows the flags by which Linux's line discipline alters received bytes. Line breaks and bytes received with a
  wrong parity are not modelled; nor is the growth of `mSendQueue` under a burst of setters, which SendQueue's guard cuts at QueueCap.
- If opening or setting up the port fails, `init` returns and nobody calls it again: FrameParser's "failed".
  Software flow control (`uart.cc:115`, input flags put into `c_cflag`) is never asked for and left out.
- ArcSeekBar's listeners are not modelled: what they call from inside `onChangeProgress`, and that a
  `setProgress` of theirs is reported as the user's. The widget is in no layout yet.
- A failing system call while connecting counts as a refusal in SocketLink. SocketLink's times assume
  a main loop that is never away for as long as `TIME_OUT` less `HEART_TIME`.
- SendQueue abstracts the connection to up and down; SocketLink shows when it is which.

## 8. Plan

Done, in this order: the link's sender and receiver, the parser, the store, the pages, the pool,
the socket client; the serial port and the Tuya frames in the parser, the clocks in the pages, the slider;
proofs about all of them.

Next, modelling, where it is worth it:

1. SocketLink under SendQueue, in place of its LinkUp and LinkDown.
2. The socket server and its clients (`net/socket_server.cc`), once the application starts one: authentication,
   broadcast, and the deletion of a client from inside its own `onStatusChange`.

Next, proving, where it is worth it: the refinement of SendQueue's link by SocketLink, once they are composed.
