# A verification of Cap-CC1101-SubG-Chat

TLA+ models of the chat application for the M5Stack CardputerZero and its CC1101 radio, the TLC
configurations that check them on small instances, and theorems checked by TLAPS. Paths are those
of the repository, with its root at `src/`; the sources named without it are under `src/src/`.

## The system

Two threads matter. The **UI thread** runs `main()`: it polls keys, lets LVGL draw, and ticks the
application every 10 ms. The **worker thread** runs `RadioWorker::run()`: it owns the radio, takes
commands and pushes events. Nothing else is shared.

```
keys -> Keypad -> CC1101ChatApp -> ChatViewModel -> ChatModel --post()--> RadioWorker -> RadioBackend -> CC1101
                      |                 |               ^                     |            (Linux, mock)
                  HelpView          ChatView            +---- tryPopEvent() --+                |
                                                                                        power, pins, SPI
```

| Component | State | Operations | What is hard | What makes it correct |
|---|---|---|---|---|
| Radio worker `radio/radio_worker.cpp` | command queue (16), event queue (64, evicting), `_running`, `_stop_requested`, the thread's `initialized` and `receive_requested`, tokens | `start`, `stop`, `post`, `tryPopEvent`; `run` and its handlers | two threads, a condition variable, atomic flags, every backend call may throw or be cancelled, full queues | a closed backend is never used; the radio is not deaf; every accepted send has one outcome; losses are reported; `stop()` returns and leaves the radio closed |
| Link protocol `radio/radio_worker.cpp` | tokens, attempts, window of 64 remembered tokens, the chip's FIFO | send with at most 5 attempts, acknowledge, suppress duplicates | loss, late and duplicate frames, token wrap, restarts | shown at most once; delivered only if shown; sends end |
| Frame codec `radio/chat_protocol.cpp` | none | encode, decode | lengths, magic, the optional sender | decoding gives back what was encoded |
| Linux backend `radio/linux_cc1101_backend.cpp` | `_open`, `_receiving` | open, close, receive, transmit | failures and cancellations half way | a failed open leaves nothing behind; no wait without a bound |
| Driver `radio/driver/cc1101.cpp` | the chip's state, its two FIFOs, the antenna switch, `relaxed_status_` | begin, startReceive, receive, transmit, idle | the chip goes on by itself between two accesses; any access may throw; FIFO overflow; timeouts | what is returned is one packet, what is sent is one frame, the chip does what was asked last |
| Power and pins `hal/` | what enabling changed | enable, disable | each step may fail, each is to be undone | what was changed is restored |
| Chat model `models/chat_model.cpp` | history (64), pending sends, radio snapshot, draft, nickname | start, stop, tick, sendDraft, retryRadio, edits, save | stale events after a retry, lost events, refused posts | the screen tells the truth; no message is left at "sending" |
| View model and app `view_models/`, `core/` | section, editor, dialog, drafts, focus, held Esc | keys, tick | one key has many meanings; the dialog opens on an edge | a dialog is shown for a failure that persists; what is sent is what is shown; Esc takes one layer away |
| Message list `views/chat_view.cpp` | rows, place, scroll animation, whether it follows the end | `setMessages`, `scrollBy`, `scrollToBottom`, tick | the update is incremental, the history forgets | the rows are the history; a reader keeps the place |
| Nickname file `models/chat_model.cpp` | the file and its temporary | load, save | a crash between any two steps | the old name or the new one |
| Process `main.cpp` | the exit flag of the signals, the alarm | the loop, signals, shutdown | a call that hangs, a signal at any step | a process that is asked to end does end |
| Keypad, other views, LVGL HAL, SPI, GPIO, build | | | mostly I/O and layout | |

## Modules

| Module | Models | Uses |
|---|---|---|
| `RadioWorker` | the worker: both threads, queues, flags, the backend's two flags | |
| `RadioWorkerProofs` | theorems about it | `RadioWorker`, TLAPS |
| `ChatLink` | several radios over a lossy broadcast medium | implements `ChatDelivery` |
| `ChatLinkProofs` | theorems about it | `ChatLink`, TLAPS |
| `ChatDelivery` | what the link promises, and nothing of how | |
| `ChatModel` | the chat model's own state and what each call and event does to it | |
| `ChatSession` | one run of the application: the model on top of the worker | EXTENDS `RadioWorker`, INSTANCE `ChatModel` |
| `ChatSessionProofs` | theorems about it | `ChatSession`, `RadioWorkerProofs` |
| `CapPower` | the cap's power object: pins, GPIO lines, EXT5V, and what it remembers of them | |
| `RadioBackend` | what a backend promises of its two flags, and nothing of how | |
| `LinuxBackend` | open and close of the Linux backend, step by step | EXTENDS `CapPower`; implements `RadioBackend` |
| `PinctrlChild` | the commands as child processes, under the backend | EXTENDS `LinuxBackend`; implements it |
| `LinuxBackendProofs` | theorems about the power object, the backend and the commands | `PinctrlChild`, TLAPS |
| `Cc1101Driver` | the driver's calls, one SPI access or wait at a time, over the chip | |
| `Cc1101DriverProofs` | theorems about it | `Cc1101Driver`, TLAPS |
| `ChatScreen` | view model, application, drafts and dialogs: keys and ticks | INSTANCE `ChatModel` |
| `ChatScreenProofs` | theorems about it | `ChatScreen`, TLAPS |
| `MessageList` | the list of messages over the history | |
| `MessageListProofs` | theorems about it | `MessageList`, TLAPS |
| `ChatProtocol` | the frame codec, as operators | |
| `Nickname` | the nickname's file and the save of it, over a file system | EXTENDS `ChatProtocol` |
| `ChatProcess` | `main()`, signals and the alarm, around the nickname | EXTENDS `Nickname` |
| `ChatProcessProofs` | theorems about it and about the codec | `ChatProcess`, TLAPS |
| `MC*` | constants of the instances that need more than numbers; `Cc1101Driver` and `ChatScreen` are checked as they are | |

`PROJECT.json` maps every definition to the lines it stands for.

### RadioWorker

One step is one critical section of either thread, one access to an atomic flag that decides
something, or one backend call. `pc` says where the worker thread is, `ui` which call of the UI
thread is not over yet. Events that a step is about to push wait in `out` and are pushed one at a
time, so that the UI runs between any two. `pushEvent()` is `Pushed`/`Victim`/`DroppedBy`: a full
queue gives up its oldest received packet, or else its oldest event, and counts it.

A backend call returns, throws, or, once a stop is requested, throws `RadioCancelled`. What each
leaves of `_open` and `_receiving` is taken from the Linux backend (`Closes`, `StartsReceive`,
`StartThrows`, `StopsReceive`). Waiting for a command takes two steps while the command mutex is
held, `WaitCheck` and `Park`: the predicate is evaluated, then the thread sleeps. A `Notify` between
the two is lost. `post()` of a send or retry cannot fall between them, because it takes the mutex;
`stop()` can, because it does not.

Abstracted: payloads and their limits, RSSI and diagnostics, logging, the values of deadlines and
backoffs (time may pass whenever the code waits), and the sender's tokens (they belong to
`ChatLink`). A failing `start()` of the thread is an outcome of `Start`. An exception of
`nextProtocolToken`/`encodeData` (a sender name that is not printable) is an abort of the first
`TxStop`.

### ChatLink

Each node is a worker in receive mode, at the grain of frames: a transmission and the receive
restart after it are one step, and what others transmit meanwhile is not heard. `Broadcast` lets
any subset of the listening radios hear a frame. A radio keeps what it hears in the chip's FIFO
until `receive()` drains it; every `startReceive()` and `stopReceive()` flushes the FIFO. So a
frame can be lost in the air, lost in a flush, answered late, or repeated. `RadioFails`, `Retry`
and `Restart` are a throwing backend call, the user's retry, and a stop followed by a start, which
forgets the remembered tokens and draws a new first token.

`Implements` instantiates `ChatDelivery` with the history of what users have seen: a node shows a
message at most once in a session, a message is completed only after somebody was shown it, a send
has one outcome.

### ChatModel and ChatSession

`ChatModel` has the state of the chat model that concerns the radio: the history, the pending
sends, the snapshot `info` (state, ready, initialization failed). A message of ours is named by its
transaction id, so the map from transactions to messages becomes the set `pending`. `HandleEvent`
is the visitor of `tick()`, with one clause per event type.

`ChatSession` joins it with the worker. `SendDraft` is `sendDraft()` with its post, accepted or
refused; `RetryRadio` is `retryRadio()` with its three branches; a tick is `TickBegin`, up to
`EventsPerTick` steps of `TickEvent` between which the worker runs on, and `TickEnd`. `main()`
starts the model once, in receive mode, and stops it once; it never posts a mode change or a
shutdown. `start()` of a worker that runs already, and a post by a model that is not started,
cannot occur in a session and are left out. A retry is allowed at any time, which is more than the
view model allows. The drafts are in `ChatScreen`, the nickname in `Nickname`.

### CapPower, LinuxBackend and PinctrlChild

`CapPower` is `enable()` and `disable()` of the power object. A step is one external command (a
`pinctrl` child, a GPIO request, a write of the LED class attribute) and what the code does up to the
next. Every command may fail, and one that failed, timed out or was killed may have had its effect
(`PinctrlFails`, `SwitchOn`). `pin`, `lines` and `rail` are the hardware and the kernel; the rest are
the members of `Impl`. `originalPin` and `originalRail` record what the program found, for the
properties; a disable that preserves EXT5V makes the present supply the one to be left. What a pin is
after the kernel has released its line is not known: as it was, as it was driven, or an input. Reading
the pins and parsing the answer is one outcome of `Snapshot`, because nothing else changes the pins
meanwhile. Pulls are part of a pin's function.

The caller in `CapPower` is any user that takes lines of the radio pins while the cap is enabled and
gives them up before it disables it (`UseLine`, `ReleaseLine`, `CallDisable`). `LinuxBackend` is the
user there is: `open()` and `close()` in their order, each step of `open()` able to fail or to be
cancelled, with the close that follows. `closer` says what a close is part of. The radio object is the
two lines it holds. `PowerUsedAsSpecified` says that every step of this user is a step of `CapPower`'s
user (who may also ask for a disable that restores EXT5V; the theorems cover it, the program never
does), `KeepsContract` that the flags change only as `RadioBackend` says; the worker's model uses these
same changes (`Closes`, `StartsReceive`, `StartThrows`, `StopsReceive` of `RadioWorker`).

`PinctrlChild` takes the commands apart: `runPinctrl()` and `runPinctrlCapture()` spawn a child and poll for
its end (`Reap`) until a failed wait, a cancellation or the deadline kills it (`Kill`); the child acts
and ends in its own time, and killed it may have acted or not. `CapPower` has all this as one step with
its outcome and effect; that this is right, because no child is left when a command returns, is proved
(`CommandsAreSteps`). What a child does to a pin is held back until its command ends, since nothing
reads the pin before. Taken from outside the source: `pinctrl` exits with 0 only when it has done what
it was told, and the `waitpid()` that follows the kill in `runPinctrl()` (427, 433), which is not repeated
on `EINTR`, is not interrupted, as the kernel hands the signals of the process to the main thread first.

Left out: which exception leaves `open()`, the destructors (`disable(true)` once more, after which
nothing is remembered), and a process that is killed:
what it changed then stays, and no code of this repository runs to say otherwise.

### Cc1101Driver

The chip is the environment: in receive mode it takes packets from the air byte by byte, overflows
when its FIFO is full, goes on or falls idle after a packet by `stays` (RXOFF_MODE), and ends a
transmission by itself (`ChipStep`). A step of the driver is an access over SPI, or a few that nothing
can come between, or the end of a wait. Each may throw; waits that look at the cancellation flag may be
cancelled. `standby()` waits for IDLE: a driver that trusts the status registers throws if it does not
come, one that found them unreliable (`relaxed`) goes on. `startReceive()` is a subroutine of
`receive()` (`back`). An access that throws is taken to have had no effect.

The caller is `LinuxBackend`'s: `startReceive`, then `receive` while listening, or `idle`, then
`transmit`; after a throw only `startReceive` or the end, after a cancellation only the end. A frame of
at most 61 bytes (`LinuxBackend` refuses more) fits the FIFO, so the loop that feeds a longer one never
runs. `rawReceive`, `receiveFixed`, `transmitString` and `dumpRegisters` are called by nobody. The
bytes of a packet are its number and a place, because the properties ask only which packet a byte is
of. Sleeping for a packet is taken to be longer than the packet is on the air, as the code's margin
intends.

Not shown: what happens after `releaseHostControlLines()`. A transmission that was cancelled may still
be on the air then, with the antenna switch released, until the power goes.

### ChatScreen

The main loop handles keys and ticks in turn, so a step is one key, or the begin of a tick, one event
it takes, or its end. Keys go through the application (`help`, the long press of Esc), then to the text
area if it has the focus, else to the view model (`ViewModelKey`, by what is open). `draft` is the
model's observable and `input` the text area of the dialog that shows it: each has its own limit, and
the text area gets the focus only in the tick after an editor has opened, so that keys typed before go
to the draft without it. A text is the sequence of whether each of its bytes is printable: all that the code
asks of a text here is its length, whether it is blank (`SaveDeviceName` may fail for any draft), and which
bytes the text area takes. It drops what is not in `kPrintableAscii` (`Shown`), which the draft may have in
it only from a name that is the account's (`Odd`). `input`, all printable, is known by its length. The radio is reduced to the scripts of
events that it may answer a command with; `ChatSession` has the real worker, with which the same
clauses of `ChatModel` are joined. Keys are pressed and released in pairs, as on the device.

Met while modelling: the lines that close the dialog once the radio is ready
(`chat_view_model.cpp:138-140`) are needed in no state of the instance; in the nickname editor, keys that come
before the focus can bring the draft above the ten bytes that the text area shows, and the save then
refuses it; a name that is not printable is not shown in its editor and is saved all the same, with what
was typed before the focus, until a key reaches the text area (see `Nickname`); `README.md:58` gives Enter on the Info page as retry, which it is only while the failure
dialog is open (`chat_view_model.cpp:107-109`), else it opens the nickname editor; and on the device no
key ends the program: holding Esc shows a hint, and it is the launcher that signals the process.

### MessageList

`SetMessages` is `setMessages()`: rows that match are kept, a change of status rebuilds the list, a
history that has grown or lost its first messages is followed row by row, and anything else rebuilds.
LVGL keeps the place within the content (`Clamp`); a row of a message is as high as `Height` says. The
scroll animation is a goal and any place on the way. Two things that the code does and no property
asks of it: a status change takes a reader to the end, because it rebuilds; and a message that pushes
rows out of a full history ends a scroll in progress.

### ChatProtocol, Nickname and ChatProcess

`ChatProtocol` is the codec byte by byte: magic, token, and the payload with or without the marker and
name of the sender. `Nickname` is `saveDeviceNameFile()` by system call (write, sync, close, rename) with
a failure of each, over a file system that keeps what it was told to keep: `disk` is the set of contents
the file may have after a power loss. The directory is not synced, so a power loss soon after a save may
bring the old name back, whole. `ChatProcess` is `main()`: the phases of its loop, signals (`Signalled`),
the alarm, calls that never return (`GetsStuck`), crashes, power losses and new starts, at any step of
a save.

A first byte of a payload between 129 and 138 is what marks a name. No text that the program's
editor makes has one, so `NameIsCarried` excludes it (`LooksNamed`). An account whose name is not
printable refuses every message (`EncodeNamed`), which the user sees as a failed send. A crash
leaves a temporary file behind, which nothing reads again.

Met while modelling: `saveDeviceName()` asks of a name only that it is not blank and not too long
(`chat_model.cpp:526-536`), `loadSavedDeviceName()` also that it is printable (78). The editor starts with
the name in use as it is (441), so that from an account's name like "ü" the keys Enter, Backspace before the
focus, Enter save its first byte. That name is used until the program ends, every message is refused with
it, and the next start drops it for the account's. `Edits` is what the keys make of the name in use, and
`NameIsSaved` states this exception and no other. No document or comment says otherwise, so that it is
not among the findings.

## Runs

| Run | Question | Instance |
|---|---|---|
| `worker` | Do the worker's invariants hold under every interleaving and failure, does every accepted send conclude, and does `stop()` of an initialized radio return? | one send, one peer token, all commands; command queue 1, event queue 2, two attempts |
| `worker_lostwakeup` | Does `stop()` always return? **No.** | mode changes and retries only |
| `link_pair` | Does the protocol implement the promise, with sends both ways, failures, retries and restarts? Are any four lost frames tolerated? | two radios, three messages, the code's five attempts, two sessions each; rough air and calm air |
| `link_trio` | The same with two senders, a listener, and tokens that wrap; and does every send end? | three radios, tokens 1..3, two attempts |
| `session_screen` | Does the screen agree with the radio and with what became of each send? | two sends, any number of retries; command queue 1, event queue 3, history 1 |
| `session_resolves` | Does the screen leave Initializing and Sending, and every message "sending"? | one send, event queue 2, two events per tick |
| `backend_safety` | Is nothing that was changed forgotten, and the backend open or closed as a whole, whatever fails? | the four functions of a pin that occur; every first state, GDO0 an input or its alternate function; with and without the LED class; the children of the commands included |
| `backend_ext5v` | Is EXT5V left as it was found? **No.** | the same functions, every first state; commands as steps |
| `driver` | Does the driver return whole packets, send its own frame and leave the chip as asked, whatever throws, overflows or is cancelled? | FIFO of 5 bytes, length bytes 0..3, three packets, two transmissions |
| `screen` | Do the layers of the screen agree in every order of keys, ticks and events? | texts of up to 3 and 2, command queue 2, up to seven events not taken |
| `list` | Are the rows the history, and does a reader keep the place? | six messages through a history of four, rows of two heights |
| `process` | Is the nickname's file whole and the name in use the saved one, and does a process that is asked to end do so? | names that begin alike, one too long, two that are not printable; three kinds of account; limits of 4 and 2 bytes |

**Properties worth reading.** `NeverDeaf`: a worker that says it receives is listening, after any mix of
sends, acknowledgements, timeouts and restores. `StateEventsTruthful`: a settled worker has reported the
state it is in last. `NoSendForgotten`, `OneOutcome`, `LossIsReported`: an accepted send is somewhere, gets
one outcome, and if the outcome is evicted the UI is told of a loss. `ScreenTruthful`: when everything has
settled, the screen says ready exactly if the radio is, even though a retry writes to the snapshot while old
events are queued and events may be evicted. `StuckOnlyAfterOverflow`: a message is left at "sending" only
by a loss the user was told of. `StatusIsTheOutcome`: no message shows the outcome of another.
`PinsAreRemembered`: a pin that is not as the program found it is still to be restored, and to what the
program found, after any sequence of failed enables, failed disables and retries. `RestoredWhenReleased`: no
pin is restored while its line is held, which would take it back. `WholeOrNothing`: between calls an open
backend has radio, bus, power and lines, and a closed one has nothing, whichever step failed or was
cancelled. `ReturnsPackets`: an overflow, a bad length, a packet cut short and the restarts in between never
join bytes of two packets, although the driver asks for the length and for the body in different accesses
while the chip goes on filling the FIFO. `SendsOwnFrame`: a transmission that failed or was cancelled leaves
nothing that the next one would send. `ToldOnce`: the dialog opens for every failed initialization, before
the next key, and once, even if a tick sees only part of the events, or the failure together with the retry
before it. `ShownIsUsed`: what is sent or saved is what the text area shows, although there are two texts
and keys reach them by two ways; what it cannot show is saved only where the name in use has it already. `ReaderKeepsPlace`: rows that go above a reader take the place with them,
exactly. `FileIsWhole`: at no time, and after no power loss, is the file found with a part of a name, which
would pass for a name. `NameIsSaved`: the name in use is the one that the next start finds, wherever a save
fails, but for one that is not printable and was made of an account's that is not either. `NameIsCarried`: every name that the program can come to use decodes as the name of
the sender, and none alters the message.

**Bounds.** `DropLimit` is where the count of evicted events saturates; the code only asks whether
it is zero. Queues of one to three are full after a few steps, which is what a queue of 16 or 64
does rarely; the session's two sends give one that waits behind another. `MaxAttempts` 2 has a first
and a last attempt; it is 1 where attempts do not matter (the session) and 5 where their number is
the question (`link_pair`). `TokenWindow` 1 and 2 make the window forget. `MaxToken` 3 makes
tokens wrap after three sends. `FifoFrames` 2 makes the FIFO overflow. In `session_screen` the event queue (3) can
hold a state event and a refusal of every send of the session, because the code's can: 64 against a
command queue of 16. With a shorter one the refusals evict the last state event and the screen stays
ready on a closed radio; in the program that needs more than sixty sends between two ticks, which no
user types.

`PinctrlChild` has GDO0 start in the two functions that it has on the board, which leaves out the others:
they would triple the run and are treated as the functions of the other two pins are, which start in all four.

The driver's FIFO of 5 bytes holds the largest packet that is accepted (2 and its three other bytes) or
parts of two, and overflows within two; lengths 0 and 3 are the bad ones; a third packet meets what an
earlier error left. `ChatScreen` has a message longer than a name, so that the limits differ, starts with every name of printable
and other bytes, and has room
for two scripts of events, so that a tick may see a failure together with a retry, or half of it.
`MessageList` forgets two of six messages, has rows that fill the window and rows that do not, and a
follow distance that some places are within. `ChatProcess` has names of which one is the beginning of
another and one is too long, an account's name of two bytes that are not printable, what keys make of that by
taking one away and by adding a letter, and payloads up to the limit, with every byte of the two kinds that
matter to the marker; a token for each of its three bytes.

**Fairness.** The worker thread runs (`WF` on its steps), the UI thread finishes a call it began,
and the main loop ticks between rounds of keys (`SF`, because a user who keeps pressing keys
disables a tick again and again without preventing it). The deadline of an acknowledgement wait
passes however many packets arrive (`SF` on `AckTimeout`): the code compares a clock in every turn.
`session_resolves` also assumes that not everything a tick takes is an overflow notice: notices go
first, and if the worker evicted an event between any two calls of a tick, the queue would never be
read. Two calls follow each other in microseconds and a packet takes milliseconds. `ScreenSettles`
speaks of a user who stops retrying at some time. Calm air, in `link_pair`, is no fairness but a condition
on the instance: no backend call fails, a frame that was heard is answered before the sender's deadline,
and fewer frames are lost than a send has attempts; rough air has none of this. `ChatProcess` assumes
that `main()` goes on unless a call hangs, and that the alarm fires when it is set (`WF` on both). A
signal sets the alarm anew, so this presumes that signals do not come for ever.

`LinuxBackend` needs no bound: its states are finite, and its run visits all of them. Four functions
are those the code sets or finds; a fifth would be one more value to remember.

Deadlock is not checked where the system may end: all messages sent, or the session stopped.

## Proofs

`RadioWorkerProofs` proves for every set of sends and tokens and for every capacity, number of
attempts and window:

- `WorkerInvariant`: `Spec => []WorkerInv`. None of the invariants is inductive by itself: whether the
  backend is open at a call depends on what the worker believes (`initialized`), that on where it is,
  and that on whether a send is in progress. `WorkerInv` is the conjunction of the type invariant,
  `SendShape` (the pcs of a send belong to a send in progress), `BackendShape` (for each pc, what
  the worker believes and what the backend is), `LifecycleShape` (the thread from start to end) and
  `ReportShape` (the last state event pushed or about to be pushed is the state the worker is in).
  The preservation is proved per part and per action, with lemmas about the event queue (`Pushed`
  stays within its capacity and its type, keeps the last event last).
- from it `TypeCorrect`, `BackendUsedOnlyWhenOpen`, `WorkerNeverDeaf`, `StateEventsAreTruthful`,
  `WorkerEndsClosed`: the invariants of `worker` with these definitions;
- `OutcomeInvariant`: `Spec => []OutcomeInv`, on top of `WorkerInv`. That an accepted send has one outcome
  is not inductive, since it says nothing of where the send is. `QueuedOnce`, `HandledOnce` and `EndedOnce`
  say that it is in one place, once: in the command queue, in the worker's hands, or its outcome in `out`;
  `StopShape` that a send is dropped only once a stop is requested;
- from it `SendsAreNeverForgotten`, `SendsHaveOneOutcome` and `LossesAreReported`.

`ChatLinkProofs` proves for every set of radios, number of messages, tokens, sessions, attempts, window
and FIFO:

- `LinkTypeCorrect`: the type invariant, with `LinkShape`, which relates what a radio is doing to what is
  recorded of its messages;
- `LinkInvariant`: `Spec => []LinkInv`. A frame is recognised by its token, and the state does not say
  which token a message had. `LinkInv` says that *some* assignment of tokens to messages explains all that
  is in the air, in the FIFOs and in the windows: frames carry the token of their message (`Carries`),
  what one sender's frames bring comes in order, and the window ends with the newest message shown or
  forgets none (`Window`), a token that is remembered or acknowledged is that of a message that somebody was
  shown (`Accounted`), and if tokens are apart no two messages have the same (`Distinct`). `Begin` extends
  the assignment, every other step keeps it;
- `LinkImplementsDelivery`: `Spec => Implements`, step by step, under two conditions, and apart
  `DeliveredWasShown`, which takes only the first, and `ShownOnce`, which takes only the second.
  `TokensApart`: the tokens of a radio's sessions are not those of another session or radio.
  `WindowSuffices`: a radio hears one sender only, or no more messages than its window remembers. **The code
  ensures neither**: it draws a random first token of 24 bits, and remembers 64 tokens. TLC refutes
  `Implements` in instances that break either, so neither can be left out; `MCChatLink` assumes
  both of the instances it checks;
- `LinkToleratesLosses`: in calm air no send fails, whatever the tokens, if no radio is alone (`Company`).
  Each attempt of a send but the present one is charged to a lost frame, and so is the present one unless an
  answer to it is under way (`Charged`).

`ChatSessionProofs` proves

- `SessionImplementsWorker`: `SessionSpec => Spec`. The chat model uses the worker only as the
  worker's specification lets it be used;
- `SessionWorkerInvariant`: hence `WorkerInv`, with all that follows from it, in every session;
- `HistoryIsConsistent`: a message is shown as being sent exactly while its transaction waits for an
  outcome, whatever the history forgets, for any limit. Inductive with `IdsGiven`: ids in the history
  and in `pending` are below the next one, so an accepted send is new to both;
- `SessionInvariant`: `SessionSpec => []SessionInv`, which relates the outcomes that were pushed, the events
  not taken, the messages shown and the sends that wait, on top of `OutcomeInv`. From it
  `StatusIsAlwaysTheOutcome` and `MessagesStuckOnlyAfterOverflow`;
- `ScreenInvariant`: `SessionSpec => []ScreenShape`. While the worker is between two operations, taking the
  events that are queued will make the screen show the state the worker is in, because the last of
  them that decides is its state event, or because a command that waits will bring a new one (`Calm`,
  `Shows`). The queue may evict; what it spares is what the proof is about;
- `ScreenIsTruthful`: hence `ScreenTruthful` in a session of fewer sends than the event queue holds
  (`FewSends`; the code's queue holds 64). The condition is not idle: with an event queue of 2 and two sends
  the refusals of an uninitialized radio evict the state event, and TLC finds the screen ready on a closed
  radio. `ScreenLiesOnlyAfterOverflow` has no condition: in any session, a settled screen says what
  the radio is, or the user was told that events were lost.

`LinuxBackendProofs` has three parts, for every set of pin functions. About `CapPower`:

- `PowerInvariant`: `PowerSpec => []PowerInv`, with `LinesShape` (which lines are held at each step),
  `PinShape` (the snapshot is always of the pins as found, because one is taken only when nothing is
  pending; inside `enable()` everything is pending) and `RailShape` (the supply's former state is owned
  before it is changed). `PinsAreRemembered` alone is not inductive: a snapshot with something pending
  would break it, and that there is none depends on the flags the retry looks at;
- from it `PinsAreNeverForgotten`, `RailIsNeverForgotten`, `EnabledCapIsWhole`, and the action property
  `PinsAreRestoredWhenReleased`.

About `LinuxBackend`:

- `LinuxInvariant`: `LinuxSpec => []LinuxInv`, with `PowerShape` (when the power object is in a call),
  `RadioShape` (a radio has bus and power, and only a radio has lines) and `FlagShape`. The proof has one
  lemma per step; each shows that the step is one of `CapPower`'s user, so `PowerInv` is preserved by
  the lemma about that, and not proved a second time;
- `BackendTypeCorrect`; `UsesPowerAsSpecified`, hence `BackendForgetsNoPin`; `BackendIsWholeOrNothing`; and
  `BackendKeepsContract`: `LinuxSpec` implements `RadioBackend`.

About `PinctrlChild`:

- `NoChildOutlivesItsCommand`: a child there is only while its command waits;
- from it `CommandsAreSteps`: `ChildSpec => LinuxSpec`. A child that acts does so while its command waits,
  so its effect is part of the step that concludes the command;
- hence `ChildrenForgetNoPin` and `ChildrenUsePowerAsSpecified`, from the theorems about `LinuxBackend`.

`Cc1101DriverProofs` proves, for any FIFO, any number of packets and of transmissions,

- `DriverInvariant`: `Spec => []DriverInv`, with `DriverTypeOK`, `TransmitControl` (what is in the
  transmit FIFO and where the antenna switch is at each place of a call), `ReceiveControl` and
  `StreamInv`. The last says that while the driver receives, the FIFO and the packet in the air are one
  stream: each byte follows the one before it in its packet, or begins a later packet after the end of
  one (`Stream`); the FIFO begins at the start of a packet, or, once its length byte was taken, right
  after it (`AtStart`, `AtRest`); and all of it is newer than what was returned last (`Fresh`).
  `ReturnsPackets` needs all three: an overflow leaves a packet unfinished at the end of the
  FIFO, and only because a flush follows before anything else is received is nothing appended to it;
- from it `DriverTypeCorrect`, `AlwaysSendsOwnFrame`, `AlwaysDoesAsAsked` and the action property
  `AlwaysReturnsPackets`.

`ChatProcessProofs` proves, for every size of messages and names and every text and account,

- `AckRoundTrip` and `FramesCarryBoth`: what `encodeAcknowledgement()` and `encodeData()` make, `decode()`
  takes apart again, with the name if there was room for it; the three bytes of a token by arithmetic
  of `\div` and `%`;
- `ProcessInvariant`: `Spec => []ProcessInv`, with `SaveInv` (what is in the temporary file at each step
  of a save, and that it was synced before the rename), `NameInv` (the name in use against the file, and that
  bytes which are not printable come from the account's name, because keys add none, `EditsOfPrintable`) and
  `PhaseInv`;
- from it `FileAlwaysWhole`, `NameAlwaysSaved`, `NameAlwaysCarried` (with the round trip), and
  `AskedAlwaysHasAlarm`, the invariant on which the liveness of `EndsWhenAsked` rests.

`ChatScreenProofs` proves, for every limit of texts and queues,

- `ScreenInvariant`: `Spec => []ScreenInv`, with `LayerShape` (what is open), `TextShape` (the text area shows
  what is printable of the draft, as far as it fits, and what is not printable is the name's), `NewsShape` (a failure not told yet is one that the tick will see) and what
  they rest on, `FeedShape`, `RetryShape` and `ErrorShape`: a radio that has failed is silent until a retry,
  and a retry is asked for only when the screen shows the error, when all the radio had to say has been
  heard. Without that the view model, which compares two snapshots, could take two failures for one;
- from it `ScreenLayersAgree` and the action properties `FailuresAreToldOnce`, `EscPeelsOneLayer` and
  `ShownTextIsUsed`.

`MessageListProofs` proves, for any heights of rows and any limits,

- `ListInvariant`: `Spec => []ListInv`. The rows are the history; the history's ids have no gap
  (`Numbered`), which is why the rows to keep are found where they are (`KeptIsBase`); and the place and the
  end of the animation are within what the rows allow (`Lists`). From it `RowsAlwaysShowHistory` and
  `ListTypeCorrect`;
- `ReaderAlwaysKeepsPlace`: the action property, for a history of more than one message (the code's has 64;
  of a history of one no row stays). It needs that heights add up (`ExtentAdds`), by induction on a fold. The
  library's induction theorems cannot be used, as they take an operator; the proof takes the least number for
  which the statement fails instead (`LeastNumber`, from the well-founded order of finite sets).

The assumptions are the named `ASSUME`s on the constants: capacities are positive, model values are
not ids, (in `ChatSession`) the UI's commands include the sends and the retry, (in `CapPower`) the
functions the code sets are functions of a pin, (in `Cc1101Driver`) the FIFO has room for the three bytes
around a payload, and (in `ChatProtocol`) a name's length fits below the marker bit.

Those of `ChatLink` and the conditions of single theorems (`TokensApart`, `WindowSuffices`, `Company`,
`FewSends`, more than one message of history) are named with them above.

Every invariant and action property of the runs is proved. Only model-checked is what is liveness under
fairness, out of the prover's reach: `SendConcludes` and `StopReturnsWhenInitialized` of the worker,
`SendsConclude` of the link, `ScreenSettles` and `MessagesResolve` of the session, `EndsWhenAsked` of the
process; and the two violations, which are one behaviour each.

## Findings

1. `worker_lostwakeup`. `stop()` stores its flag and notifies without the command mutex
   (`radio_worker.cpp:127-128`). While the radio is not initialized the worker waits without a time
   limit; if the notify falls between its check and its sleep, nothing wakes it and the join never
   returns. The shutdown is documented to finish within a deadline
   (`linux_cc1101_backend.cpp:141-142`); what bounds it is the alarm of `main.cpp`, which ends the process
   without closing the radio. `worker` shows that the timed wait of an initialized radio does not have
   this problem.
2. `backend_ext5v`. `README.md:65-66` says that the app restores the EXT5V state it changed before
   returning to APPLaunch. `close()` always preserves EXT5V (`linux_cc1101_backend.cpp:150`), after a
   failed open too, and gives up the former state (`cardputerzero_cc1101_power.cpp:309-311`), so a
   supply that was off stays on. The pins are restored as the README says.

A remark without a run: acknowledgements and duplicates are recognised by token alone
(`radio_worker.cpp:449, 458`), so that two radios at the same 24-bit token take each other's
acknowledgements and suppress each other's messages. The random first token makes this unlikely, and
the instances of `ChatLink` give the radios first tokens apart. `TokensApart` is the condition, and
`DeliveredWasShown` what it is needed for.

## Plan

Everything of the program that decides something is modelled, and every safety property that is checked
is proved. What is left:

1. smaller conditions: `FewSends` bounds the sends of a session, while what the argument needs is a bound on the
   refusals between two ticks; `WindowSuffices` asks for few messages or one sender, while what is needed is
   fewer than a window of other messages between two copies of a frame;
2. of liveness, the invariants it rests on, as `AskedAlwaysHasAlarm` is for `EndsWhenAsked`: for
   `SendConcludes` that each step of a send brings it nearer to its last attempt.

## Not modelled

- The mock backend: `RadioWorker` allows every outcome it can produce.
- SPI and GPIO wrappers: system calls and their errors. That each may fail is in `Cc1101Driver`, `CapPower`
  and `LinuxBackend`.
- Keypad and keymap: reading the input device and mapping key codes; `ChatScreen` takes the pairs of
  presses and releases it delivers on the device. The SDL build's keys are left out.
- The LVGL display HAL, layout, colours and animations of the views; build, packaging and CI: I/O, or
  not part of the program.
- Of modelled components: a change of page (there is one page), configuration paths and file ownership,
  the meaning of the registers to the radio, RSSI and diagnostics, logging and wording.
