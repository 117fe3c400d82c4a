----------------------------- MODULE ChatScreen -----------------------------
(***************************************************************************)
(* What the user sees and types into: the application of                   *)
(* src/src/core/cc1101_chat_app.cpp, the view model of                     *)
(* src/src/view_models/chat_view_model.cpp, the drafts of the chat model,  *)
(* and the dialogs of src/src/views/ that follow them, on the device.  The *)
(* main loop takes keys one by one and then ticks; a tick takes events of  *)
(* the worker, any number of those there may be by then.                   *)
(*                                                                         *)
(* The worker is reduced to the scripts of events that change what the     *)
(* screen knows of the radio, one for each command it takes.  A text is    *)
(* known by which of its bytes are printable: those of a nickname that is  *)
(* the account's need not be.  Scrolling is the matter of MessageList.     *)
(***************************************************************************)
EXTENDS Naturals, Sequences, SequencesExt

CONSTANTS
  MessageLimit,  (* kMaxMessageBytes                                       *)
  NameLimit,     (* kMaxDeviceNameBytes                                    *)
  CommandLimit,  (* kCommandQueueCapacity                                  *)
  FeedLimit      (* bound: events that the UI has not taken                *)

ASSUME ScreenAssumption ==
  /\ NameLimit \in Nat \ {0} /\ MessageLimit \in Nat /\ NameLimit < MessageLimit
  /\ CommandLimit \in Nat \ {0} /\ FeedLimit \in Nat

VARIABLES
  app,         (* before, in, or after the session: CC1101ChatApp::_started *)
  section, editor, dialog,   (* the observables of the view model          *)
  lastState, lastFailed,     (* _last_state, _last_initialization_failed   *)
  info,        (* the chat model's snapshot of the radio                   *)
  draft, name, (* its draft and the nickname in use                        *)
  input,       (* how long the text in the text area of the dialog is,     *)
               (* which is printable                                       *)
  maxLength,   (* how long that text may be                                *)
  focusPending, inGroup,     (* _focus_pending, _input_in_group            *)
  help, helpPressed,         (* the help is shown; _help_pressed           *)
  hold,        (* a long press of Esc: off, armed, or shown as a hint      *)
  escDown      (* the key Esc is down                                      *)

VARIABLES
  ticking,     (* a tick is taking events                                  *)
  feed,        (* events that the UI has not taken                         *)
  commands,    (* commands that the worker has not taken                   *)
  radio,       (* what the last script of the worker ended in              *)
  news         (* history: a failed initialization is on the screen, and   *)
               (* no dialog has told of it                                 *)

Model == INSTANCE ChatModel WITH
  TxIds <- {}, HistoryLimit <- 1, Peer <- 0,
  started <- app = "running", messages <- <<>>, pending <- {}, nextTxId <- 1

textVars   == <<draft, name, input, maxLength>>
focusVars  == <<focusPending, inGroup>>
layerVars  == <<section, editor, dialog>>
edgeVars   == <<lastState, lastFailed>>
keyVars    == <<help, helpPressed, hold, escDown>>
workerVars == <<feed, commands, radio>>
vmVars     == <<layerVars, edgeVars, info, textVars, focusVars, workerVars>>
uiVars     == <<app, layerVars, edgeVars, info, textVars, focusVars, keyVars>>
vars       == <<uiVars, ticking, workerVars, news>>

Least(a, b) == IF a < b THEN a ELSE b

Modal   == editor # "None" \/ dialog          (* modalActive()             *)
Focused == inGroup /\ ~help                   (* focusedTextInput()        *)
Free    == app = "running" /\ ~ticking        (* the loop may take a key   *)
-----------------------------------------------------------------------------
(* The worker.                                                             *)

State(s)  == [type |-> "State", arg |-> s]
Error(op) == [type |-> "Error", arg |-> op]
Initialized == [type |-> "Initialized"]
TxStarted   == [type |-> "TxStarted"]

Opened   == <<State("Initializing"), Initialized, State("Receiving")>>
NotOpen  == <<State("Initializing"), Error("initialize"), State("Error")>>
NotHeard == <<State("Initializing"), Initialized, Error("initialize"), State("Error")>>
Sent     == <<TxStarted, State("Sending"), State("Receiving")>>
NotSent  == <<TxStarted, State("Sending"), Error("restore receive"), State("Error")>>
Broken   == <<Error("receive"), State("Error")>>

Scripts(c) ==
  CASE c = "retry"                 -> {Opened, NotOpen, NotHeard}
    [] c = "send" /\ radio = "up"   -> {Sent, NotSent}
    [] c = "send" /\ radio = "down" -> {<<>>}

(* The worker follows a script.                                            *)
Follow(script) ==
  /\ Len(feed) + Len(script) <= FeedLimit
  /\ feed' = feed \o script
  /\ radio' = IF script = <<>> THEN radio
              ELSE IF Last(script) = State("Receiving") THEN "up" ELSE "down"

WorkerTakes ==
  /\ commands # <<>>
  /\ \E script \in Scripts(Head(commands)) : Follow(script)
  /\ commands' = Tail(commands)
  /\ UNCHANGED <<uiVars, ticking, news>>

RadioBreaks ==
  /\ radio = "up" /\ Follow(Broken)
  /\ UNCHANGED <<uiVars, ticking, commands, news>>
-----------------------------------------------------------------------------
(* The draft, and the text area that shows it.                             *)

(* A text says of each of its bytes whether it is printable; Typed(n) is   *)
(* one of n bytes that came from the keys.                                 *)
Typed(n)  == [i \in 1..n |-> TRUE]
Odd(text) == {i \in DOMAIN text : ~text[i]}

(* How much of a text the text area takes: what is printable, as far as it *)
(* fits.                                                                   *)
Plain(text) == Len(text) - Cardinality(Odd(text))
Shown(text) == Least(Plain(text), maxLength)

(* _draft.set(): the dialog shows the text unless it does already.         *)
SetDraft(text) ==
  /\ draft' = text
  /\ input' = IF text = Typed(input) THEN input ELSE Shown(text)

(* The dialog's setMode().                                                 *)
OpenEditor(mode, text) ==
  /\ SetDraft(text) /\ editor' = mode /\ focusPending' = TRUE
  /\ maxLength' = IF mode = "Nickname" THEN NameLimit ELSE MessageLimit
  /\ UNCHANGED <<section, dialog, edgeVars, info, name, inGroup, workerVars>>

(* Mutant of CloseEditor: the text area stays in the group.                *)
CloseEditorInGroup ==
  /\ SetDraft(<<>>) /\ editor' = "None" /\ focusPending' = FALSE
  /\ UNCHANGED <<maxLength, inGroup>>

CloseEditor ==
  /\ SetDraft(<<>>) /\ editor' = "None" /\ focusPending' = FALSE /\ inGroup' = FALSE
  /\ UNCHANGED maxLength

CancelEditor == CloseEditor /\ UNCHANGED <<section, dialog, edgeVars, info, name, workerVars>>

(* sendCompose(): an empty draft, a radio that is not ready and a full     *)
(* queue leave the editor open.                                            *)
MayPost == radio # "none" /\ Len(commands) < CommandLimit

SendCompose ==
  \/ /\ draft # <<>> /\ info.ready /\ MayPost
     /\ commands' = Append(commands, "send")
     /\ CloseEditor /\ section' = "Messages"
     /\ UNCHANGED <<dialog, edgeVars, info, name, feed, radio>>
  \/ (draft = <<>> \/ ~info.ready \/ ~MayPost) /\ UNCHANGED vmVars

(* What saveDeviceName() takes for a name.  Mutant: the limit is that of a *)
(* message.                                                                *)
NamesOfAnyLength == UNION {[1..n -> BOOLEAN] : n \in 1..MessageLimit}
Names == UNION {[1..n -> BOOLEAN] : n \in 1..NameLimit}

(* saveDeviceName(): a name of blanks and a file that cannot be written    *)
(* leave the editor open too.                                              *)
SaveDeviceName ==
  \/ /\ draft \in Names /\ name' = draft
     /\ CloseEditor /\ UNCHANGED <<section, dialog, edgeVars, info, workerVars>>
  \/ UNCHANGED vmVars

Submit == IF editor = "Message" THEN SendCompose ELSE SaveDeviceName

Printable == {"a", "r", "z", "c"}

(* A key for the text area that has the focus: it edits where the cursor   *)
(* is, and hands the text on, unless it is full or the cursor at its end.  *)
InputLimit == IF editor = "Nickname" THEN NameLimit ELSE MessageLimit

EditInput(key) ==
  \/ /\ \/ key \in Printable /\ input < Least(InputLimit, maxLength) /\ input' = input + 1
        \/ key = "erase" /\ input > 0 /\ input' = input - 1
     /\ draft' = Typed(Least(input', MessageLimit))
     /\ UNCHANGED <<layerVars, edgeVars, info, name, maxLength, focusVars, workerVars>>
  \/ /\ key \in Printable => input >= Least(InputLimit, maxLength)
     /\ UNCHANGED vmVars

(* The view model's own editing, while the text area waits for the focus:  *)
(* appendDraft() and eraseDraftCharacter().                                *)
EditDraft(key) ==
  /\ SetDraft(CASE key = "erase" /\ draft # <<>> -> Front(draft)
                [] key \in Printable /\ Len(draft) < MessageLimit -> Append(draft, TRUE)
                [] OTHER -> draft)
  /\ UNCHANGED <<layerVars, edgeVars, info, name, maxLength, focusVars, workerVars>>
-----------------------------------------------------------------------------
(* The view model.                                                         *)

(* A retry makes the next failure a new one.  Mutant: it does not.         *)
EdgeKept      == UNCHANGED lastFailed
EdgeForgotten == lastFailed' = FALSE

(* retryRadio(): the command is queued, or the thread is started, or the   *)
(* dialog says that neither was possible.                                  *)
RetryRadio ==
  /\ \E accepted \in BOOLEAN :
       /\ Model!ModelRetry(accepted) /\ dialog' = ~accepted
       /\ IF radio = "none"
          THEN /\ accepted => \E script \in Scripts("retry") : Follow(script)
               /\ ~accepted => UNCHANGED <<feed, radio>>
               /\ UNCHANGED commands
          ELSE /\ accepted = MayPost
               /\ commands' = IF accepted THEN Append(commands, "retry") ELSE commands
               /\ UNCHANGED <<feed, radio>>
  /\ EdgeForgotten
  /\ UNCHANGED <<section, editor, lastState, textVars, focusVars>>

Dismiss == dialog' = FALSE /\ UNCHANGED <<section, editor, edgeVars, info, textVars, focusVars, workerVars>>

GoTo(page) == section' = page /\ UNCHANGED <<editor, dialog, edgeVars, info, textVars, focusVars, workerVars>>

(* onKey() by what is open.                                                *)
DialogKey(key) ==
  CASE key = "esc"            -> Dismiss
    [] key \in {"enter", "r"} -> RetryRadio
    [] OTHER                  -> UNCHANGED vmVars

EditorKey(key) ==
  CASE key = "esc"   -> CancelEditor
    [] key = "enter" -> Submit
    [] OTHER         -> EditDraft(key)

InfoKey(key) ==
  CASE key = "r" /\ info.state = "Error" -> RetryRadio
    [] key \in {"left", "z"}             -> GoTo("Messages")
    [] key = "enter"                     -> OpenEditor("Nickname", name)
    [] OTHER                             -> UNCHANGED vmVars

MessagesKey(key) ==
  CASE key \in {"right", "c"} -> GoTo("Info")
    [] key = "enter"          -> OpenEditor("Message", <<>>)
    [] key \in {"a", "r"}     -> OpenEditor("Message", Typed(1))
    [] OTHER                  -> UNCHANGED vmVars

ViewModelKey(key) ==
  CASE dialog                        -> DialogKey(key)
    [] ~dialog /\ editor # "None"    -> EditorKey(key)
    [] ~Modal /\ section = "Info"     -> InfoKey(key)
    [] ~Modal /\ section = "Messages" -> MessagesKey(key)
-----------------------------------------------------------------------------
(* The application.                                                        *)

(* Esc closes what is on top, or else begins a long press.  Mutant: the    *)
(* help is asked for last.                                                 *)
EscPressedHelpLast ==
  CASE Modal           -> ViewModelKey("esc") /\ UNCHANGED <<help, hold>>
    [] ~Modal          -> help' = FALSE /\ hold' = "armed" /\ UNCHANGED vmVars

EscPressed ==
  CASE help            -> help' = FALSE /\ UNCHANGED <<hold, vmVars>>
    [] ~help /\ ~Modal -> hold' = "armed" /\ UNCHANGED <<help, vmVars>>
    [] ~help /\ Modal  -> ViewModelKey("esc") /\ UNCHANGED <<help, hold>>

EscDown ==
  /\ Free /\ ~escDown /\ escDown' = TRUE
  /\ EscPressed
  /\ UNCHANGED <<app, ticking, helpPressed, news>>

EscUp ==
  /\ Free /\ escDown /\ escDown' = FALSE
  /\ hold' = "off"
  /\ UNCHANGED <<app, vmVars, ticking, help, helpPressed, news>>

HelpDown ==
  /\ Free /\ ~helpPressed /\ helpPressed' = TRUE
  /\ help' = ~help
  /\ UNCHANGED <<app, vmVars, ticking, hold, escDown, news>>

HelpUp ==
  /\ Free /\ helpPressed /\ helpPressed' = FALSE
  /\ UNCHANGED <<app, vmVars, ticking, help, hold, escDown, news>>

(* Enter goes to the view model; any other key goes to the text area that  *)
(* has the focus.  The help takes them all.                                *)
Key(key) ==
  /\ Free /\ ~help
  /\ UNCHANGED <<app, ticking, keyVars, news>>
  /\ IF Focused /\ key # "enter" THEN EditInput(key) ELSE ViewModelKey(key)

Keys == Printable \cup {"enter", "erase", "left", "right"}
-----------------------------------------------------------------------------
(* tick()                                                                  *)

TickBegin == Free /\ ticking' = TRUE /\ UNCHANGED <<uiVars, workerVars, news>>

InitFailed(i) == i.state = "Error" /\ i.initFailed

TickEvent ==
  /\ ticking /\ feed # <<>>
  /\ info' = Model!InfoAfter(Head(feed)) /\ feed' = Tail(feed)
  /\ news' = (~info'.ready /\ (news \/ (Head(feed) = State("Error") /\ InitFailed(info'))))
  /\ UNCHANGED <<app, ticking, layerVars, edgeVars, textVars, focusVars, keyVars, commands, radio>>

(* The view model looks at the snapshot once the events are taken.  An     *)
(* editor gives way to the dialog, and a radio that is ready closes it.    *)
FailureBegins == InitFailed(info) /\ ~lastFailed
ErrorBegins   == info.state = "Error" /\ lastState # "Error"

DialogAfterTick == (dialog \/ FailureBegins) /\ ~info.ready

(* Then the view gives the text area the focus, and a long press ends      *)
(* where it may no longer lead home, or shows its hint.                    *)
TickEnd ==
  /\ ticking /\ ticking' = FALSE
  /\ IF FailureBegins /\ editor # "None"
     THEN CloseEditor
     ELSE /\ inGroup' = (inGroup \/ focusPending) /\ focusPending' = FALSE
          /\ UNCHANGED <<editor, draft, input, maxLength>>
  /\ section' = IF FailureBegins \/ ErrorBegins THEN "Info" ELSE section
  /\ dialog' = DialogAfterTick
  /\ lastState' = info.state /\ lastFailed' = InitFailed(info)
  /\ \/ hold' = IF editor' # "None" \/ dialog' THEN "off" ELSE hold
     \/ hold = "armed" /\ editor' = "None" /\ ~dialog' /\ hold' = "hint"
  /\ news' = (news /\ ~dialog')
  /\ UNCHANGED <<app, info, name, help, helpPressed, escDown, workerVars>>
-----------------------------------------------------------------------------
(* start() and stop(), once each.                                          *)
Init ==
  /\ app = "before" /\ section = "Messages" /\ editor = "None" /\ dialog = FALSE
  /\ lastState = "Initializing" /\ lastFailed = FALSE
  /\ info = Model!Info("Initializing", FALSE, FALSE)
  /\ draft = <<>> /\ name \in Names /\ input = 0 /\ maxLength = MessageLimit
  /\ focusPending = FALSE /\ inGroup = FALSE
  /\ help = FALSE /\ helpPressed = FALSE /\ hold = "off" /\ escDown = FALSE
  /\ ticking = FALSE /\ feed = <<>> /\ commands = <<>> /\ radio = "none" /\ news = FALSE

(* The model starts, and the page is entered.                              *)
AppStart ==
  /\ app = "before" /\ app' = "running"
  /\ \/ \E script \in Scripts("retry") : Follow(script) /\ UNCHANGED <<info, section, dialog, edgeVars>>
     \/ /\ info' = Model!Info("Error", FALSE, TRUE) /\ section' = "Info" /\ dialog' = TRUE
        /\ lastState' = "Error" /\ lastFailed' = TRUE
        /\ UNCHANGED <<feed, radio>>
  /\ UNCHANGED <<editor, textVars, focusVars, keyVars, ticking, commands, news>>

(* The view goes first, then what the view model has open, then the model. *)
AppStop ==
  /\ Free /\ app' = "after"
  /\ editor' = "None" /\ dialog' = FALSE
  /\ draft' = <<>> /\ input' = 0 /\ maxLength' = MessageLimit
  /\ focusPending' = FALSE /\ inGroup' = FALSE
  /\ help' = FALSE /\ helpPressed' = FALSE /\ hold' = "off"
  /\ info' = Model!Info("Stopped", FALSE, info.initFailed)
  /\ feed' = <<>> /\ commands' = <<>> /\ radio' = "none"
  /\ UNCHANGED <<section, edgeVars, name, escDown, ticking, news>>

Next ==
  \/ AppStart \/ AppStop
  \/ EscDown \/ EscUp \/ HelpDown \/ HelpUp \/ \E key \in Keys : Key(key)
  \/ TickBegin \/ TickEvent \/ TickEnd
  \/ WorkerTakes \/ RadioBreaks

Spec == Init /\ [][Next]_vars
-----------------------------------------------------------------------------
ScreenTypeOK ==
  /\ app \in {"before", "running", "after"}
  /\ section \in {"Messages", "Info"} /\ editor \in {"None", "Message", "Nickname"}
  /\ dialog \in BOOLEAN /\ lastState \in Model!RadioUiStates /\ lastFailed \in BOOLEAN
  /\ info \in Model!Infos
  /\ draft \in Seq(BOOLEAN) /\ Len(draft) <= MessageLimit /\ name \in Names
  /\ input \in 0..MessageLimit
  /\ maxLength \in {NameLimit, MessageLimit}
  /\ focusPending \in BOOLEAN /\ inGroup \in BOOLEAN
  /\ help \in BOOLEAN /\ helpPressed \in BOOLEAN
  /\ hold \in {"off", "armed", "hint"} /\ escDown \in BOOLEAN
  /\ ticking \in BOOLEAN /\ news \in BOOLEAN
  /\ Len(feed) <= FeedLimit /\ Len(commands) <= CommandLimit
  /\ radio \in {"none", "up", "down"}

(* The layers of the screen agree, between any two steps: the dialog never *)
(* covers an editor or a radio that is ready and is on the Info page, the  *)
(* text area has the keys only of an open editor, and a long press is one  *)
(* of a key that is down (cc1101_chat_app.cpp:53-57, 263-284, 375-384;     *)
(* chat_view_model.cpp:52-73, 122-143).                                    *)
LayersAgree ==
  /\ dialog => editor = "None" /\ section = "Info" /\ (ticking \/ ~info.ready)
  /\ inGroup \/ focusPending => editor # "None"
  /\ hold # "off" => escDown

(* A failed initialization is told by the dialog before the next key is    *)
(* taken, once, and the dialog opens for nothing else than that and a      *)
(* retry that was refused: even if the tick saw the failure together with  *)
(* the retry that came before it, or only in part.                         *)
ToldOnce ==
  /\ [](Free => ~news)
  /\ [][~dialog /\ dialog' /\ app = "running" => (news \/ info' = Model!Info("Error", FALSE, FALSE))]_vars

(* What is sent or saved is what the text area shows, although texts reach *)
(* the draft without it before it has the focus.  What it does not show is *)
(* saved only where it is there already, in a name that is not printable   *)
(* (chat_model.cpp:439-443, 526-536; chat_view.cpp:1021-1032, 1221).       *)
ShownIsUsed ==
  [][/\ Len(commands') > Len(commands) /\ Last(commands') = "send" => draft = Typed(input)
     /\ name' # name => Plain(name') = input /\ Odd(name') \subseteq Odd(name)]_vars

(* Esc closes exactly what is on top and leaves the rest as it is; only    *)
(* with nothing open does it begin a long press.                           *)
EscPeels ==
  [][EscDown =>
       /\ help => ~help' /\ <<editor, dialog, hold>>' = <<editor, dialog, hold>>
       /\ ~help /\ Modal => ~(editor' # "None" \/ dialog') /\ <<help, hold>>' = <<help, hold>>
       /\ hold # hold' => ~help /\ ~Modal]_vars
=============================================================================
