-------------------------- MODULE ChatScreenProofs --------------------------
(***************************************************************************)
(* Theorems about ChatScreen, for every limit of texts and queues: what is *)
(* open agrees with what has the keys, Esc peels one layer, a failure is   *)
(* told once, and what is sent or saved is what the user saw, but for the  *)
(* bytes of an account's name that cannot be shown.                        *)
(*                                                                         *)
(* ScreenInv is inductive.  Its part about the radio, RadioShape, is what  *)
(* telling a failure once rests on: the view model looks only at a         *)
(* snapshot, at the end of a tick, and would take two failures in a row    *)
(* for one; but a radio that has failed is silent until a retry, and a     *)
(* retry is asked for only when all it had to say has been heard.          *)
(***************************************************************************)
EXTENDS ChatScreen, FiniteSetTheorems, TLAPS

(* The events and commands there are.                                      *)
ScreenEvents ==
  {State(s) : s \in {"Initializing", "Receiving", "Sending", "Error"}}
    \cup {Error(op) : op \in {"initialize", "receive", "restore receive"}}
    \cup {Initialized, TxStarted}
ScreenCommands == {"send", "retry"}

(* The types, and what is not there before start() and after stop().       *)
Types ==
  /\ app \in {"before", "running", "after"} /\ ticking \in BOOLEAN /\ news \in BOOLEAN
  /\ editor \in {"None", "Message", "Nickname"} /\ section \in {"Messages", "Info"}
  /\ dialog \in BOOLEAN
  /\ inGroup \in BOOLEAN /\ focusPending \in BOOLEAN
  /\ info \in Model!Infos /\ lastFailed \in BOOLEAN
  /\ feed \in Seq(ScreenEvents) /\ commands \in Seq(ScreenCommands)
  /\ radio \in {"none", "up", "down"}

Absences ==
  /\ app # "running" => ~ticking /\ editor = "None" /\ ~dialog /\ radio = "none"
  /\ app # "running" \/ radio = "none" => feed = <<>> /\ commands = <<>>
  /\ app = "before" => ~lastFailed /\ info = Model!Info("Initializing", FALSE, FALSE)

(* The first two parts of LayersAgree.                                     *)
LayerShape ==
  /\ dialog => editor = "None" /\ section = "Info" /\ (ticking \/ ~info.ready)
  /\ inGroup \/ focusPending => editor # "None"

(* The text area shows what is printable of the draft, as far as it fits.  *)
(* What is not printable is that of the name, which is edited.             *)
TextShape ==
  /\ draft \in Seq(BOOLEAN) /\ Len(draft) <= MessageLimit /\ name \in Names /\ input \in Nat
  /\ maxLength \in {NameLimit, MessageLimit}
  /\ editor # "None" => maxLength = InputLimit /\ input = Least(Plain(draft), maxLength)
  /\ Odd(draft) \subseteq (IF editor = "Nickname" THEN Odd(name) ELSE {})

(* One error at a time: a radio that has failed is heard of no more until  *)
(* a retry, and a retry is asked for only when all has been heard.         *)
FeedShape ==
  \A i \in 1..Len(feed) : feed[i] = State("Error") => i = Len(feed) /\ radio = "down"
RetryShape ==
  \A i \in 1..Len(commands) :
    commands[i] = "retry" =>
      /\ i = Len(commands) /\ feed = <<>> /\ radio = "down"
      /\ info.state = "Initializing" /\ ~info.ready
ErrorShape ==
  /\ info.state = "Error" => feed = <<>> /\ radio # "up" /\ ~info.ready
  /\ dialog => info.state = "Error"

(* A failed initialization is news until a dialog has told of it.          *)
NewsShape ==
  /\ app = "running" => (news <=> (InitFailed(info) /\ ~lastFailed))
  /\ news => ticking
  /\ lastFailed /\ app = "running" => InitFailed(info)

(* All but the keys that are down.                                         *)
ScreenCore ==
  /\ Types /\ Absences /\ LayerShape /\ TextShape
  /\ FeedShape /\ RetryShape /\ ErrorShape /\ NewsShape

KeyShape ==
  /\ help \in BOOLEAN /\ hold \in {"off", "armed", "hint"} /\ escDown \in BOOLEAN
  /\ hold # "off" => escDown

ScreenInv == ScreenCore /\ KeyShape

USE DEF textVars, focusVars, layerVars, edgeVars, keyVars, workerVars, vmVars, uiVars

-----------------------------------------------------------------------------
(* The data.                                                               *)

(* The snapshots of the radio.                                             *)
LEMMA InfoShape ==
  \A s \in Model!RadioUiStates, r \in BOOLEAN, f \in BOOLEAN :
    /\ Model!Info(s, r, f) \in Model!Infos
    /\ Model!Info(s, r, f).state = s
    /\ Model!Info(s, r, f).ready = r
    /\ Model!Info(s, r, f).initFailed = f
BY DEF Model!Info, Model!Infos

LEMMA StatesThereAre ==
  /\ Model!RadioUiStates = {"Initializing", "Receiving", "Sending", "Error", "Stopped"}
  /\ \A i \in Model!Infos : /\ i.state \in Model!RadioUiStates
                            /\ i.ready \in BOOLEAN /\ i.initFailed \in BOOLEAN
BY DEF Model!RadioUiStates, Model!Infos

(* What an event does to the snapshot.                                     *)
LEMMA InfoAfterEvent ==
  ASSUME info \in Model!Infos, NEW e \in ScreenEvents
  PROVE  /\ Model!InfoAfter(e) \in Model!Infos
         /\ e = State("Error") => Model!InfoAfter(e).state = "Error" /\ ~Model!InfoAfter(e).ready
         /\ e # State("Error") /\ info.state # "Error" => Model!InfoAfter(e).state # "Error"
<1>1. CASE e \in {State(s) : s \in {"Initializing", "Receiving", "Sending", "Error"}}
  <2>1. PICK s \in {"Initializing", "Receiving", "Sending", "Error"} : e = State(s)
    BY <1>1
  <2>2. Model!InfoAfter(e) = Model!Info(s, s \in {"Idle", "Receiving", "Sending"},
                                        s \in {"Error", "Stopping", "Stopped"} /\ info.initFailed)
    BY <2>1 DEF Model!InfoAfter, Model!StateShown, Model!Shown, Model!ReadyStates,
                Model!FailedEnds, State
  <2>3. PICK r \in BOOLEAN : r = (s \in {"Idle", "Receiving", "Sending"})
    <3>1. (s \in {"Idle", "Receiving", "Sending"}) \in BOOLEAN
      OBVIOUS
    <3> QED BY <3>1, Zenon
  <2>4. PICK f \in BOOLEAN : f = (s \in {"Error", "Stopping", "Stopped"} /\ info.initFailed)
    OBVIOUS
  <2>5. Model!InfoAfter(e) = Model!Info(s, r, f)
    BY <2>2, <2>3, <2>4
  <2>6. s \in Model!RadioUiStates
    BY StatesThereAre
  <2>7. Model!Info(s, r, f) \in Model!Infos /\ Model!Info(s, r, f).state = s
        /\ Model!Info(s, r, f).ready = r
    BY <2>6, InfoShape
  <2>8. s = "Error" <=> e = State("Error")
    BY <2>1 DEF State
  <2>9. s = "Error" => ~r
    BY <2>3
  <2> QED BY <2>5, <2>7, <2>8, <2>9
<1>2. CASE e \in {Error(op) : op \in {"initialize", "receive", "restore receive"}}
  <2>1. PICK op \in {"initialize", "receive", "restore receive"} : e = Error(op)
    BY <1>2
  <2>2. Model!InfoAfter(e) = [info EXCEPT !.initFailed = (op = "initialize")]
    BY <2>1 DEF Model!InfoAfter, Error
  <2>3. e # State("Error")
    BY <2>1 DEF Error, State
  <2> QED BY <2>2, <2>3 DEF Model!Infos
<1>3. CASE e = Initialized
  <2>1. Model!InfoAfter(e) = Model!Info(info.state, TRUE, FALSE) /\ e # State("Error")
    BY <1>3 DEF Model!InfoAfter, Initialized, State
  <2>2. info.state \in Model!RadioUiStates
    BY StatesThereAre
  <2>3. /\ Model!Info(info.state, TRUE, FALSE) \in Model!Infos
        /\ Model!Info(info.state, TRUE, FALSE).state = info.state
    BY <2>2, InfoShape
  <2> QED BY <2>1, <2>3
<1>4. CASE e = TxStarted
  <2>1. Model!InfoAfter(e) = Model!Info("Sending", TRUE, info.initFailed) /\ e # State("Error")
    BY <1>4 DEF Model!InfoAfter, TxStarted, State
  <2>2. "Sending" \in Model!RadioUiStates /\ info.initFailed \in BOOLEAN
    BY StatesThereAre
  <2>3. /\ Model!Info("Sending", TRUE, info.initFailed) \in Model!Infos
        /\ Model!Info("Sending", TRUE, info.initFailed).state = "Sending"
    BY <2>2, InfoShape
  <2> QED BY <2>1, <2>3
<1> QED BY <1>1, <1>2, <1>3, <1>4 DEF ScreenEvents

(* Nothing to hear, nothing to do.                                         *)
LEMMA NothingListed ==
  <<>> \in Seq(ScreenEvents) /\ <<>> \in Seq(ScreenCommands) /\ \A i \in 1..Len(<<>>) : FALSE
OBVIOUS

(* A script ends where it fails.                                           *)
ScriptShape(script) ==
  /\ script \in Seq(ScreenEvents) /\ script # <<>>
  /\ \A i \in 1..Len(script) :
       script[i] = State("Error") => i = Len(script) /\ Last(script) # State("Receiving")

LEMMA EventsThereAre ==
  /\ \A s \in {"Initializing", "Receiving", "Sending", "Error"} : State(s) \in ScreenEvents
  /\ \A op \in {"initialize", "receive", "restore receive"} : Error(op) \in ScreenEvents
  /\ Initialized \in ScreenEvents /\ TxStarted \in ScreenEvents
  /\ \A s \in {"Initializing", "Receiving", "Sending"} : State(s) # State("Error")
  /\ \A op \in {"initialize", "receive", "restore receive"} : Error(op) # State("Error")
  /\ Initialized # State("Error") /\ TxStarted # State("Error")
BY DEF ScreenEvents, State, Error, Initialized, TxStarted

LEMMA ScriptsEnd ==
  \A script \in {Opened, NotOpen, NotHeard, Sent, NotSent, Broken} : ScriptShape(script)
<1>1. ASSUME NEW a \in ScreenEvents, NEW b \in ScreenEvents, a # State("Error")
      PROVE  ScriptShape(<<a, b>>)
  <2> DEFINE script == <<a, b>>
  <2>1. /\ script \in Seq(ScreenEvents) /\ script # <<>> /\ Len(script) = 2
        /\ script[1] = a /\ script[2] = b
    OBVIOUS
  <2> HIDE DEF script
  <2>2. \A i \in 1..2 : i = 1 \/ i = 2
    OBVIOUS
  <2>3. Last(script) = b
    BY <2>1 DEF Last
  <2>4. ScriptShape(script)
    BY <1>1, <2>1, <2>2, <2>3, EventsThereAre DEF ScriptShape
  <2> QED BY <2>4 DEF script
<1>2. ASSUME NEW a \in ScreenEvents, NEW b \in ScreenEvents, NEW c \in ScreenEvents,
             a # State("Error"), b # State("Error")
      PROVE  ScriptShape(<<a, b, c>>)
  <2> DEFINE script == <<a, b, c>>
  <2>1. /\ script \in Seq(ScreenEvents) /\ script # <<>> /\ Len(script) = 3
        /\ script[1] = a /\ script[2] = b /\ script[3] = c
    OBVIOUS
  <2> HIDE DEF script
  <2>2. \A i \in 1..3 : i = 1 \/ i = 2 \/ i = 3
    OBVIOUS
  <2>3. Last(script) = c
    BY <2>1 DEF Last
  <2>4. ScriptShape(script)
    BY <1>2, <2>1, <2>2, <2>3, EventsThereAre DEF ScriptShape
  <2> QED BY <2>4 DEF script
<1>3. ASSUME NEW a \in ScreenEvents, NEW b \in ScreenEvents, NEW c \in ScreenEvents,
             NEW d \in ScreenEvents,
             a # State("Error"), b # State("Error"), c # State("Error")
      PROVE  ScriptShape(<<a, b, c, d>>)
  <2> DEFINE script == <<a, b, c, d>>
  <2>1. /\ script \in Seq(ScreenEvents) /\ script # <<>> /\ Len(script) = 4
        /\ script[1] = a /\ script[2] = b /\ script[3] = c /\ script[4] = d
    OBVIOUS
  <2> HIDE DEF script
  <2>2. \A i \in 1..4 : i = 1 \/ i = 2 \/ i = 3 \/ i = 4
    OBVIOUS
  <2>3. Last(script) = d
    BY <2>1 DEF Last
  <2>4. ScriptShape(script)
    BY <1>3, <2>1, <2>2, <2>3, EventsThereAre DEF ScriptShape
  <2> QED BY <2>4 DEF script
<1>4. ScriptShape(Broken)
  BY <1>1, EventsThereAre DEF Broken
<1>5. ScriptShape(Opened) /\ ScriptShape(NotOpen) /\ ScriptShape(Sent)
  BY <1>2, EventsThereAre DEF Opened, NotOpen, Sent
<1>6. ScriptShape(NotHeard) /\ ScriptShape(NotSent)
  BY <1>3, EventsThereAre DEF NotHeard, NotSent
<1> QED BY <1>4, <1>5, <1>6

(* What is to be heard once the worker has followed a script.              *)
LEMMA FollowedFeed ==
  ASSUME feed \in Seq(ScreenEvents), \A i \in 1..Len(feed) : feed[i] # State("Error"),
         NEW script, ScriptShape(script), Follow(script)
  PROVE  feed' \in Seq(ScreenEvents) /\ radio' \in {"up", "down"} /\ FeedShape'
<1>1. /\ script \in Seq(ScreenEvents) /\ script # <<>>
      /\ feed' = feed \o script
      /\ radio' = IF Last(script) = State("Receiving") THEN "up" ELSE "down"
  BY DEF Follow, ScriptShape
<1>2. /\ feed' \in Seq(ScreenEvents) /\ Len(feed') = Len(feed) + Len(script)
      /\ Len(feed) \in Nat /\ Len(script) \in Nat
      /\ \A i \in 1..Len(feed') : feed'[i] = IF i <= Len(feed) THEN feed[i]
                                             ELSE script[i - Len(feed)]
  BY <1>1
<1>3. ASSUME NEW i \in 1..Len(feed'), feed'[i] = State("Error")
      PROVE  i = Len(feed') /\ radio' = "down"
  <2>1. ~(i <= Len(feed))
    BY <1>2, <1>3
  <2>2. i - Len(feed) \in 1..Len(script) /\ script[i - Len(feed)] = State("Error")
    BY <1>2, <1>3, <2>1
  <2>3. i - Len(feed) = Len(script) /\ Last(script) # State("Receiving")
    BY <2>2 DEF ScriptShape
  <2> QED BY <1>1, <1>2, <2>3
<1> QED BY <1>1, <1>2, <1>3 DEF FeedShape

-----------------------------------------------------------------------------
(* The keys.                                                               *)

(* A key that the view model gets ends in one of its operations.           *)
EditorOps(key) ==
  \/ CancelEditor \/ EditDraft(key)
  \/ editor = "Message" /\ SendCompose
  \/ editor # "Message" /\ SaveDeviceName

LEMMA ViewModelMoves ==
  ASSUME Types, NEW key, ViewModelKey(key)
  PROVE  \/ UNCHANGED vmVars
         \/ dialog /\ Dismiss
         \/ (dialog \/ (~Modal /\ section = "Info" /\ info.state = "Error")) /\ RetryRadio
         \/ ~dialog /\ editor # "None" /\ EditorOps(key)
         \/ ~Modal /\ \E page \in {"Messages", "Info"} : GoTo(page)
         \/ ~Modal /\ \/ OpenEditor("Nickname", name)
                      \/ OpenEditor("Message", <<>>) \/ OpenEditor("Message", Typed(1))
<1>1. CASE dialog
  <2>1. DialogKey(key)
    BY <1>1 DEF ViewModelKey, Modal
  <2> QED BY <1>1, <2>1 DEF DialogKey
<1>2. CASE ~dialog /\ editor # "None"
  <2>1. EditorKey(key)
    BY <1>2 DEF ViewModelKey, Modal
  <2>2. EditorOps(key)
    BY <2>1 DEF EditorKey, EditorOps, Submit
  <2> QED BY <1>2, <2>2
<1>3. CASE ~Modal /\ section = "Info"
  <2>1. InfoKey(key)
    BY <1>3 DEF ViewModelKey, Modal
  <2> QED BY <1>3, <2>1 DEF InfoKey
<1>4. CASE ~Modal /\ section = "Messages"
  <2>1. MessagesKey(key)
    BY <1>4 DEF ViewModelKey, Modal
  <2> QED BY <1>4, <2>1 DEF MessagesKey
<1> QED BY <1>1, <1>2, <1>3, <1>4 DEF Modal, Types

(* What there is to know of texts: what of them is printable, those that   *)
(* are typed, and names.                                                   *)
LEMMA PlainPart ==
  ASSUME NEW t \in Seq(BOOLEAN)
  PROVE  /\ Plain(t) \in Nat /\ Plain(t) <= Len(t)
         /\ Odd(t) = {} => Plain(t) = Len(t) /\ t = Typed(Len(t))
<1>1. Len(t) \in Nat /\ DOMAIN t = 1..Len(t)
  OBVIOUS
<1>2. Odd(t) \subseteq 1..Len(t)
  BY <1>1 DEF Odd
<1>3. IsFiniteSet(1..Len(t)) /\ Cardinality(1..Len(t)) = Len(t)
  BY <1>1, FS_Interval
<1>4. Cardinality(Odd(t)) \in Nat /\ Cardinality(Odd(t)) <= Len(t)
  BY <1>2, <1>3, FS_Subset, FS_CardinalityType
<1>5. Plain(t) \in Nat /\ Plain(t) <= Len(t)
  BY <1>1, <1>4 DEF Plain
<1>6. ASSUME Odd(t) = {} PROVE Plain(t) = Len(t) /\ t = Typed(Len(t))
  <2>1. Plain(t) = Len(t)
    BY <1>1, <1>6, FS_EmptySet DEF Plain
  <2>2. \A i \in 1..Len(t) : t[i] = TRUE
    BY <1>1, <1>6 DEF Odd
  <2>3. t = Typed(Len(t))
    BY <1>1, <2>2 DEF Typed
  <2> QED BY <2>1, <2>3
<1> QED BY <1>5, <1>6

LEMMA TypedText ==
  ASSUME NEW n \in Nat
  PROVE  Typed(n) \in Seq(BOOLEAN) /\ Len(Typed(n)) = n /\ Odd(Typed(n)) = {} /\ Plain(Typed(n)) = n
<1>1. Typed(n) \in Seq(BOOLEAN) /\ Len(Typed(n)) = n
  BY DEF Typed
<1>2. Odd(Typed(n)) = {}
  BY DEF Typed, Odd
<1> QED BY <1>1, <1>2, PlainPart

LEMMA NoText == <<>> \in Seq(BOOLEAN) /\ Len(<<>>) = 0 /\ Odd(<<>>) = {} /\ Plain(<<>>) = 0
<1>1. <<>> \in Seq(BOOLEAN) /\ Len(<<>>) = 0
  OBVIOUS
<1>2. Odd(<<>>) = {}
  BY DEF Odd
<1> QED BY <1>1, <1>2, PlainPart

LEMMA NameText ==
  ASSUME NEW t \in Names
  PROVE  t \in Seq(BOOLEAN) /\ Len(t) \in Nat /\ Len(t) <= NameLimit
<1>1. PICK n \in 1..NameLimit : t \in [1..n -> BOOLEAN]
  BY DEF Names
<1>2. n \in Nat /\ n <= NameLimit
  BY <1>1, ScreenAssumption
<1> QED BY <1>1, <1>2

(* The keys of appendDraft() and eraseDraftCharacter() add what is         *)
(* printable.                                                              *)
LEMMA EditedText ==
  ASSUME NEW t \in Seq(BOOLEAN)
  PROVE  /\ /\ Append(t, TRUE) \in Seq(BOOLEAN) /\ Len(Append(t, TRUE)) = Len(t) + 1
            /\ Odd(Append(t, TRUE)) \subseteq Odd(t)
         /\ t # <<>> => /\ Front(t) \in Seq(BOOLEAN) /\ Len(Front(t)) = Len(t) - 1
                        /\ Odd(Front(t)) \subseteq Odd(t)
<1>1. /\ Append(t, TRUE) \in Seq(BOOLEAN) /\ Len(Append(t, TRUE)) = Len(t) + 1
      /\ DOMAIN Append(t, TRUE) = 1..Len(t) + 1
      /\ \A i \in 1..Len(t) : Append(t, TRUE)[i] = t[i]
      /\ Append(t, TRUE)[Len(t) + 1] = TRUE
      /\ DOMAIN t = 1..Len(t) /\ Len(t) \in Nat
  OBVIOUS
<1>2. \A i \in 1..Len(t) + 1 : i \in 1..Len(t) \/ i = Len(t) + 1
  BY <1>1
<1>3. Odd(Append(t, TRUE)) \subseteq Odd(t)
  BY <1>1, <1>2, Zenon DEF Odd
<1>4. ASSUME t # <<>>
      PROVE  /\ Front(t) \in Seq(BOOLEAN) /\ Len(Front(t)) = Len(t) - 1
             /\ DOMAIN Front(t) = 1..Len(t) - 1
             /\ \A i \in 1..Len(t) - 1 : Front(t)[i] = t[i]
  <2>1. Len(t) \in Nat /\ Len(t) >= 1
    BY <1>1, <1>4
  <2>2. Front(t) = SubSeq(t, 1, Len(t) - 1)
    BY DEF Front
  <2>3. Len(t) - 1 \in Nat /\ Len(t) - 1 <= Len(t)
    BY <2>1
  <2>4. \A n \in Nat : n <= Len(t) =>
          /\ SubSeq(t, 1, n) \in Seq(BOOLEAN) /\ Len(SubSeq(t, 1, n)) = n
          /\ DOMAIN SubSeq(t, 1, n) = 1..n
          /\ \A i \in 1..n : SubSeq(t, 1, n)[i] = t[i]
    OBVIOUS
  <2> QED BY <2>2, <2>3, <2>4
<1>5. ASSUME t # <<>> PROVE Odd(Front(t)) \subseteq Odd(t)
  <2>1. \A i \in 1..Len(t) - 1 : i \in 1..Len(t)
    BY <1>1
  <2> QED BY <1>1, <1>4, <1>5, <2>1, Zenon DEF Odd
<1> QED BY <1>1, <1>3, <1>4, <1>5

(* An operation that leaves the radio alone, and opens no dialog.          *)
RadioFrame == UNCHANGED <<app, ticking, news, info, lastFailed, feed, commands, radio>>

LEMMA RadioUntouched ==
  ASSUME ScreenCore, app = "running", RadioFrame,
         editor' \in {"None", "Message", "Nickname"}, dialog' \in BOOLEAN,
         section' \in {"Messages", "Info"}, inGroup' \in BOOLEAN, focusPending' \in BOOLEAN,
         dialog' => dialog, LayerShape', TextShape'
  PROVE  ScreenCore'
<1>1. Types'
  BY DEF ScreenCore, Types, RadioFrame
<1>2. Absences'
  BY DEF ScreenCore, Absences, RadioFrame
<1>3. FeedShape' /\ RetryShape'
  BY DEF ScreenCore, FeedShape, RetryShape, RadioFrame
<1>4. ErrorShape'
  BY DEF ScreenCore, ErrorShape, RadioFrame
<1>5. NewsShape'
  BY DEF ScreenCore, NewsShape, InitFailed, RadioFrame
<1> QED BY <1>1, <1>2, <1>3, <1>4, <1>5 DEF ScreenCore

(* Nothing that the screen knows changes.                                  *)
LEMMA ScreenUnchanged ==
  ASSUME ScreenCore, UNCHANGED <<app, ticking, news, vmVars>>
  PROVE  ScreenCore'
<1>0. Types /\ Absences
  BY DEF ScreenCore
<1>1. Types' /\ Absences'
  <2>1. Types'
    BY <1>0 DEF Types
  <2>2. Absences'
    BY <1>0 DEF Absences
  <2> QED BY <2>1, <2>2
<1>2. LayerShape' /\ TextShape'
  BY DEF ScreenCore, LayerShape, TextShape, InputLimit
<1>3. FeedShape' /\ RetryShape' /\ ErrorShape' /\ NewsShape'
  BY DEF ScreenCore, FeedShape, RetryShape, ErrorShape, NewsShape, InitFailed
<1> QED BY <1>1, <1>2, <1>3 DEF ScreenCore

LEMMA DismissKeeps ==
  ASSUME ScreenCore, app = "running", UNCHANGED <<app, ticking, news>>, Dismiss
  PROVE  ScreenCore'
<1>1. RadioFrame /\ UNCHANGED <<section, editor, textVars, focusVars>> /\ dialog' = FALSE
  BY DEF Dismiss, RadioFrame
<1>2. LayerShape' /\ TextShape'
  BY <1>1 DEF ScreenCore, LayerShape, TextShape, InputLimit
<1> QED BY <1>1, <1>2, RadioUntouched DEF ScreenCore, Types

LEMMA GoToKeeps ==
  ASSUME ScreenCore, app = "running", UNCHANGED <<app, ticking, news>>, ~Modal,
         NEW page \in {"Messages", "Info"}, GoTo(page)
  PROVE  ScreenCore'
<1>1. RadioFrame /\ UNCHANGED <<editor, dialog, textVars, focusVars>> /\ section' = page
  BY DEF GoTo, RadioFrame
<1>2. LayerShape' /\ TextShape'
  BY <1>1 DEF ScreenCore, LayerShape, TextShape, InputLimit, Modal
<1> QED BY <1>1, <1>2, RadioUntouched DEF ScreenCore, Types

LEMMA OpenEditorKeeps ==
  ASSUME ScreenCore, app = "running", UNCHANGED <<app, ticking, news>>, ~Modal,
         NEW mode \in {"Message", "Nickname"}, NEW text \in Seq(BOOLEAN), Len(text) <= NameLimit,
         Odd(text) \subseteq (IF mode = "Nickname" THEN Odd(name) ELSE {}),
         OpenEditor(mode, text)
  PROVE  ScreenCore'
<1>1. RadioFrame /\ UNCHANGED <<section, dialog, name, inGroup>>
  BY DEF OpenEditor, RadioFrame
<1>2. /\ editor' = mode /\ draft' = text /\ focusPending' = TRUE
      /\ maxLength' = IF mode = "Nickname" THEN NameLimit ELSE MessageLimit
      /\ input' = IF text = Typed(input) THEN input ELSE Least(Plain(text), maxLength)
  BY DEF OpenEditor, SetDraft, Shown
<1>3. LayerShape'
  BY <1>1, <1>2 DEF ScreenCore, LayerShape, Modal
<1>4. TextShape'
  <2>1. maxLength \in {NameLimit, MessageLimit} /\ name \in Names /\ input \in Nat
    BY DEF ScreenCore, TextShape
  <2>2. /\ Len(text) <= MessageLimit
        /\ Plain(text) \in Nat /\ Plain(text) <= NameLimit /\ Plain(text) <= MessageLimit
    <3>1. Len(text) \in Nat /\ Plain(text) \in Nat /\ Plain(text) <= Len(text)
      BY PlainPart
    <3> QED BY <3>1, ScreenAssumption
  <2>3. Least(Plain(text), maxLength) = Plain(text) /\ Least(Plain(text), maxLength') = Plain(text)
    BY <1>2, <2>1, <2>2, ScreenAssumption DEF Least
  <2>4. input' = Plain(text)
    BY <1>2, <2>1, <2>3, TypedText
  <2>5. maxLength' \in {NameLimit, MessageLimit}
    BY <1>2
  <2>6. InputLimit' = maxLength'
    BY <1>2 DEF InputLimit
  <2> QED BY <1>1, <1>2, <2>1, <2>2, <2>3, <2>4, <2>5, <2>6 DEF TextShape
<1> QED BY <1>1, <1>2, <1>3, <1>4, RadioUntouched DEF ScreenCore, Types

(* The editor closes.                                                      *)
LEMMA CloseKeepsText ==
  ASSUME ScreenCore, CloseEditor, name' \in Names
  PROVE  TextShape' /\ editor' = "None" /\ inGroup' = FALSE /\ focusPending' = FALSE
<1>1. /\ draft' = <<>> /\ editor' = "None" /\ maxLength' = maxLength
      /\ input' \in {input, Least(Plain(<<>>), maxLength)}
  BY DEF CloseEditor, SetDraft, Shown
<1>2. input' \in Nat
  BY <1>1, NoText, ScreenAssumption DEF Least, ScreenCore, TextShape
<1> QED BY <1>1, <1>2, NoText, ScreenAssumption DEF CloseEditor, ScreenCore, TextShape

LEMMA CancelKeeps ==
  ASSUME ScreenCore, app = "running", UNCHANGED <<app, ticking, news>>, ~dialog, CancelEditor
  PROVE  ScreenCore'
<1>1. RadioFrame /\ UNCHANGED <<section, dialog, name>> /\ CloseEditor
  BY DEF CancelEditor, RadioFrame
<1>2. TextShape' /\ editor' = "None" /\ inGroup' = FALSE /\ focusPending' = FALSE
  BY <1>1, CloseKeepsText DEF ScreenCore, TextShape
<1>3. LayerShape'
  BY <1>1, <1>2 DEF LayerShape
<1> QED BY <1>1, <1>2, <1>3, RadioUntouched DEF ScreenCore, Types

LEMMA SaveKeeps ==
  ASSUME ScreenCore, app = "running", UNCHANGED <<app, ticking, news>>, ~dialog, SaveDeviceName
  PROVE  ScreenCore'
<1>1. CASE UNCHANGED vmVars
  BY <1>1, ScreenUnchanged
<1>2. CASE draft \in Names /\ name' = draft /\ CloseEditor
           /\ UNCHANGED <<section, dialog, edgeVars, info, workerVars>>
  <2>1. RadioFrame /\ UNCHANGED <<section, dialog>> /\ name' \in Names
    BY <1>2 DEF RadioFrame
  <2>2. TextShape' /\ editor' = "None" /\ inGroup' = FALSE /\ focusPending' = FALSE
    BY <1>2, <2>1, CloseKeepsText
  <2>3. LayerShape'
    BY <2>1, <2>2 DEF LayerShape
  <2> QED BY <2>1, <2>2, <2>3, RadioUntouched DEF ScreenCore, Types
<1> QED BY <1>1, <1>2 DEF SaveDeviceName

(* A key before the text area has the focus.                               *)
LEMMA EditDraftKeeps ==
  ASSUME ScreenCore, app = "running", UNCHANGED <<app, ticking, news>>,
         editor # "None", NEW key, EditDraft(key)
  PROVE  ScreenCore'
<1> DEFINE d == CASE key = "erase" /\ draft # <<>> -> Front(draft)
                  [] key \in Printable /\ Len(draft) < MessageLimit -> Append(draft, TRUE)
                  [] OTHER -> draft
<1>1. /\ RadioFrame /\ UNCHANGED <<layerVars, name, maxLength, focusVars>>
      /\ draft' = d
      /\ input' = IF d = Typed(input) THEN input ELSE Least(Plain(d), maxLength)
  BY DEF EditDraft, SetDraft, RadioFrame, Shown
<1>2. d \in Seq(BOOLEAN) /\ Len(d) <= MessageLimit /\ Odd(d) \subseteq Odd(draft)
  <2>1. draft \in Seq(BOOLEAN) /\ Len(draft) \in Nat /\ Len(draft) <= MessageLimit
    BY DEF ScreenCore, TextShape
  <2>2. CASE key = "erase" /\ draft # <<>>
    <3>1. d = Front(draft)
      BY <2>2 DEF Printable
    <3>2. Len(draft) - 1 <= MessageLimit
      BY <2>1, ScreenAssumption
    <3> QED BY <2>1, <2>2, <3>1, <3>2, EditedText
  <2>3. CASE key \in Printable /\ Len(draft) < MessageLimit
    <3>1. d = Append(draft, TRUE)
      BY <2>3 DEF Printable
    <3>2. Len(draft) + 1 <= MessageLimit
      BY <2>1, <2>3, ScreenAssumption
    <3>3. /\ Append(draft, TRUE) \in Seq(BOOLEAN) /\ Len(Append(draft, TRUE)) = Len(draft) + 1
          /\ Odd(Append(draft, TRUE)) \subseteq Odd(draft)
      BY <2>1, EditedText
    <3> HIDE DEF d
    <3> QED BY <3>1, <3>2, <3>3
  <2>4. CASE ~(key = "erase" /\ draft # <<>>) /\ ~(key \in Printable /\ Len(draft) < MessageLimit)
    BY <2>1, <2>4
  <2> QED BY <2>2, <2>3, <2>4
<1> HIDE DEF d
<1>3. LayerShape'
  BY <1>1 DEF ScreenCore, LayerShape
<1>4. TextShape'
  <2>1. /\ maxLength = InputLimit /\ input = Least(Plain(draft), maxLength) /\ input \in Nat
        /\ maxLength \in {NameLimit, MessageLimit} /\ name \in Names
        /\ Odd(draft) \subseteq (IF editor = "Nickname" THEN Odd(name) ELSE {})
    BY DEF ScreenCore, TextShape
  <2>2. input <= maxLength
    <3>1. Plain(draft) \in Nat
      BY PlainPart DEF ScreenCore, TextShape
    <3> QED BY <2>1, <3>1, ScreenAssumption DEF Least
  <2>3. input' = Least(Plain(d), maxLength) /\ input' \in Nat
    <3>1. Plain(d) \in Nat
      BY <1>2, PlainPart
    <3>2. d = Typed(input) => Plain(d) = input
      BY <2>1, TypedText
    <3>3. maxLength \in Nat
      BY <2>1, ScreenAssumption
    <3> QED BY <1>1, <2>1, <2>2, <3>1, <3>2, <3>3 DEF Least
  <2>4. InputLimit' = InputLimit /\ editor' = editor
    BY <1>1 DEF InputLimit
  <2> QED BY <1>1, <1>2, <2>1, <2>3, <2>4 DEF TextShape
<1> QED BY <1>1, <1>3, <1>4, RadioUntouched DEF ScreenCore, Types

(* A key after that.                                                       *)
LEMMA EditInputKeeps ==
  ASSUME ScreenCore, app = "running", UNCHANGED <<app, ticking, news>>,
         Focused, NEW key, EditInput(key)
  PROVE  ScreenCore'
<1>1. CASE UNCHANGED vmVars
  BY <1>1, ScreenUnchanged
<1>2. CASE /\ \/ key \in Printable /\ input < Least(InputLimit, maxLength) /\ input' = input + 1
              \/ key = "erase" /\ input > 0 /\ input' = input - 1
           /\ draft' = Typed(Least(input', MessageLimit))
           /\ UNCHANGED <<layerVars, edgeVars, info, name, maxLength, focusVars, workerVars>>
  <2>1. RadioFrame
    BY <1>2 DEF RadioFrame
  <2>2. LayerShape'
    BY <1>2 DEF ScreenCore, LayerShape
  <2>3. TextShape'
    <3>1. editor # "None"
      BY DEF ScreenCore, LayerShape, Focused
    <3>2. /\ maxLength = InputLimit /\ input = Least(Plain(draft), maxLength) /\ input \in Nat
          /\ maxLength \in {NameLimit, MessageLimit} /\ name \in Names /\ Plain(draft) \in Nat
      BY <3>1, PlainPart DEF ScreenCore, TextShape
    <3>3. input \in 0..maxLength /\ maxLength \in 0..MessageLimit
      BY <3>2, ScreenAssumption DEF Least
    <3>4. input' \in 0..maxLength
      BY <1>2, <3>2, <3>3 DEF Least
    <3>5. /\ draft' \in Seq(BOOLEAN) /\ Len(draft') <= MessageLimit /\ Odd(draft') = {}
          /\ input' \in Nat /\ input' = Least(Plain(draft'), maxLength)
      <4>1. input' \in Nat /\ input' <= maxLength /\ maxLength <= MessageLimit /\ MessageLimit \in Nat
            /\ maxLength \in Nat
        BY <3>3, <3>4, ScreenAssumption
      <4>2. Least(input', MessageLimit) = input' /\ Least(input', maxLength) = input'
        BY <4>1 DEF Least
      <4>3. /\ draft' \in Seq(BOOLEAN) /\ Len(draft') = input'
            /\ Odd(draft') = {} /\ Plain(draft') = input'
        BY <1>2, <4>1, <4>2, TypedText
      <4> QED BY <4>1, <4>2, <4>3
    <3>6. InputLimit' = InputLimit
      BY <1>2 DEF InputLimit
    <3> QED BY <1>2, <3>2, <3>5, <3>6 DEF TextShape
  <2> QED BY <1>2, <2>1, <2>2, <2>3, RadioUntouched DEF ScreenCore, Types
<1> QED BY <1>1, <1>2 DEF EditInput

(* A message is posted while the radio is ready: no retry is under way.    *)
LEMMA SendKeeps ==
  ASSUME ScreenCore, app = "running", UNCHANGED <<app, ticking, news>>, ~dialog, SendCompose
  PROVE  ScreenCore'
<1>1. CASE UNCHANGED vmVars
  BY <1>1, ScreenUnchanged
<1>2. CASE /\ draft # <<>> /\ info.ready /\ MayPost
           /\ commands' = Append(commands, "send")
           /\ CloseEditor /\ section' = "Messages"
           /\ UNCHANGED <<dialog, edgeVars, info, name, feed, radio>>
  <2>1. TextShape' /\ editor' = "None" /\ inGroup' = FALSE /\ focusPending' = FALSE
    BY <1>2, CloseKeepsText DEF ScreenCore, TextShape
  <2>2. LayerShape'
    BY <1>2, <2>1 DEF LayerShape
  <2>3. /\ commands \in Seq(ScreenCommands) /\ Len(commands) \in Nat
        /\ commands' \in Seq(ScreenCommands) /\ Len(commands') = Len(commands) + 1
        /\ commands'[Len(commands) + 1] = "send"
        /\ \A i \in 1..Len(commands) : commands'[i] = commands[i]
    BY <1>2 DEF ScreenCore, Types, ScreenCommands
  <2>4. Types'
    BY <1>2, <2>1, <2>3 DEF ScreenCore, Types
  <2>5. Absences'
    BY <1>2, <2>1 DEF ScreenCore, Absences, MayPost
  <2>6. FeedShape' /\ ErrorShape'
    BY <1>2 DEF ScreenCore, FeedShape, ErrorShape
  <2>7. \A i \in 1..Len(commands') : commands'[i] # "retry"
    <3>1. \A i \in 1..Len(commands) : commands[i] # "retry"
      BY <1>2 DEF ScreenCore, RetryShape
    <3> QED BY <2>3, <3>1
  <2>8. RetryShape'
    BY <2>7 DEF RetryShape
  <2>9. NewsShape'
    BY <1>2 DEF ScreenCore, NewsShape, InitFailed
  <2> QED BY <2>1, <2>2, <2>4, <2>5, <2>6, <2>8, <2>9 DEF ScreenCore
<1> QED BY <1>1, <1>2 DEF SendCompose

(* A retry is asked for when all has been heard.                           *)
LEMMA RetryKeeps ==
  ASSUME ScreenCore, Free, UNCHANGED <<app, ticking, news>>,
         dialog \/ (~Modal /\ section = "Info" /\ info.state = "Error"), RetryRadio
  PROVE  ScreenCore'
<1>0. /\ info.state = "Error" /\ feed = <<>> /\ radio # "up" /\ ~news /\ ~ticking
      /\ editor = "None" /\ section = "Info" /\ app = "running"
      /\ \A i \in 1..Len(commands) : commands[i] # "retry"
  BY DEF ScreenCore, ErrorShape, NewsShape, LayerShape, RetryShape, Modal, Free
<1>1. PICK accepted \in BOOLEAN :
        /\ info' = Model!Info(IF accepted THEN "Initializing" ELSE "Error", FALSE, FALSE)
        /\ dialog' = ~accepted
        /\ IF radio = "none"
           THEN /\ accepted => \E script \in Scripts("retry") : Follow(script)
                /\ ~accepted => UNCHANGED <<feed, radio>>
                /\ UNCHANGED commands
           ELSE /\ accepted = MayPost
                /\ commands' = IF accepted THEN Append(commands, "retry") ELSE commands
                /\ UNCHANGED <<feed, radio>>
  BY DEF RetryRadio, Model!ModelRetry
<1>2. /\ lastFailed' = FALSE /\ UNCHANGED <<section, editor, lastState, textVars, focusVars>>
  BY DEF RetryRadio, EdgeForgotten
<1>3. /\ info' \in Model!Infos /\ ~info'.ready /\ ~info'.initFailed
      /\ info'.state = IF accepted THEN "Initializing" ELSE "Error"
  <2>1. CASE accepted
    BY <1>1, <2>1, InfoShape, StatesThereAre
  <2>2. CASE ~accepted
    BY <1>1, <2>2, InfoShape, StatesThereAre
  <2> QED BY <2>1, <2>2
<1>4. LayerShape' /\ TextShape'
  BY <1>0, <1>2, <1>3 DEF ScreenCore, LayerShape, TextShape, InputLimit
<1>5. NewsShape'
  BY <1>0, <1>2, <1>3 DEF ScreenCore, NewsShape, InitFailed
<1>6. CASE radio = "none" /\ accepted
  <2>1. PICK script \in {Opened, NotOpen, NotHeard} : Follow(script)
    BY <1>1, <1>6 DEF Scripts
  <2>2. feed' \in Seq(ScreenEvents) /\ radio' \in {"up", "down"} /\ FeedShape'
    BY <1>0, <2>1, ScriptsEnd, FollowedFeed DEF ScreenCore, Types
  <2>3. commands' = <<>> /\ commands' \in Seq(ScreenCommands)
    BY <1>1, <1>6 DEF ScreenCore, Absences
  <2>4. Types'
    BY <1>1, <1>2, <1>3, <2>2, <2>3 DEF ScreenCore, Types
  <2>5. Absences' /\ RetryShape' /\ ErrorShape'
    BY <1>0, <1>1, <1>3, <1>6, <2>2, <2>3 DEF Absences, RetryShape, ErrorShape
  <2> QED BY <1>4, <1>5, <2>2, <2>4, <2>5 DEF ScreenCore
<1>7. CASE radio # "none" /\ accepted
  <2>1. radio = "down" /\ radio' = "down" /\ feed' = <<>>
    BY <1>0, <1>1, <1>7 DEF ScreenCore, Types
  <2>2. /\ commands \in Seq(ScreenCommands) /\ Len(commands) \in Nat
        /\ commands' \in Seq(ScreenCommands) /\ Len(commands') = Len(commands) + 1
        /\ \A i \in 1..Len(commands) : commands'[i] = commands[i]
    <3>1. commands \in Seq(ScreenCommands) /\ "retry" \in ScreenCommands
      BY DEF ScreenCore, Types, ScreenCommands
    <3>2. commands' = Append(commands, "retry")
      BY <1>1, <1>7
    <3> QED BY <3>1, <3>2
  <2>3. Types'
    BY <1>1, <1>2, <1>3, <2>1, <2>2 DEF ScreenCore, Types
  <2>4. Absences'
    BY <1>0, <2>1 DEF Absences
  <2>5. FeedShape'
    BY <1>0, <2>1 DEF FeedShape
  <2>6. ErrorShape'
    BY <1>1, <1>3, <1>7 DEF ErrorShape
  <2>7. RetryShape'
    BY <1>0, <1>3, <1>7, <2>1, <2>2 DEF RetryShape
  <2> QED BY <1>4, <1>5, <2>3, <2>4, <2>5, <2>6, <2>7 DEF ScreenCore
<1>8. CASE ~accepted
  <2>1. UNCHANGED <<feed, radio, commands>>
    BY <1>1, <1>8
  <2>2. Types'
    BY <1>1, <1>2, <1>3, <2>1 DEF ScreenCore, Types
  <2>3. Absences'
    BY <1>0, <1>2, <2>1 DEF ScreenCore, Absences
  <2>4. FeedShape'
    BY <1>0, <2>1 DEF FeedShape
  <2>5. ErrorShape'
    BY <1>0, <1>3, <1>8, <2>1 DEF ErrorShape
  <2>6. RetryShape'
    BY <1>0, <2>1 DEF RetryShape
  <2> QED BY <1>4, <1>5, <2>2, <2>3, <2>4, <2>5, <2>6 DEF ScreenCore
<1> QED BY <1>6, <1>7, <1>8

(* Whatever is open, a key leaves the screen as it should be.              *)
LEMMA ViewModelKeyKeeps ==
  ASSUME ScreenCore, Free, UNCHANGED <<app, ticking, news>>, NEW key, ViewModelKey(key)
  PROVE  ScreenCore'
<1>0. /\ app = "running" /\ Types
      /\ name \in Seq(BOOLEAN) /\ Len(name) <= NameLimit
      /\ <<>> \in Seq(BOOLEAN) /\ Len(<<>>) <= NameLimit /\ Odd(<<>>) = {}
      /\ Typed(1) \in Seq(BOOLEAN) /\ Len(Typed(1)) <= NameLimit /\ Odd(Typed(1)) = {}
  <2>1. app = "running" /\ Types /\ name \in Names
    BY DEF Free, ScreenCore, TextShape
  <2>2. name \in Seq(BOOLEAN) /\ Len(name) <= NameLimit
    BY <2>1, NameText
  <2>3. NameLimit \in Nat /\ NameLimit >= 1 /\ 1 \in Nat
    BY ScreenAssumption
  <2>4. <<>> \in Seq(BOOLEAN) /\ Len(<<>>) <= NameLimit /\ Odd(<<>>) = {}
    BY <2>3, NoText
  <2>5. Typed(1) \in Seq(BOOLEAN) /\ Len(Typed(1)) = 1 /\ Odd(Typed(1)) = {}
    BY <2>3, TypedText
  <2> QED BY <2>1, <2>2, <2>3, <2>4, <2>5
<1>1. CASE UNCHANGED vmVars
  BY <1>1, ScreenUnchanged
<1>2. CASE dialog /\ Dismiss
  BY <1>0, <1>2, DismissKeeps
<1>3. CASE (dialog \/ (~Modal /\ section = "Info" /\ info.state = "Error")) /\ RetryRadio
  BY <1>3, RetryKeeps
<1>4. CASE ~dialog /\ editor # "None" /\ EditorOps(key)
  BY <1>0, <1>4, CancelKeeps, EditDraftKeeps, SendKeeps, SaveKeeps DEF EditorOps
<1>5. CASE ~Modal /\ \E page \in {"Messages", "Info"} : GoTo(page)
  BY <1>0, <1>5, GoToKeeps
<1>6. CASE ~Modal /\ \/ OpenEditor("Nickname", name)
                     \/ OpenEditor("Message", <<>>) \/ OpenEditor("Message", Typed(1))
  BY <1>0, <1>6, OpenEditorKeeps
<1> QED BY <1>0, <1>1, <1>2, <1>3, <1>4, <1>5, <1>6, ViewModelMoves

-----------------------------------------------------------------------------
(* The steps.                                                              *)

LEMMA KeyKeeps ==
  ASSUME ScreenInv, NEW key, Key(key)
  PROVE  ScreenInv'
<1>1. /\ Free /\ app = "running" /\ UNCHANGED <<app, ticking, news, help, helpPressed, hold, escDown>>
      /\ (Focused /\ EditInput(key)) \/ ViewModelKey(key)
  BY DEF Key, Free
<1>2. ScreenCore'
  BY <1>1, EditInputKeeps, ViewModelKeyKeeps DEF ScreenInv
<1>3. KeyShape'
  BY <1>1 DEF ScreenInv, KeyShape
<1> QED BY <1>2, <1>3 DEF ScreenInv

LEMMA EscDownKeeps ==
  ASSUME ScreenInv, EscDown
  PROVE  ScreenInv'
<1>1. Free /\ UNCHANGED <<app, ticking, news>> /\ escDown' = TRUE
  BY DEF EscDown
<1>2. UNCHANGED vmVars \/ ViewModelKey("esc")
  BY DEF EscDown, EscPressed, ScreenInv, KeyShape
<1>3. help' \in BOOLEAN /\ hold' \in {"off", "armed", "hint"}
  BY DEF EscDown, EscPressed, ScreenInv, KeyShape
<1>4. ScreenCore'
  BY <1>1, <1>2, ScreenUnchanged, ViewModelKeyKeeps DEF ScreenInv
<1> QED BY <1>1, <1>3, <1>4 DEF ScreenInv, KeyShape

LEMMA EscUpKeeps ==
  ASSUME ScreenInv, EscUp
  PROVE  ScreenInv'
<1>1. ScreenCore'
  BY ScreenUnchanged DEF EscUp, ScreenInv
<1>2. KeyShape'
  BY DEF EscUp, ScreenInv, KeyShape
<1> QED BY <1>1, <1>2 DEF ScreenInv

LEMMA HelpKeeps ==
  ASSUME ScreenInv, HelpDown \/ HelpUp
  PROVE  ScreenInv'
<1>1. ScreenCore'
  BY ScreenUnchanged DEF HelpDown, HelpUp, ScreenInv
<1>2. KeyShape'
  BY DEF HelpDown, HelpUp, ScreenInv, KeyShape
<1> QED BY <1>1, <1>2 DEF ScreenInv

LEMMA TickBeginKeeps ==
  ASSUME ScreenInv, TickBegin
  PROVE  ScreenInv'
<1>1. ticking' = TRUE /\ UNCHANGED <<uiVars, workerVars, news>> /\ app = "running"
  BY DEF TickBegin, Free
<1>2. Types' /\ Absences'
  BY <1>1 DEF ScreenInv, ScreenCore, Types, Absences
<1>3. LayerShape' /\ TextShape'
  BY <1>1 DEF ScreenInv, ScreenCore, LayerShape, TextShape, InputLimit
<1>4. FeedShape' /\ RetryShape' /\ ErrorShape' /\ NewsShape'
  BY <1>1 DEF ScreenInv, ScreenCore, FeedShape, RetryShape, ErrorShape, NewsShape, InitFailed
<1>5. KeyShape'
  BY <1>1 DEF ScreenInv, KeyShape
<1> QED BY <1>2, <1>3, <1>4, <1>5 DEF ScreenInv, ScreenCore

(* While there are events to take the radio has not failed for the user.   *)
LEMMA TickEventKeeps ==
  ASSUME ScreenInv, TickEvent
  PROVE  ScreenInv'
<1> DEFINE e == Head(feed)
<1>1. /\ ticking /\ feed # <<>> /\ feed' = Tail(feed) /\ info' = Model!InfoAfter(e)
      /\ news' = (~info'.ready /\ (news \/ (e = State("Error") /\ InitFailed(info'))))
      /\ UNCHANGED <<app, ticking, layerVars, edgeVars, textVars, focusVars, keyVars,
                     commands, radio>>
  BY DEF TickEvent
<1>2. /\ app = "running" /\ info.state # "Error" /\ ~dialog /\ ~news /\ ~lastFailed
      /\ radio # "none" /\ \A i \in 1..Len(commands) : commands[i] # "retry"
  BY <1>1 DEF ScreenInv, ScreenCore, Absences, ErrorShape, NewsShape, InitFailed, RetryShape, Types
<1>3. /\ feed \in Seq(ScreenEvents) /\ e \in ScreenEvents /\ e = feed[1]
      /\ feed' \in Seq(ScreenEvents) /\ Len(feed') = Len(feed) - 1
      /\ Len(feed) \in Nat /\ Len(feed) >= 1
      /\ \A i \in 1..Len(feed') : feed'[i] = feed[i + 1] /\ i + 1 \in 1..Len(feed)
  BY <1>1 DEF ScreenInv, ScreenCore, Types
<1> HIDE DEF e
<1>4. /\ info' \in Model!Infos
      /\ e = State("Error") => info'.state = "Error" /\ ~info'.ready
      /\ e # State("Error") => info'.state # "Error"
  <2>1. info \in Model!Infos
    BY DEF ScreenInv, ScreenCore, Types
  <2> QED BY <1>1, <1>2, <1>3, <2>1, InfoAfterEvent
<1>5. e = State("Error") => radio = "down" /\ feed' = <<>>
  <2>1. 1 \in 1..Len(feed)
    BY <1>3
  <2>2. e = State("Error") => radio = "down" /\ Len(feed) = 1
    BY <1>3, <2>1 DEF ScreenInv, ScreenCore, FeedShape
  <2>3. Len(feed') = 0 => feed' = <<>>
    BY <1>3
  <2> QED BY <1>3, <2>2, <2>3
<1>6. Types'
  <2>1. news' \in BOOLEAN
    BY <1>1
  <2> QED BY <1>1, <1>3, <1>4, <2>1 DEF ScreenInv, ScreenCore, Types
<1>7. Absences'
  BY <1>1, <1>2 DEF Absences
<1>8. LayerShape' /\ TextShape'
  BY <1>1, <1>2 DEF ScreenInv, ScreenCore, LayerShape, TextShape, InputLimit
<1>9. FeedShape'
  <2>1. ASSUME NEW i \in 1..Len(feed'), feed'[i] = State("Error")
        PROVE  i = Len(feed') /\ radio = "down"
    <3>1. i + 1 \in 1..Len(feed) /\ feed[i + 1] = State("Error")
      BY <1>3, <2>1
    <3>2. i + 1 = Len(feed) /\ radio = "down"
      BY <3>1 DEF ScreenInv, ScreenCore, FeedShape
    <3> QED BY <1>3, <3>2
  <2> QED BY <1>1, <2>1 DEF FeedShape
<1>10. RetryShape'
  BY <1>1, <1>2 DEF RetryShape
<1>11. ErrorShape'
  BY <1>1, <1>2, <1>4, <1>5 DEF ErrorShape
<1>12. NewsShape'
  BY <1>1, <1>2, <1>4 DEF NewsShape, InitFailed
<1>13. KeyShape'
  BY <1>1 DEF ScreenInv, KeyShape
<1> QED BY <1>6, <1>7, <1>8, <1>9, <1>10, <1>11, <1>12, <1>13 DEF ScreenInv, ScreenCore

(* At its end a dialog tells what is news.                                 *)
LEMMA TickEndKeeps ==
  ASSUME ScreenInv, TickEnd
  PROVE  ScreenInv'
<1>1. /\ ticking /\ ticking' = FALSE
      /\ section' = IF FailureBegins \/ ErrorBegins THEN "Info" ELSE section
      /\ dialog' = ((dialog \/ FailureBegins) /\ ~info.ready)
      /\ lastFailed' = InitFailed(info) /\ news' = (news /\ ~dialog')
      /\ UNCHANGED <<app, info, name, help, helpPressed, escDown, workerVars>>
  BY DEF TickEnd, DialogAfterTick
<1>2. /\ app = "running" /\ section \in {"Messages", "Info"}
  BY <1>1 DEF ScreenInv, ScreenCore, Absences, Types
<1>3. news => dialog'
  BY <1>1, <1>2 DEF ScreenInv, ScreenCore, NewsShape, FailureBegins, ErrorShape, InitFailed
<1>4. /\ TextShape' /\ editor' \in {"None", editor} /\ (dialog' => editor' = "None")
      /\ inGroup' \in BOOLEAN /\ focusPending' \in BOOLEAN
      /\ inGroup' \/ focusPending' => editor' # "None"
  <2>0. /\ editor \in {"None", "Message", "Nickname"} /\ inGroup \in BOOLEAN
        /\ focusPending \in BOOLEAN
        /\ dialog => editor = "None"
        /\ inGroup \/ focusPending => editor # "None"
    BY DEF ScreenInv, ScreenCore, Types, LayerShape
  <2>1. CASE FailureBegins /\ editor # "None"
    <3>1. CloseEditor
      BY <2>1 DEF TickEnd
    <3>2. TextShape' /\ editor' = "None" /\ inGroup' = FALSE /\ focusPending' = FALSE
      BY <1>1, <3>1, CloseKeepsText DEF ScreenInv, ScreenCore, TextShape
    <3> QED BY <3>2
  <2>2. CASE ~(FailureBegins /\ editor # "None")
    <3>1. /\ inGroup' = (inGroup \/ focusPending) /\ focusPending' = FALSE
          /\ UNCHANGED <<editor, draft, input, maxLength>>
      BY <2>2 DEF TickEnd
    <3>2. TextShape'
      BY <1>1, <3>1 DEF ScreenInv, ScreenCore, TextShape, InputLimit
    <3>3. dialog' => dialog \/ FailureBegins
      BY <1>1
    <3>4. editor' = editor
      BY <3>1
    <3>5. FailureBegins => editor = "None"
      BY <2>2
    <3>6. dialog' => editor' = "None"
      BY <2>0, <3>3, <3>4, <3>5
    <3> QED BY <2>0, <3>1, <3>2, <3>6
  <2> QED BY <2>1, <2>2
<1>5. LayerShape'
  <2>1. dialog' => section' = "Info" /\ ~info'.ready
    BY <1>1 DEF ScreenInv, ScreenCore, LayerShape
  <2> QED BY <1>4, <2>1 DEF LayerShape
<1>6. Types'
  <2>1. dialog' \in BOOLEAN /\ lastFailed' \in BOOLEAN /\ news' \in BOOLEAN
    BY <1>1 DEF InitFailed
  <2>2. editor' \in {"None", "Message", "Nickname"} /\ section' \in {"Messages", "Info"}
    BY <1>1, <1>2, <1>4 DEF ScreenInv, ScreenCore, Types
  <2> QED BY <1>1, <1>4, <2>1, <2>2 DEF ScreenInv, ScreenCore, Types
<1>7. Absences'
  BY <1>1, <1>2 DEF ScreenInv, ScreenCore, Absences
<1>8. FeedShape' /\ RetryShape'
  BY <1>1 DEF ScreenInv, ScreenCore, FeedShape, RetryShape
<1>9. ErrorShape'
  BY <1>1 DEF ScreenInv, ScreenCore, ErrorShape, FailureBegins, InitFailed
<1>10. NewsShape'
  BY <1>1, <1>3 DEF NewsShape, InitFailed
<1>11. KeyShape'
  <2>1. hold' \in {"off", hold} \/ (hold = "armed" /\ hold' = "hint")
    BY DEF TickEnd
  <2> QED BY <1>1, <2>1 DEF ScreenInv, KeyShape
<1> QED BY <1>4, <1>5, <1>6, <1>7, <1>8, <1>9, <1>10, <1>11 DEF ScreenInv, ScreenCore

(* The worker follows a script, of a radio that has not failed for the     *)
(* user.                                                                   *)
LEMMA FollowKeeps ==
  ASSUME ScreenInv, UNCHANGED <<uiVars, ticking, news>>, radio # "none",
         \A i \in 1..Len(feed) : feed[i] # State("Error"), info.state # "Error",
         NEW script, ScriptShape(script), Follow(script),
         commands' \in Seq(ScreenCommands), \A i \in 1..Len(commands') : commands'[i] # "retry"
  PROVE  ScreenInv'
<1>1. app = "running" /\ feed \in Seq(ScreenEvents)
  BY DEF ScreenInv, ScreenCore, Absences, Types
<1>2. feed' \in Seq(ScreenEvents) /\ radio' \in {"up", "down"} /\ FeedShape'
  BY <1>1, FollowedFeed
<1>3. Types'
  BY <1>2 DEF ScreenInv, ScreenCore, Types
<1>4. Absences'
  BY <1>1, <1>2 DEF Absences
<1>5. LayerShape' /\ TextShape'
  BY DEF ScreenInv, ScreenCore, LayerShape, TextShape, InputLimit
<1>6. RetryShape' /\ ErrorShape' /\ NewsShape'
  BY DEF ScreenInv, ScreenCore, RetryShape, ErrorShape, NewsShape, InitFailed
<1>7. KeyShape'
  BY DEF ScreenInv, KeyShape
<1> QED BY <1>2, <1>3, <1>4, <1>5, <1>6, <1>7 DEF ScreenInv, ScreenCore

LEMMA WorkerTakesKeeps ==
  ASSUME ScreenInv, WorkerTakes
  PROVE  ScreenInv'
<1>1. /\ commands # <<>> /\ commands' = Tail(commands) /\ UNCHANGED <<uiVars, ticking, news>>
      /\ \E script \in Scripts(Head(commands)) : Follow(script)
  BY DEF WorkerTakes
<1>2. /\ commands \in Seq(ScreenCommands) /\ Head(commands) \in ScreenCommands
      /\ Head(commands) = commands[1] /\ 1 \in 1..Len(commands)
      /\ commands' \in Seq(ScreenCommands) /\ Len(commands') = Len(commands) - 1
      /\ Len(commands) \in Nat
      /\ \A i \in 1..Len(commands') : commands'[i] = commands[i + 1] /\ i + 1 \in 1..Len(commands)
  BY <1>1 DEF ScreenInv, ScreenCore, Types
<1>3. radio \in {"up", "down"} /\ app = "running"
  BY <1>1 DEF ScreenInv, ScreenCore, Types, Absences
<1>4. CASE Head(commands) = "retry"
  <2>1. /\ Len(commands) = 1 /\ feed = <<>> /\ radio = "down" /\ info.state = "Initializing"
    BY <1>2, <1>4 DEF ScreenInv, ScreenCore, RetryShape
  <2>2. PICK script \in {Opened, NotOpen, NotHeard} : Follow(script)
    BY <1>1, <1>4 DEF Scripts
  <2>3. \A i \in 1..Len(commands') : commands'[i] # "retry"
    BY <1>2, <2>1
  <2>4. \A i \in 1..Len(feed) : feed[i] # State("Error")
    BY <2>1
  <2> QED BY <1>1, <1>2, <2>1, <2>2, <2>3, <2>4, ScriptsEnd, FollowKeeps
<1>5. CASE Head(commands) = "send" /\ radio = "up"
  <2>1. PICK script \in {Sent, NotSent} : Follow(script)
    BY <1>1, <1>5 DEF Scripts
  <2>2. \A i \in 1..Len(commands) : commands[i] # "retry"
    BY <1>5 DEF ScreenInv, ScreenCore, RetryShape
  <2>3. \A i \in 1..Len(commands') : commands'[i] # "retry"
    BY <1>2, <2>2
  <2>4. info.state # "Error" /\ \A i \in 1..Len(feed) : feed[i] # State("Error")
    BY <1>5 DEF ScreenInv, ScreenCore, ErrorShape, FeedShape
  <2> QED BY <1>1, <1>2, <1>5, <2>1, <2>3, <2>4, ScriptsEnd, FollowKeeps
<1>6. CASE Head(commands) = "send" /\ radio = "down"
  <2>1. Follow(<<>>)
    BY <1>1, <1>6 DEF Scripts
  <2>2. feed' = feed /\ radio' = radio
    <3>1. feed \in Seq(ScreenEvents)
      BY DEF ScreenInv, ScreenCore, Types
    <3> QED BY <2>1, <3>1 DEF Follow
  <2>3. Types' /\ Absences'
    BY <1>1, <1>2, <1>3, <2>2 DEF ScreenInv, ScreenCore, Types, Absences
  <2>4. LayerShape' /\ TextShape'
    BY <1>1 DEF ScreenInv, ScreenCore, LayerShape, TextShape, InputLimit
  <2>5. FeedShape' /\ ErrorShape' /\ NewsShape'
    BY <1>1, <2>2 DEF ScreenInv, ScreenCore, FeedShape, ErrorShape, NewsShape, InitFailed
  <2>6. RetryShape'
    <3>1. ASSUME NEW i \in 1..Len(commands'), commands'[i] = "retry"
          PROVE  /\ i = Len(commands') /\ feed = <<>> /\ radio = "down"
                 /\ info.state = "Initializing" /\ ~info.ready
      <4>1. i + 1 \in 1..Len(commands) /\ commands[i + 1] = "retry"
        BY <1>2, <3>1
      <4>2. /\ i + 1 = Len(commands) /\ feed = <<>> /\ radio = "down"
            /\ info.state = "Initializing" /\ ~info.ready
        BY <4>1 DEF ScreenInv, ScreenCore, RetryShape
      <4> QED BY <1>2, <4>2
    <3> QED BY <1>1, <2>2, <3>1 DEF RetryShape
  <2>7. KeyShape'
    BY <1>1 DEF ScreenInv, KeyShape
  <2> QED BY <2>3, <2>4, <2>5, <2>6, <2>7 DEF ScreenInv, ScreenCore
<1> QED BY <1>2, <1>3, <1>4, <1>5, <1>6 DEF ScreenCommands

LEMMA RadioBreaksKeeps ==
  ASSUME ScreenInv, RadioBreaks
  PROVE  ScreenInv'
<1>1. radio = "up" /\ Follow(Broken) /\ UNCHANGED <<uiVars, ticking, commands, news>>
  BY DEF RadioBreaks
<1>2. /\ info.state # "Error" /\ \A i \in 1..Len(feed) : feed[i] # State("Error")
      /\ \A i \in 1..Len(commands) : commands[i] # "retry"
      /\ commands \in Seq(ScreenCommands)
  BY <1>1 DEF ScreenInv, ScreenCore, ErrorShape, FeedShape, RetryShape, Types
<1> QED BY <1>1, <1>2, ScriptsEnd, FollowKeeps

LEMMA AppStartKeeps ==
  ASSUME ScreenInv, AppStart
  PROVE  ScreenInv'
<1>1. /\ app = "before" /\ app' = "running"
      /\ UNCHANGED <<editor, textVars, focusVars, keyVars, ticking, commands, news>>
  BY DEF AppStart
<1>2. /\ ~ticking /\ editor = "None" /\ ~dialog /\ ~news /\ ~lastFailed
      /\ feed = <<>> /\ commands = <<>> /\ info = Model!Info("Initializing", FALSE, FALSE)
  BY <1>1 DEF ScreenInv, ScreenCore, Absences, NewsShape
<1>3. TextShape' /\ KeyShape'
  BY <1>1 DEF ScreenInv, ScreenCore, TextShape, InputLimit, KeyShape
<1>4. RetryShape'
  BY <1>1, <1>2 DEF RetryShape
<1>5. CASE /\ \E script \in Scripts("retry") : Follow(script)
           /\ UNCHANGED <<info, section, dialog, edgeVars>>
  <2>1. PICK script \in {Opened, NotOpen, NotHeard} : Follow(script)
    BY <1>5 DEF Scripts
  <2>2. feed' \in Seq(ScreenEvents) /\ radio' \in {"up", "down"} /\ FeedShape'
    BY <1>2, <2>1, ScriptsEnd, FollowedFeed DEF ScreenInv, ScreenCore, Types
  <2>3. info.state = "Initializing"
    BY <1>2, InfoShape, StatesThereAre
  <2>4. Types' /\ Absences'
    BY <1>1, <1>5, <2>2 DEF ScreenInv, ScreenCore, Types, Absences
  <2>5. LayerShape' /\ ErrorShape' /\ NewsShape'
    BY <1>1, <1>2, <1>5, <2>3 DEF ScreenInv, ScreenCore, LayerShape, ErrorShape, NewsShape, InitFailed
  <2> QED BY <1>3, <1>4, <2>2, <2>4, <2>5 DEF ScreenInv, ScreenCore
<1>6. CASE /\ info' = Model!Info("Error", FALSE, TRUE) /\ section' = "Info" /\ dialog' = TRUE
           /\ lastState' = "Error" /\ lastFailed' = TRUE
           /\ UNCHANGED <<feed, radio>>
  <2>1. info' \in Model!Infos /\ info'.state = "Error" /\ ~info'.ready /\ info'.initFailed
    BY <1>6, InfoShape, StatesThereAre
  <2>2. Types' /\ FeedShape'
    BY <1>1, <1>6, <2>1 DEF ScreenInv, ScreenCore, Types, FeedShape
  <2>3. radio # "up"
    BY <1>1 DEF ScreenInv, ScreenCore, Absences
  <2>4. Absences'
    BY <1>1, <1>2, <1>6 DEF Absences
  <2>5. LayerShape' /\ ErrorShape' /\ NewsShape'
    BY <1>1, <1>2, <1>6, <2>1, <2>3
       DEF ScreenInv, ScreenCore, LayerShape, ErrorShape, NewsShape, InitFailed
  <2> QED BY <1>3, <1>4, <2>2, <2>4, <2>5 DEF ScreenInv, ScreenCore
<1> QED BY <1>5, <1>6 DEF AppStart

LEMMA AppStopKeeps ==
  ASSUME ScreenInv, AppStop
  PROVE  ScreenInv'
<1>1. /\ app = "running" /\ ~ticking /\ app' = "after"
      /\ editor' = "None" /\ dialog' = FALSE
      /\ draft' = <<>> /\ input' = 0 /\ maxLength' = MessageLimit
      /\ focusPending' = FALSE /\ inGroup' = FALSE
      /\ help' = FALSE /\ hold' = "off" /\ info' = Model!Info("Stopped", FALSE, info.initFailed)
      /\ feed' = <<>> /\ commands' = <<>> /\ radio' = "none"
      /\ UNCHANGED <<section, edgeVars, name, escDown, ticking, news>>
  BY DEF AppStop, Free
<1>2. info' \in Model!Infos /\ info'.state = "Stopped"
  <2>1. info.initFailed \in BOOLEAN /\ "Stopped" \in Model!RadioUiStates
    BY StatesThereAre DEF ScreenInv, ScreenCore, Types
  <2> QED BY <1>1, <2>1, InfoShape
<1>3. Types'
  <2>1. feed' \in Seq(ScreenEvents) /\ commands' \in Seq(ScreenCommands)
    BY <1>1, NothingListed
  <2> QED BY <1>1, <1>2, <2>1 DEF ScreenInv, ScreenCore, Types
<1>4. Absences' /\ FeedShape' /\ RetryShape' /\ ErrorShape'
  <2>1. Absences'
    BY <1>1 DEF Absences
  <2>2. FeedShape' /\ RetryShape'
    BY <1>1, NothingListed DEF FeedShape, RetryShape
  <2>3. ErrorShape'
    BY <1>1, <1>2 DEF ErrorShape
  <2> QED BY <2>1, <2>2, <2>3
<1>5. LayerShape' /\ TextShape'
  <2>1. LayerShape'
    BY <1>1 DEF LayerShape
  <2>2. MessageLimit \in Nat /\ name' \in Names
    BY <1>1, ScreenAssumption DEF ScreenInv, ScreenCore, TextShape
  <2>3. TextShape'
    BY <1>1, <2>2, NoText DEF TextShape
  <2> QED BY <2>1, <2>3
<1>6. NewsShape' /\ KeyShape'
  BY <1>1 DEF ScreenInv, ScreenCore, NewsShape, KeyShape
<1> QED BY <1>3, <1>4, <1>5, <1>6 DEF ScreenInv, ScreenCore

LEMMA ScreenInitially == Init => ScreenInv
<1> SUFFICES ASSUME Init PROVE ScreenInv
  OBVIOUS
<1>1. info \in Model!Infos /\ info.state = "Initializing" /\ info.initFailed = FALSE
  BY InfoShape, StatesThereAre DEF Init
<1>2. Types /\ Absences
  BY <1>1, NothingListed DEF Init, Types, Absences
<1>3. LayerShape /\ TextShape
  BY ScreenAssumption, NoText DEF Init, LayerShape, TextShape
<1>4. FeedShape /\ RetryShape /\ ErrorShape
  BY <1>1, NothingListed DEF Init, FeedShape, RetryShape, ErrorShape
<1>5. NewsShape /\ KeyShape
  BY <1>1 DEF Init, NewsShape, InitFailed, KeyShape
<1> QED BY <1>2, <1>3, <1>4, <1>5 DEF ScreenInv, ScreenCore

LEMMA ScreenStuttering ==
  ASSUME ScreenInv, UNCHANGED vars
  PROVE  ScreenInv'
<1>1. ScreenCore'
  BY ScreenUnchanged DEF vars, ScreenInv
<1>2. KeyShape'
  BY DEF vars, ScreenInv, KeyShape
<1> QED BY <1>1, <1>2 DEF ScreenInv

-----------------------------------------------------------------------------
(* The theorems.                                                           *)

(* The inductive invariant of the screen.                                  *)
THEOREM ScreenInvariant == Spec => []ScreenInv
<1>1. ASSUME ScreenInv, [Next]_vars PROVE ScreenInv'
  BY <1>1, AppStartKeeps, AppStopKeeps, EscDownKeeps, EscUpKeeps, HelpKeeps, KeyKeeps,
     TickBeginKeeps, TickEventKeeps, TickEndKeeps, WorkerTakesKeeps, RadioBreaksKeeps,
     ScreenStuttering DEF Next
<1> QED BY <1>1, ScreenInitially, PTL DEF Spec

(* What is open, what has the keys and what a long press is of agree       *)
(* between any two steps (cc1101_chat_app.cpp:53-57, 263-284, 375-384).    *)
THEOREM ScreenLayersAgree == Spec => []LayersAgree
<1>1. ScreenInv => LayersAgree
  BY DEF ScreenInv, ScreenCore, LayerShape, KeyShape, LayersAgree
<1> QED BY <1>1, ScreenInvariant, PTL

(* A failed initialization is told by the dialog before the next key is    *)
(* taken, and the dialog opens for nothing but that and a refused retry:   *)
(* the view model looks only at the snapshots between ticks, and misses no *)
(* failure and sees none twice (chat_view_model.cpp:52-73, 122-143).       *)
THEOREM FailuresAreToldOnce == Spec => ToldOnce
<1> DEFINE Opens == ~dialog /\ dialog' /\ app = "running"
           Cause == news \/ info' = Model!Info("Error", FALSE, FALSE)
<1>1. ScreenInv => (Free => ~news)
  BY DEF ScreenInv, ScreenCore, NewsShape, Free
<1>2. ASSUME ScreenInv, Next, Opens
      PROVE  Cause
  <2>1. ASSUME RetryRadio, dialog' PROVE Cause
    BY <2>1 DEF RetryRadio, Model!ModelRetry
  <2>2. ASSUME NEW key, ViewModelKey(key) PROVE Cause
    <3>1. CASE RetryRadio
      BY <1>2, <2>1, <3>1
    <3>2. CASE UNCHANGED dialog
      BY <1>2, <3>2
    <3>3. RetryRadio \/ UNCHANGED dialog
      <4>1. Types
        BY <1>2 DEF ScreenInv, ScreenCore
      <4> QED BY <1>2, <2>2, <4>1, ViewModelMoves
         DEF Dismiss, EditorOps, CancelEditor, EditDraft, SendCompose, SaveDeviceName,
             GoTo, OpenEditor
    <3> QED BY <3>1, <3>2, <3>3
  <2>3. CASE AppStart
    BY <1>2, <2>3 DEF AppStart
  <2>4. CASE AppStop
    BY <1>2, <2>4 DEF AppStop
  <2>5. CASE EscDown
    BY <1>2, <2>2, <2>5 DEF EscDown, EscPressed, ScreenInv, KeyShape
  <2>6. CASE EscUp \/ HelpDown \/ HelpUp
    BY <1>2, <2>6 DEF EscUp, HelpDown, HelpUp
  <2>7. ASSUME NEW key \in Keys, Key(key) PROVE Cause
    BY <1>2, <2>2, <2>7 DEF Key, EditInput
  <2>8. CASE TickBegin \/ TickEvent \/ WorkerTakes \/ RadioBreaks
    BY <1>2, <2>8 DEF TickBegin, TickEvent, WorkerTakes, RadioBreaks
  <2>9. CASE TickEnd
    BY <1>2, <2>9 DEF TickEnd, DialogAfterTick, FailureBegins, ScreenInv, ScreenCore, NewsShape
  <2> QED BY <1>2, <2>3, <2>4, <2>5, <2>6, <2>7, <2>8, <2>9 DEF Next
<1>3. ScreenInv /\ [Next]_vars => [Opens => Cause]_vars
  BY <1>2
<1> HIDE DEF Opens, Cause
<1>4. Spec => [](Free => ~news)
  BY <1>1, ScreenInvariant, PTL
<1>5. Spec => [][Opens => Cause]_vars
  BY <1>3, ScreenInvariant, PTL DEF Spec
<1> QED BY <1>4, <1>5 DEF ToldOnce, Opens, Cause

(* Esc closes what is on top and nothing else                              *)
(* (cc1101_chat_app.cpp:243-284).                                          *)
THEOREM EscPeelsOneLayer == Spec => EscPeels
<1> DEFINE Peels ==
      EscDown =>
        /\ help => ~help' /\ <<editor, dialog, hold>>' = <<editor, dialog, hold>>
        /\ ~help /\ Modal => ~(editor' # "None" \/ dialog') /\ <<help, hold>>' = <<help, hold>>
        /\ hold # hold' => ~help /\ ~Modal
<1>1. ASSUME ScreenInv, EscDown PROVE Peels
  <2>1. CASE help
    BY <1>1, <2>1 DEF EscDown, EscPressed
  <2>2. CASE ~help /\ ~Modal
    BY <1>1, <2>2 DEF EscDown, EscPressed
  <2>3. CASE ~help /\ Modal
    <3>1. ViewModelKey("esc") /\ UNCHANGED <<help, hold>>
      BY <1>1, <2>3 DEF EscDown, EscPressed
    <3>2. CASE dialog
      <4>1. Dismiss /\ editor = "None"
        BY <1>1, <3>1, <3>2 DEF ViewModelKey, DialogKey, Modal, ScreenInv, ScreenCore, LayerShape
      <4> QED BY <2>3, <3>1, <4>1 DEF Dismiss
    <3>3. CASE ~dialog /\ editor # "None"
      <4>1. CancelEditor
        BY <3>1, <3>3 DEF ViewModelKey, EditorKey, Modal
      <4> QED BY <2>3, <3>1, <3>3, <4>1 DEF CancelEditor, CloseEditor
    <3> QED BY <2>3, <3>2, <3>3 DEF Modal
  <2> QED BY <2>1, <2>2, <2>3
<1>2. ScreenInv /\ [Next]_vars => [Peels]_vars
  BY <1>1
<1> HIDE DEF Peels
<1>3. Spec => [][Peels]_vars
  BY <1>2, ScreenInvariant, PTL DEF Spec
<1> QED BY <1>3 DEF EscPeels, Peels

(* What is sent or saved is what the text area shows, but for what is not  *)
(* printable in the name that is edited                                    *)
(* (chat_view_model.cpp:199-262; chat_view.cpp:1021-1032, 1091, 1221).     *)
THEOREM ShownTextIsUsed == Spec => ShownIsUsed
<1> DEFINE Used ==
      /\ Len(commands') > Len(commands) /\ Last(commands') = "send" => draft = Typed(input)
      /\ name' # name => Plain(name') = input /\ Odd(name') \subseteq Odd(name)
<1>0. ASSUME ScreenInv
      PROVE  /\ commands \in Seq(ScreenCommands) /\ Len(commands) \in Nat
             /\ commands # <<>> => Len(Tail(commands)) < Len(commands)
             /\ \A c \in ScreenCommands : Last(Append(commands, c)) = c
             /\ ~(0 > Len(commands)) /\ Len(<<>>) = 0
  <2>1. commands \in Seq(ScreenCommands)
    BY <1>0 DEF ScreenInv, ScreenCore, Types
  <2> QED BY <2>1 DEF Last
<1>1. ASSUME ScreenInv, UNCHANGED <<commands, name>> PROVE Used
  BY <1>0, <1>1
<1>2. ASSUME ScreenInv, NEW key, ViewModelKey(key), Free PROVE Used
  <2>1. CASE RetryRadio
    <3>1. UNCHANGED name /\ (UNCHANGED commands \/ commands' = Append(commands, "retry"))
      BY <2>1 DEF RetryRadio
    <3>2. CASE UNCHANGED <<commands, name>>
      BY <1>1, <1>2, <3>2
    <3>3. CASE commands' = Append(commands, "retry") /\ UNCHANGED name
      <4>1. Last(commands') = "retry"
        BY <1>0, <1>2, <3>3 DEF ScreenCommands
      <4> QED BY <3>3, <4>1
    <3> QED BY <3>1, <3>2, <3>3
  <2>2. CASE editor = "Message" /\ SendCompose
    <3>1. /\ draft \in Seq(BOOLEAN) /\ Len(draft) <= MessageLimit /\ Odd(draft) = {}
          /\ maxLength = MessageLimit /\ input = Least(Plain(draft), maxLength)
      BY <1>2, <2>2 DEF ScreenInv, ScreenCore, TextShape, InputLimit
    <3>2. draft = Typed(input)
      <4>1. Len(draft) \in Nat /\ Plain(draft) = Len(draft) /\ draft = Typed(Len(draft))
        BY <3>1, PlainPart
      <4>2. input = Len(draft)
        BY <3>1, <4>1, ScreenAssumption DEF Least
      <4> QED BY <4>1, <4>2
    <3>3. name' = name
      BY <2>2 DEF SendCompose
    <3> QED BY <3>2, <3>3
  <2>3. CASE editor = "Nickname" /\ SaveDeviceName
    <3>1. commands' = commands /\ (name' = name \/ (draft \in Names /\ name' = draft))
      BY <2>3 DEF SaveDeviceName
    <3>2. /\ maxLength = NameLimit /\ input = Least(Plain(draft), maxLength)
          /\ Odd(draft) \subseteq Odd(name)
      BY <1>2, <2>3 DEF ScreenInv, ScreenCore, TextShape, InputLimit
    <3>3. ASSUME draft \in Names PROVE Plain(draft) = input
      <4>1. draft \in Seq(BOOLEAN) /\ Len(draft) \in Nat /\ Len(draft) <= NameLimit
        BY <3>3, NameText
      <4>2. Plain(draft) \in Nat /\ Plain(draft) <= NameLimit
        BY <4>1, PlainPart, ScreenAssumption
      <4>3. Least(Plain(draft), NameLimit) = Plain(draft)
        BY <4>2, ScreenAssumption DEF Least
      <4> QED BY <3>2, <4>3
    <3>4. commands' = commands => ~(Len(commands') > Len(commands))
      BY <1>0, <1>2
    <3> QED BY <3>1, <3>2, <3>3, <3>4
  <2>4. CASE UNCHANGED <<commands, name>>
    BY <1>1, <1>2, <2>4
  <2>5. \/ RetryRadio \/ (editor = "Message" /\ SendCompose)
        \/ (editor = "Nickname" /\ SaveDeviceName) \/ UNCHANGED <<commands, name>>
    <3>1. Types
      BY <1>2 DEF ScreenInv, ScreenCore
    <3> QED BY <1>2, <3>1, ViewModelMoves
         DEF Dismiss, EditorOps, CancelEditor, EditDraft, GoTo, OpenEditor, Types
  <2> QED BY <2>1, <2>2, <2>3, <2>4, <2>5
<1>3. ASSUME ScreenInv, Next PROVE Used
  <2>1. CASE AppStart \/ EscUp \/ HelpDown \/ HelpUp \/ TickBegin \/ TickEvent \/ TickEnd
             \/ RadioBreaks
    BY <1>1, <1>3, <2>1
       DEF AppStart, EscUp, HelpDown, HelpUp, TickBegin, TickEvent, TickEnd, RadioBreaks
  <2>2. CASE AppStop
    BY <1>0, <1>3, <2>2 DEF AppStop
  <2>3. CASE WorkerTakes
    BY <1>0, <1>3, <2>3 DEF WorkerTakes
  <2>4. CASE EscDown
    BY <1>1, <1>2, <1>3, <2>4 DEF EscDown, EscPressed, ScreenInv, KeyShape
  <2>5. ASSUME NEW key \in Keys, Key(key) PROVE Used
    BY <1>1, <1>2, <1>3, <2>5 DEF Key, EditInput
  <2> QED BY <1>3, <2>1, <2>2, <2>3, <2>4, <2>5 DEF Next
<1>4. ScreenInv /\ [Next]_vars => [Used]_vars
  BY <1>3
<1> HIDE DEF Used
<1>5. Spec => [][Used]_vars
  BY <1>4, ScreenInvariant, PTL DEF Spec
<1> QED BY <1>5 DEF ShownIsUsed, Used

=============================================================================
