-------------------------------- MODULE Tui ---------------------------------
(***************************************************************************)
(* The terminal UI, cmd/tui.  Bubble Tea (external) calls Update with one  *)
(* message at a time: a key, the answer of a request that ran in a         *)
(* goroutine of its own, or the quit message that tea.Quit queues.  Update *)
(* handles a message by the state the UI is in when the message arrives.   *)
(*                                                                         *)
(* A text is trimmed; an edit sets an input to any of its Texts.  Layout,  *)
(* the spinner and the scrolling of the answer are left out.               *)
(***************************************************************************)
EXTENDS Integers

CONSTANTS
  Texts,    \* what can be typed into each input
  Paths,    \* what can be picked
  Blank,    \* the empty text
  Endless,  \* paths of FIFOs and devices, which can be read for ever
  Refused,  \* pairs of host and port of which url.Parse makes no URL
  NoAnswer  \* rawResponse before the first answer

Inputs == {"url", "port", "hash", "file"}

reqLookup == 0
reqBulk   == 1
reqFile   == 2

ASSUME TuiAssumption ==
  /\ DOMAIN Texts = Inputs /\ \A f \in Inputs : Blank \in Texts[f]
  /\ Paths \subseteq Texts["file"] /\ Endless \subseteq Texts["file"]
  /\ Blank \notin Paths \cup Endless
  /\ <<"localhost", "8080">> \notin Refused

VARIABLES
  state,      \* "form", "picker", "loading", "results", "quit" or "crashed"
  focusIdx, reqType, details,
  value,      \* the text of each input
  listening,  \* the inputs that are Focus()ed
  err,        \* whether the form shows an error
  rawResponse,
  saveMsg,
  calls,      \* the requests whose goroutine has not answered
  quitting    \* whether a quit message is queued

Running == state \notin {"quit", "crashed"}

form == <<focusIdx, reqType, details, value, listening>>
vars == <<state, form, err, rawResponse, saveMsg, calls, quitting>>

numFocusFields == 6   \* 0=url 1=port 2=reqtype 3=hash/file 4=details 5=send

\* The input that has the focus index i, if there is one.
InputAt(i) ==
  CASE i = 0 -> {"url"}
    [] i = 1 -> {"port"}
    [] i = 3 -> IF reqType = reqLookup THEN {"hash"} ELSE {"file"}
    [] OTHER -> {}

Init ==
  /\ state = "form" /\ focusIdx = 0 /\ reqType = reqLookup /\ details = FALSE
  /\ value = [f \in Inputs |-> Blank] /\ listening = {"url"}
  /\ err = FALSE /\ rawResponse = NoAnswer /\ saveMsg = "none"
  /\ calls = {} /\ quitting = FALSE
-----------------------------------------------------------------------------
\* tea.Quit.
AskToQuit == quitting' = TRUE /\ UNCHANGED <<state, form, err, rawResponse, saveMsg, calls>>

QuitKey == state \in {"form", "loading", "results"} /\ AskToQuit

Quit ==
  /\ quitting /\ Running
  /\ state' = "quit"
  /\ UNCHANGED <<form, err, rawResponse, saveMsg, calls, quitting>>

Unsent == UNCHANGED <<err, rawResponse, saveMsg, calls, quitting>>

(* Mutant of Advance: the focus moves on without blurAll.                  *)
AdvanceUnblurred(step) ==
  /\ focusIdx' = (focusIdx + step + numFocusFields) % numFocusFields
  /\ listening' = listening \cup InputAt(focusIdx')
  /\ UNCHANGED <<state, reqType, details, value>> /\ Unsent

\* blurAll, the focus moved by step, applyFocus.
Advance(step) ==
  /\ focusIdx' = (focusIdx + step + numFocusFields) % numFocusFields
  /\ listening' = InputAt(focusIdx')
  /\ UNCHANGED <<state, reqType, details, value>> /\ Unsent

MoveFocus == state = "form" /\ \E step \in {1, -1} : Advance(step)

\* A change of the type runs applyFocus, without blurAll.
ChooseType(t) ==
  /\ focusIdx = 2
  /\ UNCHANGED <<state, focusIdx, details, value>> /\ Unsent
  /\ reqType' = t
  /\ listening' = listening \cup InputAt(focusIdx)'

SetDetails(d) ==
  /\ focusIdx = 4
  /\ details' = d
  /\ UNCHANGED <<state, focusIdx, reqType, value, listening>> /\ Unsent

Arrow ==
  /\ state = "form"
  /\ \/ reqType > 0 /\ ChooseType(reqType - 1)
     \/ reqType < 2 /\ ChooseType(reqType + 1)
     \/ \E d \in BOOLEAN : SetDetails(d)

\* Space only toggles; the text inputs never see it.
Space == state = "form" /\ SetDetails(~details)

(* Mutant of OpenPicker: it opens for the hash as well.                    *)
OpenPickerAlways ==
  /\ focusIdx = 3
  /\ state' = "picker"
  /\ UNCHANGED form /\ Unsent

OpenPicker ==
  /\ focusIdx = 3 /\ reqType # reqLookup
  /\ state' = "picker"
  /\ UNCHANGED form /\ Unsent

\* Any other key goes to the input at the focus, which ignores it unless focused.
Edit ==
  /\ state = "form"
  /\ \E f \in InputAt(focusIdx) \cap listening : \E t \in Texts[f] :
       value' = [value EXCEPT ![f] = t]
  /\ UNCHANGED <<state, focusIdx, reqType, details, listening>> /\ Unsent
-----------------------------------------------------------------------------
\* The request the form describes: blank host and port have defaults.
Default(t, d) == IF t = Blank THEN d ELSE t
FormRequest ==
  [ to      |-> <<Default(value["url"], "localhost"), Default(value["port"], "8080")>>,
    kind    |-> reqType,
    details |-> details,
    about   |-> IF reqType = reqLookup THEN value["hash"] ELSE value["file"] ]

\* The goroutine is in os.ReadFile and stays there.
Hangs(r) == r.kind # reqLookup /\ r.about \in Endless

\* doRequest: anything may fail; a blank hash or path and a bad URL always do.
Answers(r) ==
  { [of |-> r, ok |-> ok] :
    ok \in IF Hangs(r) THEN {}
          ELSE IF r.about = Blank \/ r.to \in Refused THEN {FALSE} ELSE BOOLEAN }

\* The file was read, http.NewRequest gave an error and no request to set a header of.
Panics(r) == r.kind = reqFile /\ r.about # Blank /\ ~Hangs(r) /\ r.to \in Refused

SendRequest ==
  /\ focusIdx = 5
  /\ err' = FALSE
  /\ state' = "loading"
  /\ calls' = calls \cup {FormRequest}
  /\ UNCHANGED <<form, rawResponse, saveMsg, quitting>>

Enter ==
  /\ state = "form"
  /\ \/ ChooseType((reqType + 1) % 3)
     \/ OpenPicker
     \/ SetDetails(~details)
     \/ SendRequest
     \/ (focusIdx \in {0, 1} \/ (focusIdx = 3 /\ reqType = reqLookup)) /\ Advance(1)
-----------------------------------------------------------------------------
\* In the picker ctrl+c is esc.
CancelPicker == /\ state = "picker" /\ state' = "form"
                /\ UNCHANGED form /\ Unsent

PickFile ==
  /\ state = "picker"
  /\ \E p \in Paths : value' = [value EXCEPT !["file"] = p]
  /\ state' = "form"
  /\ UNCHANGED <<focusIdx, reqType, details, listening>> /\ Unsent

(* Mutant of Back: esc leaves the loading screen, too.                     *)
BackWhileLoading ==
  /\ state \in {"results", "loading"}
  /\ state' = "form" /\ err' = FALSE
  /\ UNCHANGED <<form, rawResponse, saveMsg, calls, quitting>>

Back ==
  /\ state = "results"
  /\ state' = "form" /\ err' = FALSE
  /\ UNCHANGED <<form, rawResponse, saveMsg, calls, quitting>>

Save ==
  /\ state = "results"
  /\ saveMsg' \in {"saved", "failed"}
  /\ UNCHANGED <<state, form, err, rawResponse, calls, quitting>>

(* Mutant of Response: a failure leaves the loading screen up.             *)
ResponseStuck ==
  /\ Running
  /\ \E r \in calls : \E a \in Answers(r) :
       /\ calls' = calls \ {r}
       /\ IF state = "loading" /\ a.ok
            THEN state' = "results" /\ rawResponse' = a /\ saveMsg' = "none" /\ UNCHANGED err
            ELSE UNCHANGED <<state, rawResponse, saveMsg>> /\ err' = ~a.ok
  /\ UNCHANGED <<form, quitting>>

\* A goroutine has answered.  Only the loading screen takes an answer.
Response ==
  /\ Running
  /\ \E r \in calls : \E a \in Answers(r) :
       /\ calls' = calls \ {r}
       /\ IF state # "loading"
            THEN UNCHANGED <<state, err, rawResponse, saveMsg>>
            ELSE IF a.ok
              THEN state' = "results" /\ rawResponse' = a /\ saveMsg' = "none" /\ UNCHANGED err
              ELSE state' = "form" /\ err' = TRUE /\ UNCHANGED <<rawResponse, saveMsg>>
  /\ UNCHANGED <<form, quitting>>

\* The nil *http.Request is used: the panic of a goroutine ends the program.
Crash ==
  /\ Running
  /\ \E r \in calls : Panics(r) /\ calls' = calls \ {r}
  /\ state' = "crashed"
  /\ UNCHANGED <<form, err, rawResponse, saveMsg, quitting>>
-----------------------------------------------------------------------------
Key == \/ QuitKey \/ MoveFocus \/ Arrow \/ Space \/ Enter \/ Edit
       \/ CancelPicker \/ PickFile \/ Back \/ Save

Next == Key \/ Quit \/ Response \/ Crash

\* A request whose file can be read comes to an end, as the client gives up
\* after 120 s, and Bubble Tea handles every message.
Fairness == WF_vars(Response \/ Crash) /\ WF_vars(Quit)
Spec == Init /\ [][Next]_vars /\ Fairness
-----------------------------------------------------------------------------
Request == [ to : {<<Default(h, "localhost"), Default(p, "8080")>> :
                     h \in Texts["url"], p \in Texts["port"]},
             kind : reqLookup..reqFile, details : BOOLEAN,
             about : Texts["hash"] \cup Texts["file"] ]

(* The fields of the model hold what their types say; at most one request  *)
(* is out at a time, whatever is typed while the UI waits (main.go:332).   *)
FormTypeOK ==
  /\ focusIdx \in 0..(numFocusFields - 1)
  /\ reqType \in reqLookup..reqFile
  /\ details \in BOOLEAN
  /\ DOMAIN value = Inputs /\ \A f \in Inputs : value[f] \in Texts[f]
  /\ listening \subseteq Inputs
AnswerTypeOK ==
  /\ state \in {"form", "picker", "loading", "results", "quit", "crashed"}
  /\ err \in BOOLEAN /\ quitting \in BOOLEAN
  /\ rawResponse \in {NoAnswer} \cup [of : Request, ok : {TRUE}]
  /\ saveMsg \in {"none", "saved", "failed"}
  /\ calls \subseteq Request /\ \A r1, r2 \in calls : r1 = r2
TypeOK == FormTypeOK /\ AnswerTypeOK

(* The answer on display, the one "s" saves, is the answer to the request  *)
(* the form describes, never one to an earlier request that came late; the *)
(* one request out while the UI waits is that request too, and an error    *)
(* belongs to the last request (main.go:338-356, 395-421).  The program    *)
(* crashes only on a file sent to an address that makes no URL.            *)
AnswerMatchesForm ==
  /\ state = "results" => rawResponse \in [of : {FormRequest}, ok : {TRUE}]
  /\ state = "loading" => calls = {FormRequest}
  /\ state \in {"form", "picker", "results"} => calls = {}
  /\ state = "crashed" => FormRequest.kind = reqFile /\ FormRequest.to \in Refused
  /\ err => state \in {"form", "picker", "quit"}

(* What is typed goes into the field that is highlighted and into no other:*)
(* after any keys, the input that listens is the one at the focus, the one *)
(* the chosen type shows (main.go:281-303).                                *)
OneFieldListens == listening = InputAt(focusIdx)

(* A file picked in the picker is the one the form's request is about:     *)
(* the picker is left with the file field in force (main.go:242-247, 319). *)
PickedFileIsSent ==
  [][ state = "picker" /\ state' = "form" /\ value' # value
      => FormRequest'.about = value'["file"] ]_vars

(* With this conjunct the invariants are inductive: the picker is open for *)
(* the file field of a bulk or file request only.                          *)
PickerServesFiles == state = "picker" => reqType # reqLookup
IInv == TypeOK /\ AnswerMatchesForm /\ OneFieldListens /\ PickerServesFiles

(* The loading screen does not stay up for ever: an answer, an error or a  *)
(* crash takes it down, unless the file to send is one that can be read    *)
(* for ever; and then ctrl+c still does (main.go:332-364, 423-461).        *)
LoadingEnds ==
  (state = "loading" /\ (quitting \/ \A r \in calls : ~Hangs(r))) ~> state # "loading"
=============================================================================
