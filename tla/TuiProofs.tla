------------------------------ MODULE TuiProofs -----------------------------
(***************************************************************************)
(* The invariants of the terminal UI, for every set of texts and paths.    *)
(* IInv is inductive; that the answer on display is the one to the form's  *)
(* request needs that only one request can be out and that no key changes  *)
(* the form while it is.                                                   *)
(***************************************************************************)
EXTENDS Tui, TLAPS

\* The initial form listens at the URL and no request is out.
LEMMA InitIInv == Init => IInv
<1> SUFFICES ASSUME Init PROVE IInv
    OBVIOUS
<1> USE TuiAssumption DEF Init
<1>1. FormTypeOK
  <2>1. focusIdx \in 0..(numFocusFields - 1) /\ reqType \in reqLookup..reqFile
    BY DEF numFocusFields, reqLookup, reqFile
  <2>2. details \in BOOLEAN
    OBVIOUS
  <2>3. DOMAIN value = Inputs /\ \A f \in Inputs : value[f] \in Texts[f]
    OBVIOUS
  <2>4. listening \subseteq Inputs
    BY DEF Inputs
  <2> QED
    BY <2>1, <2>2, <2>3, <2>4 DEF FormTypeOK
<1>2. AnswerTypeOK
  <2>1. err \in BOOLEAN /\ quitting \in BOOLEAN
    OBVIOUS
  <2>2. calls \subseteq Request /\ \A r1, r2 \in calls : r1 = r2
    OBVIOUS
  <2> QED
    BY <2>1, <2>2 DEF AnswerTypeOK
<1>3. AnswerMatchesForm
  BY DEF AnswerMatchesForm
<1>4. OneFieldListens
  BY DEF OneFieldListens, InputAt
<1>5. PickerServesFiles
  BY DEF PickerServesFiles
<1> QED
  BY <1>1, <1>2, <1>3, <1>4, <1>5 DEF IInv, TypeOK

\* The request a well-typed form describes is a request.
LEMMA FormRequestType == ASSUME FormTypeOK PROVE FormRequest \in Request
<1>1. reqType \in reqLookup..reqFile /\ details \in BOOLEAN
  BY DEF FormTypeOK
<1>2. value["hash"] \in Texts["hash"] /\ value["file"] \in Texts["file"]
  BY DEF FormTypeOK, Inputs
<1>3. value["url"] \in Texts["url"] /\ value["port"] \in Texts["port"]
  BY DEF FormTypeOK, Inputs
<1>4. (IF reqType = reqLookup THEN value["hash"] ELSE value["file"])
        \in Texts["hash"] \cup Texts["file"]
  BY <1>2
<1> QED
  BY <1>1, <1>3, <1>4 DEF FormRequest, Request

\* An edit of one input keeps every input's text among its texts.
LEMMA EditType ==
  ASSUME FormTypeOK, NEW f \in Inputs, NEW t \in Texts[f],
         value' = [value EXCEPT ![f] = t]
  PROVE  DOMAIN value' = Inputs /\ \A g \in Inputs : value'[g] \in Texts[g]
BY DEF FormTypeOK

\* The input at a focus index is an input.
LEMMA InputAtType == ASSUME NEW i \in Int PROVE InputAt(i) \subseteq Inputs
BY DEF InputAt, Inputs

\* A form whose fields have their types after a step has them all, if it listens right.
LEMMA FormTypeNext ==
  ASSUME focusIdx' \in 0..5, reqType' \in 0..2, OneFieldListens', details' \in BOOLEAN,
         DOMAIN value' = Inputs, \A f \in Inputs : value'[f] \in Texts[f]
  PROVE  FormTypeOK'
<1>1. listening' \subseteq Inputs
  BY DEF OneFieldListens, InputAt, Inputs
<1> QED
  BY <1>1 DEF FormTypeOK, numFocusFields, reqLookup, reqFile

\* What a well-typed form gives the proofs below.
LEMMA FormFacts ==
  ASSUME FormTypeOK
  PROVE  /\ focusIdx \in 0..5 /\ reqType \in 0..2 /\ details \in BOOLEAN
         /\ DOMAIN value = Inputs /\ \A f \in Inputs : value[f] \in Texts[f]
<1>1. focusIdx \in 0..5
  BY DEF FormTypeOK, numFocusFields
<1>2. reqType \in 0..2
  BY DEF FormTypeOK, reqLookup, reqFile
<1> QED
  BY <1>1, <1>2 DEF FormTypeOK

\* The input at the focus depends on the focus and the type only.
LEMMA SameInput ==
  ASSUME UNCHANGED <<focusIdx, reqType>> PROVE InputAt(focusIdx)' = InputAt(focusIdx)
BY DEF InputAt

\* A step that leaves the form alone leaves its request alone.
LEMMA SameForm ==
  ASSUME UNCHANGED form, FormTypeOK, OneFieldListens
  PROVE  FormTypeOK' /\ OneFieldListens' /\ FormRequest' = FormRequest
<1>1. UNCHANGED <<focusIdx, reqType, details, value, listening>>
  BY DEF form
<1>2. FormTypeOK'
  BY <1>1 DEF FormTypeOK
<1>3. OneFieldListens'
  BY <1>1, SameInput DEF OneFieldListens
<1>4. FormRequest' = FormRequest
  BY <1>1 DEF FormRequest, Default
<1> QED
  BY <1>2, <1>3, <1>4
-----------------------------------------------------------------------------
\* The keys of the form but Send: they touch neither the requests nor the answer.
LEMMA FormStep ==
  ASSUME IInv, MoveFocus \/ Arrow \/ Space \/ Edit \/ (Enter /\ ~SendRequest)
  PROVE  IInv'
<1>1. FormTypeOK /\ AnswerTypeOK /\ OneFieldListens
  BY DEF IInv, TypeOK
<1>2. state = "form" /\ calls = {}
  <2>1. state = "form"
    BY DEF MoveFocus, Arrow, Space, Edit, Enter
  <2> QED
    BY <2>1 DEF IInv, AnswerMatchesForm
<1>3. ASSUME FormTypeOK', OneFieldListens', Unsent, state' = "form" \/ state' = "picker",
             state' = "form" \/ reqType' # reqLookup
      PROVE  IInv'
  <2>1. AnswerTypeOK'
    BY <1>1, <1>3 DEF AnswerTypeOK, Unsent
  <2>2. AnswerMatchesForm'
    BY <1>2, <1>3 DEF AnswerMatchesForm, Unsent
  <2>3. PickerServesFiles'
    BY <1>3 DEF PickerServesFiles
  <2> QED
    BY <1>3, <2>1, <2>2, <2>3 DEF IInv, TypeOK
<1>4. ASSUME NEW step \in {1, -1}, Advance(step) PROVE IInv'
  <2>1. UNCHANGED <<state, reqType, details, value>> /\ Unsent
    BY <1>4 DEF Advance
  <2>2. focusIdx' \in 0..5
    BY <1>1, <1>4, FormFacts DEF Advance, numFocusFields
  <2>3. OneFieldListens'
    BY <1>4, <2>1 DEF Advance, OneFieldListens, InputAt
  <2>4. FormTypeOK'
    BY <1>1, <2>1, <2>2, <2>3, FormFacts, FormTypeNext
  <2> QED
    BY <1>2, <1>3, <2>1, <2>3, <2>4
<1>5. ASSUME NEW t \in 0..2, ChooseType(t) PROVE IInv'
  <2>1. UNCHANGED <<state, focusIdx, details, value>> /\ Unsent /\ reqType' = t
    BY <1>5 DEF ChooseType
  <2>2. InputAt(focusIdx) = {} /\ InputAt(focusIdx)' = {}
    BY <1>5, <2>1 DEF ChooseType, InputAt
  <2>3. OneFieldListens'
    BY <1>1, <1>5, <2>2 DEF ChooseType, OneFieldListens
  <2>4. FormTypeOK'
    BY <1>1, <2>1, <2>3, FormFacts, FormTypeNext
  <2> QED
    BY <1>2, <1>3, <2>1, <2>3, <2>4
<1>6. ASSUME NEW d \in BOOLEAN, SetDetails(d) PROVE IInv'
  <2>1. UNCHANGED <<state, focusIdx, reqType, value, listening>> /\ Unsent
    BY <1>6 DEF SetDetails
  <2>2. details' \in BOOLEAN
    BY <1>6 DEF SetDetails
  <2>3. OneFieldListens'
    BY <1>1, <2>1, SameInput DEF OneFieldListens
  <2>4. FormTypeOK'
    BY <1>1, <2>1, <2>2, <2>3, FormFacts, FormTypeNext
  <2> QED
    BY <1>2, <1>3, <2>1, <2>3, <2>4
<1>7. CASE MoveFocus
  BY <1>7, <1>4 DEF MoveFocus
<1>8. CASE Arrow
  <2>1. CASE reqType > 0 /\ ChooseType(reqType - 1)
    <3>1. reqType - 1 \in 0..2
      BY <1>1, <2>1, FormFacts
    <3> QED
      BY <1>5, <2>1, <3>1
  <2>2. CASE reqType < 2 /\ ChooseType(reqType + 1)
    <3>1. reqType + 1 \in 0..2
      BY <1>1, <2>2, FormFacts
    <3> QED
      BY <1>5, <2>2, <3>1
  <2> QED
    BY <1>8, <1>6, <2>1, <2>2 DEF Arrow
<1>9. CASE Space
  <2>1. (~details) \in BOOLEAN
    OBVIOUS
  <2> QED
    BY <1>9, <1>6, <2>1 DEF Space
<1>10. CASE Edit
  <2>1. UNCHANGED <<state, focusIdx, reqType, details, listening>> /\ Unsent
    BY <1>10 DEF Edit
  <2>2. PICK f \in InputAt(focusIdx) : \E t \in Texts[f] : value' = [value EXCEPT ![f] = t]
    BY <1>10 DEF Edit
  <2>3. f \in Inputs
    BY <1>1, <2>2, InputAtType, FormFacts
  <2>4. DOMAIN value' = Inputs /\ \A g \in Inputs : value'[g] \in Texts[g]
    BY <1>1, <2>2, <2>3, EditType
  <2>5. OneFieldListens'
    BY <1>1, <2>1, SameInput DEF OneFieldListens
  <2>6. FormTypeOK'
    BY <1>1, <2>1, <2>4, <2>5, FormFacts, FormTypeNext
  <2> QED
    BY <1>2, <1>3, <2>1, <2>5, <2>6
<1>11. CASE Enter /\ ~SendRequest
  <2>1. CASE OpenPicker
    <3>1. UNCHANGED form /\ Unsent /\ state' = "picker" /\ reqType # reqLookup
      BY <2>1 DEF OpenPicker
    <3>2. FormTypeOK' /\ OneFieldListens'
      BY <1>1, <3>1, SameForm
    <3>3. reqType' # reqLookup
      BY <3>1 DEF form
    <3> QED
      BY <1>3, <3>1, <3>2, <3>3
  <2>2. CASE Advance(1)
    BY <1>4, <2>2
  <2>3. CASE ChooseType((reqType + 1) % 3)
    <3>1. (reqType + 1) % 3 \in 0..2
      BY <1>1, FormFacts
    <3> QED
      BY <1>5, <2>3, <3>1
  <2>4. CASE SetDetails(~details)
    <3>1. (~details) \in BOOLEAN
      OBVIOUS
    <3> QED
      BY <1>6, <2>4, <3>1
  <2> QED
    BY <1>11, <2>1, <2>2, <2>3, <2>4 DEF Enter
<1> QED
  BY <1>7, <1>8, <1>9, <1>10, <1>11
-----------------------------------------------------------------------------
\* A request is sent, it is answered, its answer is saved and left.
LEMMA RequestStep ==
  ASSUME IInv, (state = "form" /\ SendRequest) \/ Response \/ Back \/ Save
  PROVE  IInv'
<1>1. FormTypeOK /\ AnswerTypeOK /\ OneFieldListens
  BY DEF IInv, TypeOK
<1>2. UNCHANGED form
  BY DEF SendRequest, Response, Back, Save
<1>3. FormTypeOK' /\ OneFieldListens' /\ FormRequest' = FormRequest
  BY <1>1, <1>2, SameForm
<1>4. FormRequest \in Request
  BY <1>1, FormRequestType
<1>5. ASSUME state' \in {"form", "loading", "results"},
             calls' = {} \/ calls' = {FormRequest},
             rawResponse' \in {NoAnswer} \cup [of : Request, ok : {TRUE}],
             saveMsg' \in {"none", "saved", "failed"},
             err' \in BOOLEAN, quitting' \in BOOLEAN, AnswerMatchesForm'
      PROVE  IInv'
  <2>1. calls' \subseteq Request /\ \A r1, r2 \in calls' : r1 = r2
    BY <1>4, <1>5
  <2>2. AnswerTypeOK'
    BY <1>5, <2>1 DEF AnswerTypeOK
  <2>3. PickerServesFiles'
    BY <1>5 DEF PickerServesFiles
  <2> QED
    BY <1>3, <1>5, <2>2, <2>3 DEF IInv, TypeOK
<1>6. /\ rawResponse \in {NoAnswer} \cup [of : Request, ok : {TRUE}]
      /\ saveMsg \in {"none", "saved", "failed"}
      /\ err \in BOOLEAN /\ quitting \in BOOLEAN
  BY <1>1 DEF AnswerTypeOK
<1>7. CASE state = "form" /\ SendRequest
  <2>1. /\ state' = "loading" /\ err' = FALSE /\ calls' = calls \cup {FormRequest}
        /\ UNCHANGED <<rawResponse, saveMsg, quitting>>
    BY <1>7 DEF SendRequest
  <2>2. calls' = {FormRequest}
    BY <1>7, <2>1 DEF IInv, AnswerMatchesForm
  <2>3. AnswerMatchesForm'
    BY <1>3, <2>1, <2>2 DEF AnswerMatchesForm
  <2> QED
    BY <1>5, <1>6, <2>1, <2>2, <2>3
<1>8. CASE Response
  <2>1. state = "loading" /\ calls = {FormRequest} /\ err = FALSE
    <3>1. state \notin {"quit", "crashed"} /\ calls # {}
      BY <1>8 DEF Response, Running
    <3>2. state = "loading"
      BY <1>1, <3>1 DEF IInv, AnswerTypeOK, AnswerMatchesForm
    <3> QED
      BY <1>6, <3>2 DEF IInv, AnswerMatchesForm
  <2>2. PICK a \in Answers(FormRequest) :
          /\ calls' = calls \ {FormRequest}
          /\ IF a.ok
               THEN state' = "results" /\ rawResponse' = a /\ saveMsg' = "none" /\ UNCHANGED err
               ELSE state' = "form" /\ err' = TRUE /\ UNCHANGED <<rawResponse, saveMsg>>
    BY <1>8, <2>1 DEF Response
  <2>3. calls' = {} /\ quitting' = quitting
    BY <1>8, <2>1, <2>2 DEF Response
  <2>4. PICK ok \in BOOLEAN : a = [of |-> FormRequest, ok |-> ok]
    <3>1. (IF Hangs(FormRequest) THEN {}
           ELSE IF FormRequest.about = Blank \/ FormRequest.to \in Refused THEN {FALSE}
           ELSE BOOLEAN) \subseteq BOOLEAN
      OBVIOUS
    <3> QED
      BY <2>2, <3>1 DEF Answers
  <2>5. CASE a.ok
    <3>1. a \in [of : {FormRequest}, ok : {TRUE}]
      BY <2>4, <2>5
    <3>2. a \in [of : Request, ok : {TRUE}]
      BY <1>4, <3>1
    <3>3. AnswerMatchesForm'
      BY <1>3, <2>1, <2>2, <2>3, <2>5, <3>1 DEF AnswerMatchesForm
    <3> QED
      BY <1>5, <1>6, <2>2, <2>3, <2>5, <3>2, <3>3
  <2>6. CASE ~a.ok
    <3>1. AnswerMatchesForm'
      BY <2>2, <2>3, <2>6 DEF AnswerMatchesForm
    <3> QED
      BY <1>5, <1>6, <2>2, <2>3, <2>6, <3>1
  <2> QED
    BY <2>5, <2>6
<1>9. CASE Back
  <2>1. /\ state = "results" /\ state' = "form" /\ err' = FALSE
        /\ UNCHANGED <<rawResponse, saveMsg, calls, quitting>>
    BY <1>9 DEF Back
  <2>2. calls' = {}
    BY <2>1 DEF IInv, AnswerMatchesForm
  <2>3. AnswerMatchesForm'
    BY <2>1, <2>2 DEF AnswerMatchesForm
  <2> QED
    BY <1>5, <1>6, <2>1, <2>2, <2>3
<1>10. CASE Save
  <2>1. /\ state = "results" /\ saveMsg' \in {"saved", "failed"}
        /\ UNCHANGED <<state, err, rawResponse, calls, quitting>>
    BY <1>10 DEF Save
  <2>2. calls' = {}
    BY <2>1 DEF IInv, AnswerMatchesForm
  <2>3. AnswerMatchesForm'
    BY <1>3, <2>1 DEF IInv, AnswerMatchesForm
  <2> QED
    BY <1>5, <1>6, <2>1, <2>2, <2>3
<1> QED
  BY <1>7, <1>8, <1>9, <1>10

\* The crash comes with the form's request, which is out while the UI waits.
LEMMA CrashStep == ASSUME IInv, Crash PROVE IInv'
<1>1. FormTypeOK /\ AnswerTypeOK /\ OneFieldListens
  BY DEF IInv, TypeOK
<1>2. /\ UNCHANGED form /\ UNCHANGED <<err, rawResponse, saveMsg, quitting>>
      /\ state' = "crashed"
  BY DEF Crash
<1>3. PICK r \in calls : Panics(r) /\ calls' = calls \ {r}
  BY DEF Crash
<1>4. state = "loading" /\ calls = {FormRequest} /\ err = FALSE
  <2>1. state \notin {"quit", "crashed"} /\ calls # {}
    BY <1>3 DEF Crash, Running
  <2>2. state = "loading"
    BY <1>1, <2>1 DEF IInv, AnswerTypeOK, AnswerMatchesForm
  <2>3. err \in BOOLEAN
    BY <1>1 DEF AnswerTypeOK
  <2> QED
    BY <2>2, <2>3 DEF IInv, AnswerMatchesForm
<1>5. FormTypeOK' /\ OneFieldListens' /\ FormRequest' = FormRequest
  BY <1>1, <1>2, SameForm
<1>6. AnswerTypeOK'
  BY <1>1, <1>2, <1>3 DEF AnswerTypeOK
<1>7. FormRequest.kind = reqFile /\ FormRequest.to \in Refused
  BY <1>3, <1>4 DEF Panics
<1>8. AnswerMatchesForm'
  BY <1>2, <1>4, <1>5, <1>7 DEF AnswerMatchesForm
<1>9. PickerServesFiles'
  BY <1>2 DEF PickerServesFiles
<1> QED
  BY <1>5, <1>6, <1>8, <1>9 DEF IInv, TypeOK

\* Quitting, from the key to the end of the program, and leaving the picker.
LEMMA LeaveStep ==
  ASSUME IInv, QuitKey \/ Quit \/ CancelPicker PROVE IInv'
<1>1. FormTypeOK /\ AnswerTypeOK /\ OneFieldListens
  BY DEF IInv, TypeOK
<1>2. UNCHANGED form /\ UNCHANGED <<err, rawResponse, saveMsg, calls>>
  BY DEF QuitKey, AskToQuit, Quit, CancelPicker, Unsent, form
<1>3. quitting' \in BOOLEAN
  BY <1>1 DEF QuitKey, AskToQuit, Quit, CancelPicker, Unsent, AnswerTypeOK
<1>4. state' = state \/ state' = "quit" \/ (state = "picker" /\ state' = "form")
  BY DEF QuitKey, AskToQuit, Quit, CancelPicker
<1>5. FormTypeOK' /\ OneFieldListens' /\ FormRequest' = FormRequest
  BY <1>1, <1>2, SameForm
<1>6. AnswerTypeOK'
  BY <1>1, <1>2, <1>3, <1>4 DEF AnswerTypeOK
<1>7. AnswerMatchesForm'
  BY <1>2, <1>4, <1>5 DEF IInv, AnswerMatchesForm
<1>8. PickerServesFiles'
  BY <1>2, <1>4 DEF form, IInv, PickerServesFiles
<1> QED
  BY <1>5, <1>6, <1>7, <1>8 DEF IInv, TypeOK

\* A file is picked: the form gets its path and is back.
LEMMA PickStep == ASSUME IInv, PickFile PROVE IInv'
<1>1. FormTypeOK /\ AnswerTypeOK /\ OneFieldListens
  BY DEF IInv, TypeOK
<1>2. /\ state = "picker" /\ state' = "form" /\ Unsent
      /\ UNCHANGED <<focusIdx, reqType, details, listening>>
  BY DEF PickFile
<1>3. PICK p \in Paths : value' = [value EXCEPT !["file"] = p]
  BY DEF PickFile
<1>4. "file" \in Inputs /\ p \in Texts["file"]
  BY TuiAssumption DEF Inputs
<1>5. DOMAIN value' = Inputs /\ \A g \in Inputs : value'[g] \in Texts[g]
  BY <1>1, <1>3, <1>4, EditType
<1>6. OneFieldListens'
  BY <1>1, <1>2, SameInput DEF OneFieldListens
<1>7. FormTypeOK'
  BY <1>1, <1>2, <1>5, <1>6, FormFacts, FormTypeNext
<1>8. AnswerTypeOK'
  BY <1>1, <1>2 DEF AnswerTypeOK, Unsent
<1>9. AnswerMatchesForm'
  BY <1>2 DEF IInv, AnswerMatchesForm, Unsent
<1>10. PickerServesFiles'
  BY <1>2 DEF PickerServesFiles
<1> QED
  BY <1>6, <1>7, <1>8, <1>9, <1>10 DEF IInv, TypeOK

\* Every step of the UI preserves the invariant.
LEMMA NextIInv == IInv /\ [Next]_vars => IInv'
<1> SUFFICES ASSUME IInv, [Next]_vars PROVE IInv'
    OBVIOUS
<1>1. CASE UNCHANGED vars
  <2>1. UNCHANGED form /\ UNCHANGED <<state, err, rawResponse, saveMsg, calls, quitting>>
    BY <1>1 DEF vars, form
  <2>2. FormTypeOK' /\ OneFieldListens' /\ FormRequest' = FormRequest
    BY <2>1, SameForm DEF IInv, TypeOK
  <2>3. AnswerTypeOK'
    BY <2>1 DEF IInv, TypeOK, AnswerTypeOK
  <2>4. AnswerMatchesForm'
    BY <2>1, <2>2 DEF IInv, AnswerMatchesForm
  <2>5. PickerServesFiles'
    BY <2>1 DEF form, IInv, PickerServesFiles
  <2> QED
    BY <2>2, <2>3, <2>4, <2>5 DEF IInv, TypeOK
<1>2. CASE MoveFocus \/ Arrow \/ Space \/ Edit
  BY <1>2, FormStep
<1>3. CASE Enter
  <2>1. CASE SendRequest
    BY <1>3, <2>1, RequestStep DEF Enter
  <2>2. CASE ~SendRequest
    BY <1>3, <2>2, FormStep
  <2> QED
    BY <2>1, <2>2
<1>4. CASE Response \/ Back \/ Save
  BY <1>4, RequestStep
<1>5. CASE QuitKey \/ Quit \/ CancelPicker
  BY <1>5, LeaveStep
<1>6. CASE PickFile
  BY <1>6, PickStep
<1>7. CASE Crash
  BY <1>7, CrashStep
<1> QED
  BY <1>1, <1>2, <1>3, <1>4, <1>5, <1>6, <1>7 DEF Next, Key

\* IInv holds throughout.
THEOREM Invariance == Spec => []IInv
<1>1. Init => IInv
  BY InitIInv
<1>2. IInv /\ [Next]_vars => IInv'
  BY NextIInv
<1> QED
  BY <1>1, <1>2, PTL DEF Spec

\* The model keeps its types and has one request out at most (main.go:332).
THEOREM TypeCorrect == Spec => []TypeOK
<1>1. IInv => TypeOK
  BY DEF IInv
<1> QED
  BY <1>1, Invariance, PTL

\* What is shown and saved answers the request in the form (main.go:338-356).
THEOREM AnswersMatch == Spec => []AnswerMatchesForm
<1>1. IInv => AnswerMatchesForm
  BY DEF IInv
<1> QED
  BY <1>1, Invariance, PTL

\* The highlighted field, and no other, gets what is typed (main.go:281-303).
THEOREM FocusExact == Spec => []OneFieldListens
<1>1. IInv => OneFieldListens
  BY DEF IInv
<1> QED
  BY <1>1, Invariance, PTL

\* The file chosen in the picker is the one that is sent (main.go:243-248).
THEOREM PickedIsSent == Spec => PickedFileIsSent
<1> DEFINE Step == state = "picker" /\ state' = "form" /\ value' # value
                   => FormRequest'.about = value'["file"]
<1>1. IInv /\ [Next]_vars => [Step]_vars
  <2> SUFFICES ASSUME IInv, Next, state = "picker", state' = "form", value' # value
               PROVE  FormRequest'.about = value'["file"]
      BY DEF vars
  <2>1. reqType # reqLookup
    BY DEF IInv, PickerServesFiles
  <2>2. UNCHANGED reqType
    BY DEF Next, Key, QuitKey, AskToQuit, MoveFocus, Arrow, Space, Enter, Edit, CancelPicker,
           PickFile, Back, Save, Quit, Response, Crash, form
  <2> QED
    BY <2>1, <2>2 DEF FormRequest
<1> QED
  BY <1>1, Invariance, PTL DEF Spec, PickedFileIsSent
=============================================================================
