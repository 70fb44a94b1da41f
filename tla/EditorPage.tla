------------------------------ MODULE EditorPage ------------------------------
(***************************************************************************)
(* The challenge and course editors of the web pages (editor/src/main.js,  *)
(* bundled as cm6.js) with the live preview of the edit page               *)
(* (internal/web/views/edit.templ).                                        *)
(*                                                                         *)
(* Several tabs of one browser share localStorage.  A tab shows some       *)
(* textareas; each becomes a CodeMirror editor with its own settings       *)
(* panel, stays a plain textarea, or is replaced by a notice.  A text is   *)
(* identified by the number of the edit that made it; 0 is the text the    *)
(* page came with.  In a number read from storage or from an input, 0 also *)
(* stands for whatever parseInt makes nothing of.                          *)
(***************************************************************************)
EXTENDS Integers, FiniteSets

CONSTANTS
  Tabs,
  Textareas,   \* the elements <textarea data-editor> of all tabs
  TabOf,       \* textarea -> the tab that shows it
  Previewed,   \* the textareas with a preview pane: the course editor's
  Noticed,     \* the textareas with data-mobile-notice: the challenges'
  Flags,       \* the settings that are on or off: lineWrap, vim, relativeLines
  Stored,      \* what localStorage may hold under rd.editor at first
  FontInputs,  \* what the user types into a font control
  MaxEdits,    \* bound on the number of edits
  None         \* nothing stored, tab not loaded, no editor mounted

-----------------------------------------------------------------------------
\* Settings as a page may find them stored, the options of the tab-size select,
\* and what the controls of a panel show, where 0 is a select left empty.
AnySettings == [fontSize : Int, tabSize : Int, on : SUBSET Flags]
TabOptions == {2, 4, 8}
Controls == [font : Int, tab : TabOptions \cup {0}, on : SUBSET Flags]

ASSUME EditorAssumption ==
  /\ TabOf \in [Textareas -> Tabs]
  /\ Previewed \subseteq Textareas
  /\ Noticed \subseteq Textareas
  /\ FontInputs \subseteq Nat
  /\ MaxEdits \in Nat
  /\ Stored \subseteq AnySettings \cup {None}
  /\ Flags \cap {"fontSize", "tabSize"} = {}
ASSUME NoneAssumption ==
  /\ None \notin AnySettings /\ None \notin Controls
  /\ None \notin {"editor", "textarea", "notice"}

VARIABLES
  usable,      \* whether localStorage can be used at all: not in private mode
  stored,      \* localStorage["rd.editor"]
  settings,    \* tab -> its settings, None while it is not loaded
  surface,     \* textarea -> what the user sees in its place
  doc,         \* textarea -> the document of its editor
  value,       \* textarea -> its value, which the form posts and the preview reads
  config,      \* textarea -> the settings its editor's compartments hold
  panel,       \* textarea -> the state of its panel's controls
  debounce,    \* textareas whose preview timer runs
  requests,    \* textarea -> the texts of the preview requests in flight
  preview,     \* textarea -> the text its preview pane shows
  edits        \* how many edits there have been

editors == <<surface, doc, value, config, panel>>
previews == <<debounce, requests, preview>>
vars == <<usable, stored, settings, editors, previews, edits>>

-----------------------------------------------------------------------------
(* Settings.                                                                *)

DEFAULTS == [fontSize |-> 14, tabSize |-> 4, on |-> {}]

Settings == [fontSize : 10..24, tabSize : 1..8, on : SUBSET Flags]

Clamp(n, lo, hi) == IF n < lo THEN lo ELSE IF n > hi THEN hi ELSE n
OrDefault(n, default) == IF n = 0 THEN default ELSE n

LoadAsStored ==   \* mutant: what is stored is taken as it is
  IF usable /\ stored # None
  THEN [fontSize |-> OrDefault(stored.fontSize, DEFAULTS.fontSize),
        tabSize |-> OrDefault(stored.tabSize, DEFAULTS.tabSize),
        on |-> stored.on]
  ELSE DEFAULTS

LoadSettings ==
  IF usable /\ stored # None
  THEN [fontSize |-> Clamp(OrDefault(stored.fontSize, DEFAULTS.fontSize), 10, 24),
        tabSize |-> Clamp(OrDefault(stored.tabSize, DEFAULTS.tabSize), 1, 8),
        on |-> stored.on]
  ELSE DEFAULTS

\* What a panel shows: a tab size that is no option leaves the select empty.
SyncPanel(s) ==
  [font |-> s.fontSize, tab |-> IF s.tabSize \in TabOptions THEN s.tabSize ELSE 0, on |-> s.on]

\* onChange reads every control of its panel, whichever one changed.
ReadPanel(c) ==
  [fontSize |-> Clamp(OrDefault(c.font, DEFAULTS.fontSize), 10, 24),
   tabSize |-> OrDefault(c.tab, DEFAULTS.tabSize), on |-> c.on]

Toggle(on, flag) == IF flag \in on THEN on \ {flag} ELSE on \cup {flag}

ByOneControl(c) ==
  {[c EXCEPT !.font = n] : n \in FontInputs}
    \cup {[c EXCEPT !.tab = n] : n \in TabOptions}
    \cup {[c EXCEPT !.on = Toggle(c.on, flag)] : flag \in Flags}

In(tab) == {t \in Textareas : TabOf[t] = tab}
Mounted(tab) == {t \in In(tab) : surface[t] = "editor"}
Loaded(t) == settings[TabOf[t]] # None

SaveNothing(s) == UNCHANGED stored   \* mutant: a change lasts until the reload
SaveSettings(s) == stored' = IF usable THEN s ELSE stored

ApplyToOne(t, s) ==   \* mutant: the other editors of the page keep theirs
  /\ config' = [config EXCEPT ![t] = s]
  /\ panel' = [panel EXCEPT ![t] = SyncPanel(s)]

SyncOnePanel(t, s) ==   \* mutant: the other panels of the page keep what they show
  /\ config' = [u \in Textareas |-> IF u \in Mounted(TabOf[t]) THEN s ELSE config[u]]
  /\ panel' = [panel EXCEPT ![t] = SyncPanel(s)]

ApplySettings(t, s) ==
  LET mounted == Mounted(TabOf[t]) IN
  /\ config' = [u \in Textareas |-> IF u \in mounted THEN s ELSE config[u]]
  /\ panel' = [u \in Textareas |-> IF u \in mounted THEN SyncPanel(s) ELSE panel[u]]

\* A control of the panel of t changes.
ChangeControl(t) ==
  /\ surface[t] = "editor"
  /\ \E c \in ByOneControl(panel[t]) :
       LET s == ReadPanel(c) IN
       /\ settings' = [settings EXCEPT ![TabOf[t]] = s]
       /\ ApplySettings(t, s)
       /\ SaveSettings(s)
  /\ UNCHANGED <<usable, surface, doc, value, previews, edits>>

-----------------------------------------------------------------------------
(* Pages.                                                                   *)

Slot(t, narrow) ==
  IF ~ narrow THEN "editor" ELSE IF t \in Noticed THEN "notice" ELSE "textarea"

\* A tab is loaded or reloaded, with a window that is narrow or not: init, and
\* for the edit page the first rendering of the preview.
Load(tab, narrow) ==
  LET here == In(tab) IN
  /\ settings' = [settings EXCEPT ![tab] = LoadSettings]
  /\ surface' = [t \in Textareas |-> IF t \in here THEN Slot(t, narrow) ELSE surface[t]]
  /\ doc' = [t \in Textareas |-> IF t \in here THEN 0 ELSE doc[t]]
  /\ value' = [t \in Textareas |-> IF t \in here THEN 0 ELSE value[t]]
  /\ config' = [t \in Textareas |->
       IF t \notin here THEN config[t] ELSE IF narrow THEN None ELSE LoadSettings]
  /\ panel' = [t \in Textareas |->
       IF t \notin here THEN panel[t] ELSE IF narrow THEN None ELSE SyncPanel(LoadSettings)]
  /\ debounce' = debounce \ here
  /\ requests' = [t \in Textareas |->
       IF t \notin here THEN requests[t] ELSE IF t \in Previewed THEN {0} ELSE {}]
  /\ preview' = [t \in Textareas |-> IF t \in here THEN None ELSE preview[t]]
  /\ UNCHANGED <<usable, stored, edits>>

\* The form is submitted: the value is flushed, and stays as what was posted;
\* the browser leaves the page.
Submit(t) ==
  LET here == In(TabOf[t]) IN
  /\ surface[t] \in {"editor", "textarea"}
  /\ value' = [u \in Textareas |->
       IF u \notin here THEN value[u] ELSE IF u # t THEN 0
       ELSE IF surface[t] = "editor" THEN doc[t] ELSE value[t]]
  /\ settings' = [settings EXCEPT ![TabOf[t]] = None]
  /\ surface' = [u \in Textareas |-> IF u \in here THEN None ELSE surface[u]]
  /\ doc' = [u \in Textareas |-> IF u \in here THEN 0 ELSE doc[u]]
  /\ config' = [u \in Textareas |-> IF u \in here THEN None ELSE config[u]]
  /\ panel' = [u \in Textareas |-> IF u \in here THEN None ELSE panel[u]]
  /\ debounce' = debounce \ here
  /\ requests' = [u \in Textareas |-> IF u \in here THEN {} ELSE requests[u]]
  /\ preview' = [u \in Textareas |-> IF u \in here THEN None ELSE preview[u]]
  /\ UNCHANGED <<usable, stored, edits>>

-----------------------------------------------------------------------------
(* Texts.                                                                   *)

InputEverywhere(t) == debounce' = debounce \cup {t}   \* mutant: every editor asks for a preview
Input(t) == debounce' = IF t \in Previewed THEN debounce \cup {t} ELSE debounce

ListenQuietly(t, n) ==   \* mutant: the listener fires no input event
  /\ value' = [value EXCEPT ![t] = n]
  /\ UNCHANGED debounce

ListenOnly(t, n) ==      \* mutant: the value waits for the submit
  /\ Input(t)
  /\ UNCHANGED value

\* The update listener: the textarea gets the new document and an input event.
DocChanged(t, n) ==
  /\ value' = [value EXCEPT ![t] = n]
  /\ Input(t)

Edit(t) ==
  /\ edits < MaxEdits
  /\ edits' = edits + 1
  /\ \/ /\ surface[t] = "editor"
        /\ doc' = [doc EXCEPT ![t] = edits']
        /\ DocChanged(t, edits')
     \/ /\ surface[t] = "textarea"
        /\ value' = [value EXCEPT ![t] = edits']
        /\ Input(t)
        /\ UNCHANGED doc
  /\ UNCHANGED <<usable, stored, settings, surface, config, panel, requests, preview>>

\* 400 ms without an input event: the value is sent for rendering.
RenderPreview(t) ==
  /\ t \in debounce
  /\ debounce' = debounce \ {t}
  /\ requests' = [requests EXCEPT ![t] = @ \cup {value[t]}]
  /\ UNCHANGED <<usable, stored, settings, editors, preview, edits>>

\* An answer arrives, in whatever order, and replaces the pane's content.
PreviewArrives(t, n) ==
  /\ n \in requests[t]
  /\ requests' = [requests EXCEPT ![t] = @ \ {n}]
  /\ preview' = [preview EXCEPT ![t] = n]
  /\ UNCHANGED <<usable, stored, settings, editors, debounce, edits>>

\* The request failed, or the answer is no success: the pane stays.
PreviewFails(t, n) ==
  /\ n \in requests[t]
  /\ requests' = [requests EXCEPT ![t] = @ \ {n}]
  /\ UNCHANGED <<usable, stored, settings, editors, debounce, preview, edits>>

-----------------------------------------------------------------------------
Init ==
  /\ usable \in BOOLEAN
  /\ stored \in Stored
  /\ settings = [tab \in Tabs |-> None]
  /\ surface = [t \in Textareas |-> None]
  /\ doc = [t \in Textareas |-> 0]
  /\ value = [t \in Textareas |-> 0]
  /\ config = [t \in Textareas |-> None]
  /\ panel = [t \in Textareas |-> None]
  /\ debounce = {}
  /\ requests = [t \in Textareas |-> {}]
  /\ preview = [t \in Textareas |-> None]
  /\ edits = 0

Next ==
  \/ \E tab \in Tabs, narrow \in BOOLEAN : Load(tab, narrow)
  \/ \E t \in Textareas :
       \/ ChangeControl(t)
       \/ Edit(t)
       \/ Submit(t)
       \/ RenderPreview(t)
       \/ \E n \in requests[t] : PreviewArrives(t, n) \/ PreviewFails(t, n)

Spec == Init /\ [][Next]_vars

\* A timer that is not reset fires.
FairSpec == Spec /\ \A t \in Previewed : WF_vars(RenderPreview(t))

-----------------------------------------------------------------------------
(* What the editors promise.                                                *)

\* Every variable has its type, and only a mounted editor has a panel.
TypeOK ==
  /\ usable \in BOOLEAN
  /\ stored \in AnySettings \cup {None}
  /\ settings \in [Tabs -> AnySettings \cup {None}]
  /\ surface \in [Textareas -> {"editor", "textarea", "notice", None}]
  /\ doc \in [Textareas -> 0..MaxEdits]
  /\ value \in [Textareas -> 0..MaxEdits]
  /\ config \in [Textareas -> AnySettings \cup {None}]
  /\ panel \in [Textareas -> Controls \cup {None}]
  /\ \A t \in Textareas : (panel[t] # None) <=> (surface[t] = "editor")
  /\ debounce \in SUBSET Previewed
  /\ requests \in [Textareas -> SUBSET (0..MaxEdits)]
  /\ preview \in [Textareas -> 0..MaxEdits \cup {None}]
  /\ edits \in 0..MaxEdits

\* Whatever was stored by hand or by an older schema and whatever is typed into
\* a control, the settings in force can be mounted: none breaks the page.
SettingsInRange == \A tab \in Tabs : settings[tab] # None => settings[tab] \in Settings

\* Every editor of a page is configured with the page's settings, and every
\* panel shows them, whichever panel they were changed in.
EditorsAgree ==
  \A t \in Textareas : surface[t] = "editor" =>
    /\ config[t] = settings[TabOf[t]]
    /\ panel[t] = SyncPanel(settings[TabOf[t]])

\* What the form would post and the preview would render is what the user sees,
\* in an editor at every moment, and not only once the form is submitted.
ValueFollowsDocument == \A t \in Textareas : surface[t] = "editor" => value[t] = doc[t]

\* The settings, flag by flag, that differ between two records.
Changed(old, new) ==
  {f \in {"fontSize", "tabSize"} : old[f] # new[f]}
    \cup (old.on \ new.on) \cup (new.on \ old.on)

\* A stored tab size the select does not offer, read back as the default.
ReadAsEmpty(old, new) ==
  IF old.tabSize \notin TabOptions /\ new.tabSize = DEFAULTS.tabSize THEN {"tabSize"} ELSE {}

\* One use of a control changes one setting of the page: no panel carries another
\* one back to what it was. Besides it, at most a stored tab size the select does
\* not offer changes, and only to the default: onChange reads the empty select too.
ChangesOneSetting ==
  [][\A t \in Textareas : ChangeControl(t) =>
       LET old == settings[TabOf[t]]
           new == settings'[TabOf[t]]
       IN  Cardinality(Changed(old, new) \ ReadAsEmpty(old, new)) <= 1]_vars

\* Settings survive a reload: whenever they change, loading what is stored
\* afterwards gives them back, unless another tab stores its own.
SettingsPersist ==
  [][\A tab \in Tabs :
       usable /\ settings'[tab] # settings[tab] /\ settings'[tab] # None
         => LoadSettings' = settings'[tab]]_vars

\* Typing in the editor reaches the preview: a text of the course editor is sent
\* for rendering, unless a newer text replaces it or the page is left first.
EditsAreRendered ==
  \A t \in Previewed, n \in 1..MaxEdits :
    <>(surface[t] = "editor" /\ doc[t] = n)
      => <>(n \in requests[t] \/ (edits >= n /\ doc[t] # n))

==============================================================================
