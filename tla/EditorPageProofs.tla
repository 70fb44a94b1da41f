--------------------------- MODULE EditorPageProofs ---------------------------
(***************************************************************************)
(* What holds of the editors of any number of tabs and textareas, whatever  *)
(* localStorage held at first and whatever is typed into the controls.      *)
(***************************************************************************)
EXTENDS EditorPage, FiniteSetTheorems, TLAPS

-----------------------------------------------------------------------------
(* Settings.                                                                *)

\* Whatever integers are stored, what is loaded can be mounted.
LEMMA LoadedInRange ==
  ASSUME stored \in AnySettings \cup {None}
  PROVE  LoadSettings \in Settings
BY DEF LoadSettings, AnySettings, Settings, DEFAULTS, Clamp, OrDefault

\* Whatever a panel shows and whichever control is used, what is read from it
\* can be mounted.
LEMMA ReadInRange ==
  ASSUME NEW c \in Controls, NEW d \in ByOneControl(c)
  PROVE  ReadPanel(d) \in Settings
<1>1. d \in Controls
  BY EditorAssumption DEF ByOneControl, Controls, Toggle, TabOptions
<1> QED
  BY <1>1 DEF ReadPanel, Controls, Settings, DEFAULTS, TabOptions, Clamp, OrDefault

\* Settings are shown by controls.
LEMMA SyncPanelType ==
  ASSUME NEW s \in Settings
  PROVE  SyncPanel(s) \in Controls
BY DEF SyncPanel, Controls, Settings, TabOptions

\* Settings in range are settings, and neither they nor controls are None.
LEMMA SettingsType ==
  /\ Settings \subseteq AnySettings
  /\ \A s \in Settings : s # None
  /\ \A c \in Controls : c # None
BY NoneAssumption DEF Settings, AnySettings

-----------------------------------------------------------------------------
(* Type correctness and the settings in force.                              *)

\* The part of the types that is about settings and texts, by variable.
SettingsOK ==
  /\ usable \in BOOLEAN
  /\ stored \in AnySettings \cup {None}
  /\ settings \in [Tabs -> AnySettings \cup {None}]

EditorsOK ==
  /\ surface \in [Textareas -> {"editor", "textarea", "notice", None}]
  /\ config \in [Textareas -> AnySettings \cup {None}]
  /\ panel \in [Textareas -> Controls \cup {None}]
  /\ \A t \in Textareas : (panel[t] # None) <=> (surface[t] = "editor")

TextsOK ==
  /\ doc \in [Textareas -> 0..MaxEdits]
  /\ value \in [Textareas -> 0..MaxEdits]
  /\ edits \in 0..MaxEdits

PreviewsOK ==
  /\ debounce \in SUBSET Previewed
  /\ requests \in [Textareas -> SUBSET (0..MaxEdits)]
  /\ preview \in [Textareas -> 0..MaxEdits \cup {None}]

\* The types are all of these.
LEMMA TypeParts == TypeOK <=> SettingsOK /\ EditorsOK /\ TextsOK /\ PreviewsOK
BY DEF TypeOK, SettingsOK, EditorsOK, TextsOK, PreviewsOK

\* Every step keeps what is settled about a page: types, the range of the
\* settings, the agreement of its editors, and the values of its textareas.
PageInv == TypeOK /\ SettingsInRange /\ EditorsAgree /\ ValueFollowsDocument

\* No tab is loaded at first.
LEMMA PageInitInv == Init => PageInv
<1> SUFFICES ASSUME Init PROVE PageInv
  OBVIOUS
<1>1. \A t \in Textareas : surface[t] # "editor"
  BY NoneAssumption DEF Init
<1>2. TypeOK
  <2>1. SettingsOK
    BY EditorAssumption DEF Init, SettingsOK
  <2>2. EditorsOK
    BY <1>1 DEF Init, EditorsOK
  <2>3. TextsOK
    BY EditorAssumption DEF Init, TextsOK
  <2>4. PreviewsOK
    BY DEF Init, PreviewsOK
  <2> QED
    BY <2>1, <2>2, <2>3, <2>4, TypeParts
<1>3. SettingsInRange
  BY DEF Init, SettingsInRange
<1> QED
  BY <1>1, <1>2, <1>3 DEF PageInv, EditorsAgree, ValueFollowsDocument

\* Loading a tab.
LEMMA LoadInv ==
  ASSUME PageInv, NEW tab \in Tabs, NEW narrow \in BOOLEAN, Load(tab, narrow)
  PROVE  PageInv'
<1> DEFINE s == LoadSettings
<1>0. SettingsOK /\ EditorsOK /\ TextsOK /\ PreviewsOK
  BY TypeParts DEF PageInv
<1>1. s \in Settings /\ s \in AnySettings /\ s # None
  BY <1>0, LoadedInRange, SettingsType DEF SettingsOK
<1>2. SyncPanel(s) \in Controls /\ SyncPanel(s) # None
  BY <1>1, SyncPanelType, SettingsType
<1>3. \A t \in Textareas : Slot(t, narrow) \in {"editor", "textarea", "notice"}
                           /\ (Slot(t, narrow) = "editor" <=> ~ narrow)
  BY DEF Slot
<1>4. settings' = [settings EXCEPT ![tab] = s] /\ UNCHANGED <<usable, stored>>
  BY DEF Load
<1>5. \A t \in In(tab) :
        /\ surface'[t] = Slot(t, narrow)
        /\ config'[t] = IF narrow THEN None ELSE s
        /\ panel'[t] = IF narrow THEN None ELSE SyncPanel(s)
        /\ doc'[t] = 0 /\ value'[t] = 0
  BY DEF Load, In
<1>6. \A t \in Textareas \ In(tab) :
        UNCHANGED <<surface[t], config[t], panel[t], doc[t], value[t]>>
  BY DEF Load
<1> HIDE DEF s
<1>7. SettingsOK'
  BY <1>0, <1>1, <1>4 DEF SettingsOK
<1>8. EditorsOK'
  <2>1. surface' \in [Textareas -> {"editor", "textarea", "notice", None}]
    BY <1>0, <1>3 DEF EditorsOK, Load
  <2>2. config' \in [Textareas -> AnySettings \cup {None}]
    BY <1>0, <1>1 DEF EditorsOK, Load, s
  <2>3. panel' \in [Textareas -> Controls \cup {None}]
    BY <1>0, <1>2 DEF EditorsOK, Load, s
  <2>4. \A t \in Textareas : (panel'[t] # None) <=> (surface'[t] = "editor")
    BY <1>0, <1>2, <1>3, <1>5, <1>6 DEF EditorsOK
  <2> QED
    BY <2>1, <2>2, <2>3, <2>4 DEF EditorsOK
<1>9. TextsOK'
  BY <1>0, EditorAssumption DEF TextsOK, Load
<1>10. PreviewsOK'
  BY <1>0, EditorAssumption DEF PreviewsOK, Load
<1>11. SettingsInRange'
  BY <1>0, <1>1, <1>4 DEF PageInv, SettingsInRange, SettingsOK
<1>12. EditorsAgree'
  <2> SUFFICES ASSUME NEW t \in Textareas, surface'[t] = "editor"
               PROVE  /\ config'[t] = settings'[TabOf[t]]
                      /\ panel'[t] = SyncPanel(settings'[TabOf[t]])
    BY DEF EditorsAgree, SyncPanel
  <2>1. CASE t \in In(tab)
    <3>1. TabOf[t] = tab /\ ~ narrow
      BY <1>3, <1>5, <2>1 DEF In
    <3> QED
      BY <1>0, <1>4, <1>5, <2>1, <3>1 DEF SettingsOK
  <2>2. CASE t \notin In(tab)
    <3>1. TabOf[t] \in Tabs \ {tab}
      BY <2>2, EditorAssumption DEF In
    <3> QED
      BY <1>0, <1>4, <1>6, <2>2, <3>1 DEF PageInv, EditorsAgree, SettingsOK
  <2> QED
    BY <2>1, <2>2
<1>13. ValueFollowsDocument'
  BY <1>5, <1>6 DEF PageInv, ValueFollowsDocument
<1> QED
  BY <1>7, <1>8, <1>9, <1>10, <1>11, <1>12, <1>13, TypeParts DEF PageInv,
     SettingsOK, EditorsOK, TextsOK, PreviewsOK, TypeOK

\* Using a control of a panel.
LEMMA ChangeInv ==
  ASSUME PageInv, NEW t \in Textareas, ChangeControl(t)
  PROVE  PageInv'
<1> DEFINE tab == TabOf[t]
<1>0. SettingsOK /\ EditorsOK /\ TextsOK /\ PreviewsOK
  BY TypeParts DEF PageInv
<1>1. panel[t] \in Controls /\ tab \in Tabs
  BY <1>0, EditorAssumption DEF ChangeControl, EditorsOK
<1>2. PICK c \in ByOneControl(panel[t]) :
        /\ settings' = [settings EXCEPT ![tab] = ReadPanel(c)]
        /\ ApplySettings(t, ReadPanel(c))
        /\ SaveSettings(ReadPanel(c))
  BY DEF ChangeControl
<1> DEFINE s == ReadPanel(c)
<1>3. s \in Settings /\ s \in AnySettings /\ s # None
  BY <1>1, ReadInRange, SettingsType
<1>4. SyncPanel(s) \in Controls /\ SyncPanel(s) # None
  BY <1>3, SyncPanelType, SettingsType
<1>5. UNCHANGED <<usable, surface, doc, value, previews, edits>>
  BY DEF ChangeControl
<1>6. /\ settings' = [settings EXCEPT ![tab] = s]
      /\ config' = [u \in Textareas |-> IF u \in Mounted(tab) THEN s ELSE config[u]]
      /\ panel' = [u \in Textareas |-> IF u \in Mounted(tab) THEN SyncPanel(s) ELSE panel[u]]
      /\ stored' = IF usable THEN s ELSE stored
  BY <1>2 DEF ApplySettings, SaveSettings
<1> HIDE DEF s
<1>7. SettingsOK'
  BY <1>0, <1>1, <1>3, <1>5, <1>6 DEF SettingsOK
<1>8. EditorsOK'
  <2>1. config' \in [Textareas -> AnySettings \cup {None}]
    BY <1>0, <1>3, <1>6 DEF EditorsOK
  <2>2. panel' \in [Textareas -> Controls \cup {None}]
    BY <1>0, <1>4, <1>6 DEF EditorsOK
  <2>3. \A u \in Textareas : (panel'[u] # None) <=> (surface'[u] = "editor")
    BY <1>0, <1>4, <1>5, <1>6 DEF EditorsOK, Mounted, In
  <2> QED
    BY <1>0, <1>5, <2>1, <2>2, <2>3 DEF EditorsOK
<1>9. TextsOK' /\ PreviewsOK'
  BY <1>0, <1>5 DEF TextsOK, PreviewsOK, previews
<1>10. SettingsInRange'
  BY <1>0, <1>1, <1>3, <1>6 DEF PageInv, SettingsInRange, SettingsOK
<1>11. EditorsAgree'
  <2> SUFFICES ASSUME NEW u \in Textareas, surface'[u] = "editor"
               PROVE  /\ config'[u] = settings'[TabOf[u]]
                      /\ panel'[u] = SyncPanel(settings'[TabOf[u]])
    BY DEF EditorsAgree, SyncPanel
  <2>1. surface[u] = "editor" /\ TabOf[u] \in Tabs
    BY <1>5, EditorAssumption
  <2>2. CASE TabOf[u] = tab
    BY <1>0, <1>1, <1>6, <2>1, <2>2 DEF SettingsOK, Mounted, In
  <2>3. CASE TabOf[u] # tab
    BY <1>0, <1>1, <1>6, <2>1, <2>3 DEF PageInv, EditorsAgree, SettingsOK, Mounted, In
  <2> QED
    BY <2>2, <2>3
<1>12. ValueFollowsDocument'
  BY <1>5 DEF PageInv, ValueFollowsDocument
<1> QED
  BY <1>7, <1>8, <1>9, <1>10, <1>11, <1>12 DEF PageInv,
     SettingsOK, EditorsOK, TextsOK, PreviewsOK, TypeOK

\* Submitting a form.
LEMMA SubmitInv ==
  ASSUME PageInv, NEW t \in Textareas, Submit(t)
  PROVE  PageInv'
<1> DEFINE tab == TabOf[t]
<1>0. SettingsOK /\ EditorsOK /\ TextsOK /\ PreviewsOK
  BY TypeParts DEF PageInv
<1>1. settings' = [settings EXCEPT ![tab] = None] /\ tab \in Tabs
  BY EditorAssumption DEF Submit
<1>2. \A u \in In(tab) : surface'[u] # "editor" /\ surface'[u] = None /\ panel'[u] = None
  BY NoneAssumption DEF Submit, In
<1>3. \A u \in Textareas \ In(tab) :
        UNCHANGED <<surface[u], config[u], panel[u], doc[u]>>
  BY DEF Submit
<1>4. \A u \in Textareas \ In(tab) : value'[u] = value[u]
  BY DEF Submit
<1>5. SettingsOK'
  BY <1>0, <1>1 DEF SettingsOK, Submit
<1>6. EditorsOK'
  <2>1. surface' \in [Textareas -> {"editor", "textarea", "notice", None}]
    BY <1>0 DEF EditorsOK, Submit
  <2>2. config' \in [Textareas -> AnySettings \cup {None}]
    BY <1>0 DEF EditorsOK, Submit
  <2>3. panel' \in [Textareas -> Controls \cup {None}]
    BY <1>0 DEF EditorsOK, Submit
  <2> QED
    BY <1>0, <1>2, <1>3, <2>1, <2>2, <2>3 DEF EditorsOK
<1>7. TextsOK'
  <2>1. 0 \in 0..MaxEdits
    BY EditorAssumption
  <2> QED
    BY <1>0, <2>1 DEF TextsOK, Submit
<1>8. PreviewsOK'
  BY <1>0 DEF PreviewsOK, Submit
<1>9. SettingsInRange'
  BY <1>0, <1>1 DEF PageInv, SettingsInRange, SettingsOK
<1>10. EditorsAgree'
  <2> SUFFICES ASSUME NEW u \in Textareas, surface'[u] = "editor"
               PROVE  /\ config'[u] = settings'[TabOf[u]]
                      /\ panel'[u] = SyncPanel(settings'[TabOf[u]])
    BY DEF EditorsAgree, SyncPanel
  <2>1. u \notin In(tab)
    BY <1>2
  <2>2. TabOf[u] \in Tabs \ {tab}
    BY <2>1, EditorAssumption DEF In
  <2> QED
    BY <1>0, <1>1, <1>3, <2>1, <2>2 DEF PageInv, EditorsAgree, SettingsOK
<1>11. ValueFollowsDocument'
  BY <1>2, <1>3, <1>4 DEF PageInv, ValueFollowsDocument
<1> QED
  BY <1>5, <1>6, <1>7, <1>8, <1>9, <1>10, <1>11 DEF PageInv,
     SettingsOK, EditorsOK, TextsOK, PreviewsOK, TypeOK

\* Typing.
LEMMA EditInv ==
  ASSUME PageInv, NEW t \in Textareas, Edit(t)
  PROVE  PageInv'
<1>0. SettingsOK /\ EditorsOK /\ TextsOK /\ PreviewsOK
  BY TypeParts DEF PageInv
<1>1. edits' \in 0..MaxEdits
  BY <1>0, EditorAssumption DEF Edit, TextsOK
<1>2. UNCHANGED <<usable, stored, settings, surface, config, panel, requests, preview>>
  BY DEF Edit
<1>3. value' = [value EXCEPT ![t] = edits']
  BY DEF Edit, DocChanged
<1>4. doc' = IF surface[t] = "editor" THEN [doc EXCEPT ![t] = edits'] ELSE doc
  BY DEF Edit
<1>5. debounce' \subseteq debounce \cup (Previewed \cap {t})
  BY DEF Edit, DocChanged, Input
<1>6. TextsOK'
  BY <1>0, <1>1, <1>3, <1>4 DEF TextsOK
<1>7. PreviewsOK'
  BY <1>0, <1>2, <1>5 DEF PreviewsOK
<1>8. SettingsOK' /\ EditorsOK' /\ SettingsInRange'
  BY <1>0, <1>2 DEF SettingsOK, EditorsOK, PageInv, SettingsInRange
<1>9. EditorsAgree'
  BY <1>2 DEF PageInv, EditorsAgree, SyncPanel
<1>10. ValueFollowsDocument'
  BY <1>0, <1>2, <1>3, <1>4 DEF PageInv, ValueFollowsDocument, TextsOK
<1> QED
  BY <1>6, <1>7, <1>8, <1>9, <1>10 DEF PageInv,
     SettingsOK, EditorsOK, TextsOK, PreviewsOK, TypeOK

\* The preview.
LEMMA PreviewInv ==
  ASSUME PageInv, NEW t \in Textareas,
         RenderPreview(t) \/ (\E n \in requests[t] : PreviewArrives(t, n) \/ PreviewFails(t, n))
  PROVE  PageInv'
<1>0. SettingsOK /\ EditorsOK /\ TextsOK /\ PreviewsOK
  BY TypeParts DEF PageInv
<1>1. UNCHANGED <<usable, stored, settings, editors, edits>>
  BY DEF RenderPreview, PreviewArrives, PreviewFails
<1>2. PreviewsOK'
  <2>1. CASE RenderPreview(t)
    BY <1>0, <2>1 DEF PreviewsOK, TextsOK, RenderPreview
  <2>2. ASSUME NEW n \in requests[t], PreviewArrives(t, n) \/ PreviewFails(t, n)
        PROVE  PreviewsOK'
    BY <1>0, <2>2 DEF PreviewsOK, PreviewArrives, PreviewFails
  <2> QED
    BY <2>1, <2>2
<1>3. SettingsOK' /\ EditorsOK' /\ TextsOK'
  BY <1>0, <1>1 DEF SettingsOK, EditorsOK, TextsOK, editors
<1>4. SettingsInRange' /\ EditorsAgree' /\ ValueFollowsDocument'
  BY <1>1 DEF PageInv, SettingsInRange, EditorsAgree, ValueFollowsDocument, SyncPanel, editors
<1> QED
  BY <1>2, <1>3, <1>4 DEF PageInv, SettingsOK, EditorsOK, TextsOK, PreviewsOK, TypeOK

\* The invariant is inductive.
LEMMA PageNextInv == PageInv /\ [Next]_vars => PageInv'
<1> SUFFICES ASSUME PageInv, [Next]_vars PROVE PageInv'
  OBVIOUS
<1>1. CASE UNCHANGED vars
  BY <1>1 DEF vars, editors, previews, PageInv, TypeOK, SettingsInRange, EditorsAgree,
     ValueFollowsDocument, SyncPanel
<1>2. CASE Next
  BY <1>2, LoadInv, ChangeInv, SubmitInv, EditInv, PreviewInv DEF Next
<1> QED
  BY <1>1, <1>2

\* The invariant holds of every reachable state.
LEMMA PageInvariance == Spec => []PageInv
BY PageInitInv, PageNextInv, PTL DEF Spec

-----------------------------------------------------------------------------
(* What the editors promise.                                                *)

\* The variables keep their types, and only a mounted editor has a panel.
THEOREM PageTypeCorrect == Spec => []TypeOK
BY PageInvariance, PTL DEF PageInv

\* No settings break a page, whatever was stored or typed.
THEOREM SettingsStayInRange == Spec => []SettingsInRange
BY PageInvariance, PTL DEF PageInv

\* All editors and panels of a page agree with the page's settings.
THEOREM EditorsStayInAgreement == Spec => []EditorsAgree
BY PageInvariance, PTL DEF PageInv

\* The form and the preview read what the user sees.
THEOREM ValuesFollowDocuments == Spec => []ValueFollowsDocument
BY PageInvariance, PTL DEF PageInv

\* What is stored when settings change gives them back to the next load.
THEOREM SettingsArePersistent == Spec => SettingsPersist
<1>1. PageInv /\ PageInv' /\ [Next]_vars
        => [\A tab \in Tabs :
              usable /\ settings'[tab] # settings[tab] /\ settings'[tab] # None
                => LoadSettings' = settings'[tab]]_vars
  <2> SUFFICES ASSUME PageInv, PageInv', Next, NEW tab \in Tabs, usable,
                      settings'[tab] # settings[tab], settings'[tab] # None
               PROVE  LoadSettings' = settings'[tab]
    BY DEF vars
  <2>0. SettingsOK /\ EditorsOK /\ settings'[tab] \in Settings
    BY TypeParts DEF PageInv, SettingsInRange
  <2>1. ASSUME NEW loaded \in Tabs, NEW narrow \in BOOLEAN, Load(loaded, narrow)
        PROVE  LoadSettings' = settings'[tab]
    <3>1. settings' = [settings EXCEPT ![loaded] = LoadSettings] /\ UNCHANGED <<usable, stored>>
      BY <2>1 DEF Load
    <3>2. LoadSettings' = LoadSettings
      BY <3>1 DEF LoadSettings
    <3> QED
      BY <2>0, <3>1, <3>2 DEF SettingsOK
  <2>2. ASSUME NEW t \in Textareas, ChangeControl(t)
        PROVE  LoadSettings' = settings'[tab]
    <3>1. usable' = usable /\ \E s :
            settings' = [settings EXCEPT ![TabOf[t]] = s] /\ stored' = IF usable THEN s ELSE stored
      BY <2>2 DEF ChangeControl, SaveSettings
    <3>2. stored' = settings'[tab] /\ usable' = TRUE
      BY <2>0, <3>1, EditorAssumption DEF SettingsOK
    <3>3. stored' \in Settings /\ stored' # None
      BY <2>0, <3>2, SettingsType
    <3> QED
      BY <3>2, <3>3 DEF LoadSettings, Settings, Clamp, OrDefault
  <2>3. ASSUME NEW t \in Textareas, Submit(t) PROVE FALSE
    BY <2>0, <2>3 DEF Submit, SettingsOK
  <2> QED
    BY <2>1, <2>2, <2>3 DEF Next, Edit, RenderPreview, PreviewArrives, PreviewFails
<1> QED
  BY <1>1, PageInvariance, PTL DEF Spec, SettingsPersist

\* A panel that shows settings in range gives them back when it is read, except
\* for the one control that was used and for a select that shows no tab size.
LEMMA OneControlOneField ==
  ASSUME NEW old \in Settings, NEW c \in ByOneControl(SyncPanel(old))
  PROVE  \E f : Changed(old, ReadPanel(c)) \ ReadAsEmpty(old, ReadPanel(c)) \subseteq {f}
<1> DEFINE p == SyncPanel(old)
           new == ReadPanel(c)
           Others == Changed(old, new) \ ReadAsEmpty(old, new)
<1>1. p = [font |-> old.fontSize, tab |-> IF old.tabSize \in TabOptions THEN old.tabSize ELSE 0,
           on |-> old.on]
  BY DEF SyncPanel
<1>2. /\ new.fontSize = Clamp(OrDefault(c.font, DEFAULTS.fontSize), 10, 24)
      /\ new.tabSize = OrDefault(c.tab, DEFAULTS.tabSize)
      /\ new.on = c.on
  BY DEF ReadPanel
<1>3. old.fontSize \in 10..24 /\ 0 \notin TabOptions
  BY DEF Settings, TabOptions
<1> HIDE DEF new
<1>4. c.font = p.font => new.fontSize = old.fontSize
  BY <1>1, <1>2, <1>3 DEF Clamp, OrDefault
<1>5. ASSUME c.tab = p.tab
      PROVE  new.tabSize = old.tabSize \/ "tabSize" \in ReadAsEmpty(old, new)
  <2>1. CASE old.tabSize \in TabOptions
    BY <1>1, <1>2, <1>3, <1>5, <2>1 DEF OrDefault
  <2>2. CASE old.tabSize \notin TabOptions
    BY <1>1, <1>2, <1>5, <2>2 DEF OrDefault, ReadAsEmpty
  <2> QED
    BY <2>1, <2>2
<1>6. c.on = p.on => new.on = old.on
  BY <1>1, <1>2
<1>7. \/ c.tab = p.tab /\ c.on = p.on
      \/ c.font = p.font /\ c.on = p.on
      \/ c.font = p.font /\ c.tab = p.tab /\ \E flag \in Flags : c.on = Toggle(p.on, flag)
  BY <1>1 DEF ByOneControl
<1>8. CASE c.tab = p.tab /\ c.on = p.on
  <2>1. Others \subseteq {"fontSize"}
    BY <1>5, <1>6, <1>8 DEF Changed
  <2> QED
    BY <2>1 DEF new
<1>9. CASE c.font = p.font /\ c.on = p.on
  <2>1. Others \subseteq {"tabSize"}
    BY <1>4, <1>6, <1>9 DEF Changed
  <2> QED
    BY <2>1 DEF new
<1>10. CASE c.font = p.font /\ c.tab = p.tab /\ \E flag \in Flags : c.on = Toggle(p.on, flag)
  <2>1. PICK flag \in Flags : c.on = Toggle(old.on, flag)
    BY <1>1, <1>10
  <2>2. Others \subseteq {flag}
    BY <1>2, <1>4, <1>5, <1>10, <2>1 DEF Changed, Toggle
  <2> QED
    BY <2>2 DEF new
<1> QED
  BY <1>7, <1>8, <1>9, <1>10

\* What is in a textarea's place is there because its tab was loaded.
TabsAreLoaded == \A t \in Textareas : surface[t] # None => Loaded(t)

\* A tab that is left shows nothing of its textareas any more.
LEMMA LoadedInvariance == Spec => []TabsAreLoaded
<1>1. Init => TabsAreLoaded
  BY DEF Init, TabsAreLoaded
<1>2. TabsAreLoaded /\ PageInv /\ [Next]_vars => TabsAreLoaded'
  <2> SUFFICES ASSUME TabsAreLoaded, PageInv, [Next]_vars,
                      NEW u \in Textareas, surface'[u] # None
               PROVE  settings'[TabOf[u]] # None
    BY DEF TabsAreLoaded, Loaded
  <2>0. SettingsOK /\ TabOf[u] \in Tabs
    BY TypeParts, EditorAssumption DEF PageInv
  <2>1. ASSUME NEW tab \in Tabs, NEW narrow \in BOOLEAN, Load(tab, narrow)
        PROVE  settings'[TabOf[u]] # None
    <3>1. settings' = [settings EXCEPT ![tab] = LoadSettings] /\ LoadSettings # None
      BY <2>0, <2>1, LoadedInRange, SettingsType DEF Load, SettingsOK
    <3>2. CASE u \in In(tab)
      BY <2>0, <3>1, <3>2 DEF In, SettingsOK
    <3>3. CASE u \notin In(tab)
      <4>1. surface'[u] = surface[u]
        BY <2>1, <3>3 DEF Load
      <4> QED
        BY <2>0, <3>1, <4>1 DEF TabsAreLoaded, Loaded, SettingsOK
    <3> QED
      BY <3>2, <3>3
  <2>2. ASSUME NEW t \in Textareas, ChangeControl(t)
        PROVE  settings'[TabOf[u]] # None
    <3>1. PICK c \in ByOneControl(panel[t]) :
            settings' = [settings EXCEPT ![TabOf[t]] = ReadPanel(c)]
      BY <2>2 DEF ChangeControl
    <3>2. ReadPanel(c) # None
      <4>1. panel[t] \in Controls
        BY <2>2, TypeParts DEF ChangeControl, PageInv, EditorsOK
      <4> QED
        BY <3>1, <4>1, ReadInRange, SettingsType
    <3>3. surface'[u] = surface[u]
      BY <2>2 DEF ChangeControl
    <3> QED
      BY <2>0, <3>1, <3>2, <3>3 DEF TabsAreLoaded, Loaded, SettingsOK
  <2>3. ASSUME NEW t \in Textareas, Submit(t)
        PROVE  settings'[TabOf[u]] # None
    <3>1. settings' = [settings EXCEPT ![TabOf[t]] = None]
      BY <2>3 DEF Submit
    <3>2. surface' = [v \in Textareas |-> IF v \in In(TabOf[t]) THEN None ELSE surface[v]]
      BY <2>3 DEF Submit
    <3>3. TabOf[u] # TabOf[t] /\ surface'[u] = surface[u]
      BY <3>2 DEF In
    <3> QED
      BY <2>0, <3>1, <3>3 DEF TabsAreLoaded, Loaded, SettingsOK
  <2>4. CASE UNCHANGED <<surface, settings>>
    BY <2>4 DEF TabsAreLoaded, Loaded
  <2> QED
    BY <2>1, <2>2, <2>3, <2>4
       DEF Next, Edit, RenderPreview, PreviewArrives, PreviewFails, vars, editors
<1> QED
  BY <1>1, <1>2, PageInvariance, PTL DEF Spec

\* One use of a control changes one setting, and no other but a tab size the
\* select does not offer, which becomes the default.
THEOREM ControlsChangeOneSetting == Spec => ChangesOneSetting
<1>1. PageInv /\ TabsAreLoaded
        => [\A t \in Textareas : ChangeControl(t) =>
                    LET old == settings[TabOf[t]]
                        new == settings'[TabOf[t]]
                    IN  Cardinality(Changed(old, new) \ ReadAsEmpty(old, new)) <= 1]_vars
  <2> SUFFICES ASSUME PageInv, TabsAreLoaded, NEW t \in Textareas, ChangeControl(t)
               PROVE  Cardinality(Changed(settings[TabOf[t]], settings'[TabOf[t]])
                        \ ReadAsEmpty(settings[TabOf[t]], settings'[TabOf[t]])) <= 1
    OBVIOUS
  <2> DEFINE tab == TabOf[t]
  <2>0. SettingsOK /\ EditorsOK /\ tab \in Tabs
    BY TypeParts, EditorAssumption DEF PageInv
  <2>1. PICK c \in ByOneControl(panel[t]) :
          settings' = [settings EXCEPT ![tab] = ReadPanel(c)]
    BY DEF ChangeControl
  <2>2. panel[t] = SyncPanel(settings[tab]) /\ panel[t] # None
    BY <2>0 DEF ChangeControl, PageInv, EditorsAgree, EditorsOK
  <2>3. settings[tab] \in Settings
    BY <2>0, NoneAssumption DEF PageInv, SettingsInRange, ChangeControl, TabsAreLoaded, Loaded
  <2>4. settings'[tab] = ReadPanel(c)
    BY <2>0, <2>1 DEF SettingsOK
  <2>5. PICK f : Changed(settings[tab], settings'[tab])
                   \ ReadAsEmpty(settings[tab], settings'[tab]) \subseteq {f}
    BY <2>1, <2>2, <2>3, <2>4, OneControlOneField
  <2>6. IsFiniteSet({f}) /\ Cardinality({f}) = 1
    BY FS_Singleton
  <2>7. Cardinality(Changed(settings[tab], settings'[tab])
          \ ReadAsEmpty(settings[tab], settings'[tab])) <= Cardinality({f})
    BY <2>5, <2>6, FS_Subset
  <2>8. ReadAsEmpty(settings[tab], settings'[tab]) \in SUBSET {"tabSize"}
    BY DEF ReadAsEmpty
  <2> QED
    BY <2>6, <2>7
<1> QED
  BY <1>1, PageInvariance, LoadedInvariance, PTL DEF Spec, ChangesOneSetting

-----------------------------------------------------------------------------
(* The preview.                                                             *)

\* A document is the work of an edit there has been, and only an editor has one.
DocsInv ==
  \A t \in Textareas : doc[t] <= edits /\ (surface[t] # "editor" => doc[t] = 0)

\* What every kind of step does to the documents.
LEMMA DocSteps ==
  ASSUME PageInv, [Next]_vars, NEW t \in Textareas
  PROVE  /\ edits' \in {edits, edits + 1}
         /\ \/ doc'[t] = doc[t] /\ surface'[t] = surface[t]
            \/ doc'[t] = 0
            \/ Edit(t) /\ surface[t] = "editor" /\ doc'[t] = edits + 1 /\ edits' = edits + 1
                       /\ surface'[t] = surface[t]
<1>0. SettingsOK /\ EditorsOK /\ TextsOK /\ PreviewsOK
  BY TypeParts DEF PageInv
<1>1. ASSUME NEW tab \in Tabs, NEW narrow \in BOOLEAN, Load(tab, narrow)
      PROVE  edits' = edits /\ (doc'[t] = 0 \/ (doc'[t] = doc[t] /\ surface'[t] = surface[t]))
  <2>1. doc' = [u \in Textareas |-> IF u \in In(tab) THEN 0 ELSE doc[u]]
    BY <1>1 DEF Load
  <2>2. surface' = [u \in Textareas |-> IF u \in In(tab) THEN Slot(u, narrow) ELSE surface[u]]
    BY <1>1 DEF Load
  <2>3. edits' = edits
    BY <1>1 DEF Load
  <2> QED
    BY <2>1, <2>2, <2>3
<1>2. ASSUME NEW u \in Textareas, Submit(u)
      PROVE  edits' = edits /\ (doc'[t] = 0 \/ (doc'[t] = doc[t] /\ surface'[t] = surface[t]))
  <2>1. doc' = [v \in Textareas |-> IF v \in In(TabOf[u]) THEN 0 ELSE doc[v]]
    BY <1>2 DEF Submit
  <2>2. surface' = [v \in Textareas |-> IF v \in In(TabOf[u]) THEN None ELSE surface[v]]
    BY <1>2 DEF Submit
  <2>3. edits' = edits
    BY <1>2 DEF Submit
  <2> QED
    BY <2>1, <2>2, <2>3
<1>3. ASSUME NEW u \in Textareas, Edit(u), u # t
      PROVE  edits' = edits + 1 /\ doc'[t] = doc[t] /\ surface'[t] = surface[t]
  BY <1>0, <1>3 DEF Edit, TextsOK
<1>4. CASE Edit(t)
  BY <1>0, <1>4 DEF Edit, TextsOK
<1>5. ASSUME NEW u \in Textareas,
             \/ ChangeControl(u) \/ RenderPreview(u)
             \/ \E n \in requests[u] : PreviewArrives(u, n) \/ PreviewFails(u, n)
      PROVE  edits' = edits /\ doc' = doc /\ surface' = surface
  BY <1>5 DEF ChangeControl, RenderPreview, PreviewArrives, PreviewFails, editors
<1>6. CASE UNCHANGED vars
  BY <1>6 DEF vars, editors
<1> QED
  BY <1>1, <1>2, <1>3, <1>4, <1>5, <1>6 DEF Next

\* The documents stay behind the count of the edits.
LEMMA DocsInvariance == Spec => []DocsInv
<1>1. Init => DocsInv
  BY DEF Init, DocsInv
<1>2. PageInv /\ DocsInv /\ [Next]_vars => DocsInv'
  <2> SUFFICES ASSUME PageInv, DocsInv, [Next]_vars, NEW t \in Textareas
               PROVE  doc'[t] <= edits' /\ (surface'[t] # "editor" => doc'[t] = 0)
    BY DEF DocsInv
  <2>1. edits \in Nat /\ doc[t] \in Nat /\ doc[t] <= edits
    BY EditorAssumption DEF PageInv, TypeOK, DocsInv
  <2> QED
    BY <2>1, DocSteps DEF DocsInv
<1> QED
  BY <1>1, <1>2, PageInvariance, PTL DEF Spec

\* Text n is in the editor; it was sent for rendering, or replaced.
Typed(t, n) == surface[t] = "editor" /\ doc[t] = n
SentOrReplaced(t, n) == n \in requests[t] \/ (edits >= n /\ doc[t] # n)

\* A text that comes into an editor starts the timer.
LEMMA TypingStartsTimer ==
  ASSUME PageInv, DocsInv, [Next]_vars, NEW t \in Previewed, NEW n \in 1..MaxEdits,
         ~ Typed(t, n), Typed(t, n)'
  PROVE  (t \in debounce)'
<1>1. t \in Textareas
  BY EditorAssumption
<1>2. Edit(t) /\ surface[t] = "editor"
  BY <1>1, DocSteps DEF Typed
<1> QED
  BY <1>2 DEF Edit, DocChanged, Input

\* While its timer runs a text stays, with the timer running, until it is sent or
\* replaced: the timer never stops without one of the two.
LEMMA TimerGuards ==
  ASSUME PageInv, DocsInv, [Next]_vars, NEW t \in Previewed, NEW n \in 1..MaxEdits,
         Typed(t, n), t \in debounce
  PROVE  (Typed(t, n)' /\ (t \in debounce)') \/ SentOrReplaced(t, n)'
<1>0. SettingsOK /\ EditorsOK /\ TextsOK /\ PreviewsOK
  BY TypeParts DEF PageInv
<1>1. t \in Textareas /\ doc[t] = n /\ surface[t] = "editor" /\ value[t] = n
  BY EditorAssumption DEF Typed, PageInv, ValueFollowsDocument
<1>2. n \in Nat /\ n # 0 /\ edits \in Nat /\ edits >= n
  BY <1>1, EditorAssumption DEF PageInv, TypeOK, DocsInv
<1>3. edits' \in {edits, edits + 1} /\ edits' >= n
  BY <1>1, <1>2, DocSteps
<1>4. CASE doc'[t] # n
  BY <1>3, <1>4 DEF SentOrReplaced
<1>5. CASE doc'[t] = n
  <2>1. surface'[t] = surface[t]
    BY <1>1, <1>2, <1>5, DocSteps
  <2>2. CASE RenderPreview(t)
    BY <1>0, <1>1, <2>2 DEF RenderPreview, PreviewsOK, SentOrReplaced
  <2>3. CASE ~ RenderPreview(t)
    <3>1. ASSUME NEW tab \in Tabs, NEW narrow \in BOOLEAN, Load(tab, narrow)
          PROVE  t \in debounce'
      BY <1>1, <1>2, <1>5, <3>1 DEF Load
    <3>2. ASSUME NEW u \in Textareas, Submit(u) PROVE t \in debounce'
      BY <1>1, <1>2, <1>5, <3>2 DEF Submit
    <3>3. ASSUME NEW u \in Textareas, Edit(u) PROVE t \in debounce'
      BY <3>3 DEF Edit, DocChanged, Input
    <3>4. ASSUME NEW u \in Textareas, RenderPreview(u) PROVE t \in debounce'
      BY <2>3, <3>4 DEF RenderPreview
    <3>5. ASSUME NEW u \in Textareas,
                 \/ ChangeControl(u)
                 \/ \E m \in requests[u] : PreviewArrives(u, m) \/ PreviewFails(u, m)
          PROVE  debounce' = debounce
      BY <3>5 DEF ChangeControl, PreviewArrives, PreviewFails, previews
    <3>6. UNCHANGED vars => debounce' = debounce
      BY DEF vars, previews
    <3>7. t \in debounce'
      BY <3>1, <3>2, <3>3, <3>4, <3>5, <3>6 DEF Next
    <3> QED
      BY <1>1, <1>5, <2>1, <3>7 DEF Typed
  <2> QED
    BY <2>2, <2>3
<1> QED
  BY <1>4, <1>5

\* A preview timer that runs ends: it fires, or the page is left.
TimersEnd == \A t \in Previewed : [](t \in debounce => <> ~ (t \in debounce))

\* If timers end, every text of the course editor is sent for rendering unless a
\* newer one replaces it or the page is left: no step loses the timer of a text
\* that was not sent, in any tab.
THEOREM TextsAreRendered == Spec /\ TimersEnd => EditsAreRendered
<1>1. ASSUME NEW t \in Previewed
      PROVE  Spec /\ [](t \in debounce => <> ~ (t \in debounce)) =>
               \A n \in 1..MaxEdits :
                 <>(surface[t] = "editor" /\ doc[t] = n)
                   => <>(n \in requests[t] \/ (edits >= n /\ doc[t] # n))
  <2> SUFFICES ASSUME NEW n \in 1..MaxEdits
               PROVE  Spec /\ [](t \in debounce => <> ~ (t \in debounce)) =>
                        (<>(surface[t] = "editor" /\ doc[t] = n)
                           => <>(n \in requests[t] \/ (edits >= n /\ doc[t] # n)))
    OBVIOUS
  <2> DEFINE A == surface[t] = "editor" /\ doc[t] = n
             B == n \in requests[t] \/ (edits >= n /\ doc[t] # n)
             D == t \in debounce
             Inv == PageInv /\ DocsInv
  <2>1. Init => ~ A
    BY EditorAssumption, NoneAssumption DEF Init
  <2>2. Inv /\ [Next]_vars /\ ~ A /\ A' => D'
    BY TypingStartsTimer DEF Typed
  <2>3. Inv /\ [Next]_vars /\ A /\ D => (A' /\ D') \/ B'
    BY TimerGuards DEF Typed, SentOrReplaced
  <2>4. Spec => []Inv
    BY PageInvariance, DocsInvariance, PTL DEF Inv
  <2> HIDE DEF A, B, D, Inv
  <2>5. Spec /\ [](D => <> ~ D) => (<>A => <>B)
    BY <2>1, <2>2, <2>3, <2>4, PTL DEF Spec
  <2> QED
    BY <2>5 DEF A, B, D
<1> QED
  BY <1>1 DEF TimersEnd, EditsAreRendered
===============================================================================
