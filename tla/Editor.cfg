SPECIFICATION FairSpec
CONSTANTS
  None = None
  edit = edit
  lesson = lesson
  markdown = markdown
  first = first
  second = second
  Tabs = {edit, lesson}
  Textareas = {markdown, first, second}
  TabOf <- OneEach
  Previewed = {markdown}
  Noticed = {first, second}
  Flags = {"vim"}
  Stored <- SomeStored
  FontInputs = {99}
  MaxEdits = 2
INVARIANTS TypeOK SettingsInRange EditorsAgree ValueFollowsDocument
PROPERTIES ChangesOneSetting SettingsPersist EditsAreRendered
CHECK_DEADLOCK FALSE
