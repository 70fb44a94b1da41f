SPECIFICATION Spec
CONSTANTS
  None = None
  Final = Final
  LessonSlugs = {l1, l2}
  ChallengeSlugs = {a, b}
  MaxVersion = 3
  MaxIds = 4
INVARIANTS TypeOK NeverTwoFinals LiveIsPublished PageShowsPublished
PROPERTY ImplementsCatalog
SYMMETRY SlugSymmetry
CHECK_DEADLOCK FALSE
