SPECIFICATION MCSpec
CHECK_DEADLOCK FALSE
CONSTANTS
  Views = {"tex"}
  Jobs = {j1, j2}
  NoJob = none
  ASVIO_MAX_JOBS = 2
  MaxSize = 2
  Limit = 1
  MaxYields = 1
  Phones = {p1, p2}
  Nobody = nobody
  Keys = {"a", "b"}
  Titles = {"", "t"}
  MAX_ITEMS = 2
  MAX_QTY = 2
  MaxChanges = 2
  PhotosASecond = 2
  MaxPhotos = 2
  BoardWorkers = {w1}
  MAX_THREADS_PER_BOARD = 3
  MAX_POSTS_PER_THREAD = 3
  THREADS_PER_PAGE = 2
  PageFits = 2
  Elsewhere = {}
  MaxPosts = 4
  MaxCrashes = 1
  PollWorkers = {w1}
  Voters = {a, b, c}
  NoVoter = none
  Mailers = {a}
  MAX_POLLS = 2
  MAX_RESPONSES = 2
  MaxBallots = 3
  MaxFailures = 1
  MaxManaged = 2
  MaxPollCrashes = 2
  Members = {m1, m2}
  Tabs = {t1, t2}
  NoTab = nobody
  MAX_POSTS = 2
  MAX_COMMENTS_PER_POST = 2
  MAX_NOTIFICATIONS = 2
  MAX_NOTIFICATIONS_RENDERED = 2
  MaxDeeds = 3
  MaxSocialCrashes = 1
  Browsers = {b1, b2}
  TooLarge = {2}
  MaxEdits = 2
  MaxScans = 1
  MaxFetches = 1
INVARIANTS
  LocalCopyIsKept
