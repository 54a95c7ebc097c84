SPECIFICATION Spec
CONSTANTS
  Paths = {a, b}
  Commits = {c1}
  MaxMeddle = 2
  Renames = TRUE
  MaxLines = 4
  Tasks = {2}
  MaxLosses = 2
  Interleaves = FALSE
  SignUps = {u1, u2, u3}
  MaxTime = 2
  Files = {f, g}
  Saves = {s1, s2}
  MaxVersion = 3
  MaxMoves = 1
  Provs = {p1, p2}
  Forms = {t1, t2}
  Toks = {0, 2}
  Urls = {1, 2}
  MaxChanges = 2
  Testers = {u1, u2, u3}
  Slots = {k1, k2}
  MinInterval = 2
  SweepThreshold = 2
  MaxClock = 5
  Calls = {a, g, q}
  Agents = {g}
  Asks = {q}
  MaxBlocks = 6
  Chats = {s1, s2}
  Prompts = {r1, r2}
  Options = {o1, o2}
  NumQuestions = 2
  Multi = {2}
  MaxTimers = 1
  Projects = {q1, q2}
  Repos = {q1}
  Creds = {k1}
  MaxSwitches = 2
  CatalogPairs <- TwoPairs
  Sessions = {s1}
  MaxEdits = 2
  MaxPuts = 2
  Passthrough = {"compact"}
  Blacklist = {"clear"}
  Dynamic = {"deploy"}
  Typos = {"tpyo"}
  MaxActs = 3
  MaxTasks = 2
  Sids = {x1, x2}
  MaxRevision = 2
  MaxFrames = 1
  Emails = {e1, e2}
  Admins = {e2}
  EnvDefault = TRUE
  Models = {m1, m2}
  MaxSaves = 2
  Subs = {d}
  MaxReads = 3
  MaxWalks = 4
  MaxRows = 2
  MaxOpens = 4
  Reqs = {r1, r2, w}
  Writes = {w}
  None = None
  MaxCalls = 2
  MaxFaults = 1
SYMMETRY Alike
INVARIANT MirrorIsTrue
INVARIANT StartPicksUsable
INVARIANT SecretsAreTheirs
INVARIANT TimelineIsTrue
INVARIANT AnswersAreOwn
INVARIANT PanelIsOfProject
INVARIANT ComposerIsTrue
INVARIANT ListsAreTrue
INVARIANT AccessIsJust
 
 
PROPERTY TestsAreSpaced
PROPERTY EditsNotLost
CHECK_DEADLOCK FALSE
