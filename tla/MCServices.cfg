SPECIFICATION ServicesSpec
CONSTANTS
  Users = {ann}
  NoUser = NoUser
  Codes = {1, 2}
  NoPairing = NoPairing
  Expiry = 1
  MaxMinute = 2
  MaxUpdates = 2
  MaxCrashes = 1
  Steps = {1, 2, 3}
  Absent = {4}
  MaxWorkers = 2
  MaxDeps = 2
  Tables = {entities}
  RowIds = {row}
  Points = {p1}
  Sealed = {subject}
  Open = {strength}
  NoPass = NoPass
  Keys = {key1, key2}
  FirstKey = key1
  Plain = Plain
  MaxWrites = 1
  MaxJobs = 2
  Contents = {"a", "b", "large", "broken"}
  Large = "large"
  Broken = "broken"
  NoFile = "none"
  Pieces <- DocPieces
  Ingestors = {1, 2}
  MaxInputs = 3
  Paths = {1, 2}
  Images = {2}
  Texts = {"a", "b", "x"}
  Unreadable = "x"
  NoText = "none"
  Watcher = watcher
  Posts = {post}
  MaxChanges = 2
  FeedIds = {f1, f2}
  Entries = {e1, e2}
  MaxNews = 2
  BackupIds = {b1, b2, b3}
  Encrypting = TRUE
  Retention = 1
  MaxSecond = 2
  MaxMishaps = 1
  Memory = {1, 2}
  Limit = 1
  OneIn = 2
  Callers = {1, 2}
  MaxDay = 2
  MaxCalls = 2
  MaxBreaks = 1
  Mails = {1, 2}
  Threaded = {1}
  MaxFetch = 1
  Uids = {u1}
  Readers = {1, 2}
  MaxVersion = 2
  MaxReads = 2
  MaxTroubles = 1
  Sessions = {s1, anon}
  Default = anon
  Chunks = {chunk}
  Chats = {1, 2}
  Long = 1
  Recent = 1
  MaxSessions = 2
  MaxSummaries = 1
  MaxChats = 3
  Clients = {1, 2}
  Guests = {g1, g2}
  Nobody = Nobody
  Capacity = 1
  MaxBuckets = 1
  MaxNow = 1
  MaxMade = 4
  Words = {"s", "t"}
  Embedders = {1, 2}
  MaxVectors = 2
  Ttl = 1
  MaxHour = 2
  MaxRequests = 2
  MaxWords = 2
  Endpoints = {1, 2}
  Members = {bob}
  Senders = {job}
  MinInterval = 1
  MaxBeat = 1
  MaxHitches = 1
  Cuttable <- ShortTexts
  MaxChars = 6
  MinChars = 4
  Overlap = 2
  Uncut = Uncut
  SubIds = {1, 2}
  NoId = NoId
  Custom = {writer}
  BuiltIn = {ops}
  MaxSubtasks = 2
  MaxOperations = 2
  Operators = {1, 2}
  Searchers = {1, 2}
  Urls = {"url"}
  SearchLimit = 1
  Hour = 1
  MaxMoment = 2
  MaxSearches = 3
  PerHour = 1
  Day = 1
  MaxTick = 4
  MaxOutages = 1
  Prs = {pr}
  Issues = {issue}
  Commits = {}
  Syncers = {1, 2}
  MaxEdits = 2
  MaxSyncs = 2
  Links = {"a", "b"}
  LinksOf <- NoteLinks
  Ingestions = {1, 2}
  LinkWatcher = linkWatcher
  MaxNoteEdits = 2
  MaxIngestions = 3
  Parts = {1}
  Webhooks = {1}
  MaxAttempts = 2
  MaxTexts = 3
  MaxFlaps = 1
  MaxInstalls = 2
  MaxSetbacks = 1
  Passages = {1}
  Routes = {route}
  NoRoute = NoRoute
  Voters = {1, 2}
  MinSamples = 2
  FreshFor = 1
  MaxThumbs = 2
  MaxVotes = 2
  MaxAge = 1
  Hits = {1, 2, 3}
  Found <- Findings
  Similarity <- Nearness
  Relevance <- CrossScores
  Liked <- Boosts
  Freshness <- Ages
  Kept = 2
  Threads = {1, 2}
  UnloadAfter = 1
  MaxIdle = 2
  MaxRequested = 3
  MaxLoads = 3
  Streams = {1, 2}
  Pages = {1}
  Snippets = {piece}
  Requests <- StreamRequests
  MaxWire = 0
INVARIANTS ChannelsSafe AgentsSafe KeysSafe DocumentsSafe SourcesSafe DigestsSafe BackupsSafe
           MemoriesSafe ChatsSafe LimitSafe NotificationsSafe SearchesSafe AlgorithmsSafe
PROPERTIES StepsKeep ServicesSettle
CHECK_DEADLOCK FALSE
