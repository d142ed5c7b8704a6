CONSTANTS
    Intents = {i1}  Txids = {t1}  Handlers = {h1, h2}
    Lifetime = 1  Drift = 0  MaxTime = 2  MaxTip = 1  MaxFaults = 1
    Wallets = {w1, w2}  Challenges = {c1}  Sessions = {s1, s2}
    Verifiers = {v1, v2}  Callers = {u1}
    ChallengeLife = 1  SessionLife = 1  MaxAuthTime = 2  MaxAuthFaults = 1
    Clients = {p1, p2, p3}
    RateLimit = 2  RateWindow = 2  Capacity = 2  MaxRateTime = 4
    Consoles = {p1}  Logins = {o1, o2}  AdminTokens = {t1, t2}
    AttemptLimit = 2  AttemptWindow = 2  AdminLife = 1  MaxAdminTime = 2  MaxFailures = 2
    Manifests = {m1, m2}  Askers = {u1, u2}  AssetLife = 1  MaxAssetTime = 2
    a1 = a1  b1 = b1  a2 = a2
    MemBlocks = {a1, b1, a2}  MemHeight <- HeightOfBlock
    MemDeliveries <- BatchIds  MemKey <- BatchKey  MemSha <- BatchSha
    MemRollback <- BatchRollback  MemApply <- BatchApply
    AlertRules = {q1}  RiskIds = {x1}  Evaluators = {h1, h2}
    TopSeverity = 2  MaxAlertTime = 1
    RepBlocks = {a1, b1}  Projections = {e1, e2}
    Inspected = {w1, w2}  MaxInspections = 3
    k1 = k1  k2 = k2  k3 = k3  q1 = q1  q2 = q2
    c1 = c1  c2 = c2  r1 = r1  r2 = r2
    Plans = {"free", "developer"}  Keys = {k1, k2, k3}  Rules = {q1, q2}
    KeyLimit <- MCKeyLimit  RuleLimit <- MCRuleLimit  Quota <- MCQuota
    MaxKeys = 2  MaxRules = 1  Creators = {c1, c2}  Requests = {r1, r2}
    MaxMonth = 1  MaxUsage = 3  MaxLost = 1
    Compounded <- MCCompounded
    FreeObservations = 1  MostObservations = 2  MostFlows = 2
    MostEndpoints = 1  MostRecent = 2  HourLength = 2
    Cent = 10  PriceScale = 100  SupportedAssets <- MCSupported  BitcoinAssets <- MCBitcoin
    Contracts = {"x", "y"}  Operators = {p1}  MaxAdmitTime = 3
    Submissions <- MCSubmissions  Deployments <- MCDeployments
SPECIFICATION ServicesSpec
CONSTRAINT OneConcern
CHECK_DEADLOCK FALSE
INVARIANTS
    RecordedWasValidated
    OneSessionPerChallenge
    EndedIsRefused
    LockoutJustified
    MixedOnlyByRace
    AnsweredIsRaised
    RevivedOnlyByRace
    LatestIsShown
    OvershootBounded
    EveryRequestMetered
    ValuesSound
    HistorySound
    RiskSound
    YieldsSound
    ReadsSound
    ProjectionSound
    LifecycleSound
PROPERTIES
    LapsedStaysLapsed
    ForgottenOnlyWhenCrowded
    MemFollowsLedger
    OccurrencesKept
    AdmittedIsCurrent
