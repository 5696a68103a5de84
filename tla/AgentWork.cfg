SPECIFICATION MCSpec
CONSTANTS
  Parts = {"desk", "drafts", "paging", "hours", "accounts", "thread", "rules"}
  normal = normal
  urgent = urgent
  p1 = p1
  p2 = p2
  t1 = t1
  t2 = t2
  Requests = {1, 2, 3}
  Priorities = {normal, urgent}
  Target <- DeskTarget
  Asks <- DeskAsks
  Latest = 2
  None = None
  Tabs = {p1, p2}
  Tickets = {t1, t2}
  Visits <- TabVisits
  LastEdit = 2
  NoDraft = NoDraft
  Entries = {1, 2, 3}
  PageLimit = 1
  LastTick = 3
  Zones <- SampleZones
  Schedules <- SampleHours
  Starts = {0, 2, 4, 5, 9}
  Amounts = {0, 1, 3, 5}
  DayLength = 6
  WeekLength = 3
  MaxDaysScanned = 12
  AccountCalls = {1, 2, 3, 4}
  Emails = {e1, e2}
  Orgs = {o1, o2}
  Invites = {i1}
  Founder = Founder
  FirstOrg = o1
  Absent = Absent
  Notes = {1, 2, 3}
  WindowSize = 1
  LastMoment = 2
  FirstPriority = normal
  Rules = {1}
  Places = {0}
  Contents <- SampleRules
  Events = {"mail"}
  Runners = {c1, c2}
  Taggers = {g1}
  Names = {"vip"}
  MaxTags = 2
INVARIANTS
  AgentWorkTypeOK PauseExact ReplyNotBuried AnnouncedOnce SentStaysAway
  WalksComplete PolicyExact AccountsWhole RulesSound
\* Requests are used up, and a due date is computed once.
CHECK_DEADLOCK FALSE
