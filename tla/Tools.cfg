SPECIFICATION Spec
CONSTANTS
  CAP = 2  WIDTH = 64  MaxBytes = 7  MaxChunk = 3
  QueueCap = 3  CHUNK = 2  Lengths <- WriteSizes  MaxCalls = 5
  Builders = {b1, b2}  Keys = {k1, k2}  Keep = 1  MaxAsked = 4
  Items = 3  PoolJobs = 2  Budget = 2  MaxQuiet = 5
  PackageOf <- ThreePackages  Declared = {"ssh1", "tor1"}  ArgSets = {{}, {"json"}, {"ssh"}, {"tor"}}
  SuiteJobs = 2  Pids = {101, 102}
  ProfTests = {"t1", "t2"}  Lines = {"entry", "folded", "plain"}  Entry = "entry"
  Known = {"entry", "folded"}  Inlined = {"folded"}  Spans <- AllSpans
  TextLength = 4  FileSizes <- UpToThree  MaxDraw = 5  MaxMembers = 12
  Fragments <- Declarations  MaxFragments = 3
  Paths = {"p", "q", "r"}  RootFile = "p"  PartLists <- ShortLists  MaxSteps = 3
  Texts8 <- SomeTexts  Bytes8 <- SomeBytes  RandomMax = 6  RandomBlock = 2  Programs <- SomePrograms
  Suites <- SomeSuites  Instrumented = {1, 2, 3}  Counting = {1, 2}  Costs = {1, 2}  Touched <- SomeEdits
  Processes = {p1, p2}  MaxEdits = 2
CHECK_DEADLOCK FALSE
INVARIANTS RingsAreSound CacheTellsTheTruth PoolIsExact NarrowingIsSafe EditsLandRight SourcesAreExact PayloadsCross MutantsAreReal
PROPERTIES QueueKeepsItsWord SuiteIsSafe EndIsHeard
