SPECIFICATION MCSpec
CONSTANTS
  null = null
  uart = uart
  lcd = lcd
  zip = zip
  None = None
  MaxFd = 5
  Null = null
  Devices <- MCDevices
  Driver <- MCDriver
  Std <- MCStd
  SysInit <- MCSysInit
  FileSystems = {zip}
  Ctors = 1
  Dtors = 1
  Names <- MCNames
  Modes <- MCModes
  Settings = {{}}
  WORD = 2
  __alt_heap_start = 0
  __alt_heap_limit = 12
  StackTop = 16
  Increments <- MCIncrements
  Functions = {f, g}
  Callers = {x, y}
  MCOUNT_SLAB_INCREMENT = 6
  EntrySize = 2
  Histogram = 2
  MaxNesting = 2
  MaxCalls = 4
  MaxBlocks = 3
  LINE_SIZE = 4
  CACHE_SIZE = 8
  Starts <- MCStarts
  Lens <- MCLens
  PerMicro = 3
  IntMax = 15
  Sleeps <- MCSleeps
  Digits = 2
  Irqs = {0, 1, 2}
  Routines = {isr}
  NULL = NULL
  NestedCalls = FALSE
  alt_instruction_exception_handler = {"REISSUE_INST", "SKIP_INST"}
  AlarmIds = {a1, a2, a3}
  alt_alarm_list = alt_alarm_list
  Off = Off
  Wrap = 3
  Periods <- MCPeriods
  ALT_US = 6
  Rates = {0, 2, 3, 4}
  TwoTo32 = 16
  Times <- MCTimes
  Parts = {"boot"}
CHECK_DEADLOCK FALSE
INVARIANT LockIsExclusive
