\* From command lines, goad.ini and queries to the flags of all runners.
SPECIFICATION ClientSpec

CONSTANTS
  Files <- MCFiles
  CommandLines <- MCCommandLines
  Queries <- MCQueries
  Lists <- MCLists
  Configs <- MCConfigs
  SupportedRegions <- MCSupportedRegions
  WellFormedHeaders <- MCWellFormedHeaders

INVARIANTS
  LambdasInRange
  RequestsAddUp
  ConcurrencyIsRespected
  EveryRegionServed
  ClientInv
  AskedIsWhatRuns
  TemplateIsNeutral

\* The plan is made once.
CHECK_DEADLOCK FALSE
