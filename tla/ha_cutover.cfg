SPECIFICATION LiveSpec
CONSTANTS
  pg1 = pg1
  pg2 = pg2
  etcd1 = etcd1
  etcd2 = etcd2
  Writers <- MCWriters
  Etcd <- MCEtcd
  Leader = pg1
  MaxCrashes = 1
  MaxFaults = 2
  MaxStops = 2
INVARIANTS
  RecoveredStays
  LeaderIsSeeded
PROPERTIES
  IsolatedBootSparesActive
  SwitchesAtRest
  RetriesAdvance
