\* A host of two processes, one of a number that is skipped; periods of one and two seconds;
\* numbers of runs in the order of the program's 30, 36 and 60, the last more than one above
\* the second.
CONSTANTS
  Sub = 2
  Fast = 1
  Slow = 2
  TopPeriod = 2
  PimPeriod = 1
  FrzReload = 1
  MapReload = 2
  CrcReload = 4
  Unread = Unread
  Enabled = {"top", "broken", "late"}
  Loadable = {"top", "late"}
  Unstartable = {"late"}
  MinCpu = 30
  Pids = {1, 9}
  Nines = {9}
  Nothing = Nothing
  Wrap = 1000
  Epoch = 10
  MaxTime = 6
  MaxEvents = 2
  Here = Here
  Away = Away
  Addresses = {"a", "b"}
  NoPartner = {"b"}
  Nobody = 99
  Cut = {"a/b"}
  Word = 8
  Bad = Bad
  Unset = Unset
SPECIFICATION Spec
INVARIANTS ToldCurrent PackedTrue ItemsTold
PROPERTY TopExact
