SPECIFICATION MCSpec
CONSTANTS
  None = None
  Torn = Torn
  opt_a = opt_a
  opt_b = opt_b
  opt_c = opt_c
  opt_d = opt_d
  opt_e = opt_e
  t = t
  u = u
  Unit = {u1, u2}
  MaxFaults = 2
  Src = {s1, s2}
  Dest = {d1, d2}
  Capacity = 2
  Output = 3
  Host = {h1, h2}
  Zone = {z1}
  Id = {g1, g2}
  Name = {opt_a, opt_b, opt_c, opt_d}
  Alias = {opt_e}
  Other = {opt_x}
  Text = {t, u}
  Argument <- MCArgument
  Fits <- MCFits
  Exclusive = {{opt_c, opt_d}}
  Together = {{opt_b, opt_d}}
  OneOf = {{opt_c, opt_d}}
  ChecksMode = FALSE
  MaxWords = 3
INVARIANTS
  TypesOK
  SuccessIsLoaded
  RunsWhatIsLoaded
  RerunIsQuiet
  LosesOnlyTheLast
  AcceptedAsSpecified
  HostsAreKept
  FlagsAreDeserved
PROPERTIES
  CommandReturns
CHECK_DEADLOCK FALSE
