SPECIFICATION PluginSpec
CONSTANTS
  core = core
  extra = extra
  c1 = c1
  Plugins = {core, extra}
  Requires <- MCRequires
  Provides = {extra}
  Clients = {c1}
  Nobody = Nobody
  Alone = {TRUE}
INVARIANTS FailedLeavesNothing ReadyIsWhole
