SPECIFICATION RuntimeSpec
CONSTANTS
  kMaxSteps = 8
  Priorities <- MCPriorities
  Machines <- MCMachines
  Familiar <- MCFamiliar
  Heaps = {0, 4, 5}
  Configs = {"info", "warning", "unknown bits"}
INVARIANTS
  OutcomeIsTrue
  HostPolicyKept
  CoresAreCounted
  PoolFits
