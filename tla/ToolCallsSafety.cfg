SPECIFICATION FairSpec
CONSTANTS
    MaxTurns = 2
    MaxCalls = 2
INVARIANTS SubAgentConfined MemoryHonest MeterHonest
PROPERTY AgentEnds
CHECK_DEADLOCK FALSE
