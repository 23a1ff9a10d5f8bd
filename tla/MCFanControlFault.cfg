SPECIFICATION FairSpec
CONSTANTS
    Channels <- TwoChannels
    Configs <- TestConfigs
    DefaultConfig <- Auto
    Temperatures <- TestTemperatures
    IntMax = 1000
    None = None
    MaxQueue = 2
    MaxFaults = 2
    MaxChanges = 3
PROPERTIES
    FanFaultIsReported
