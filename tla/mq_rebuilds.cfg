CONSTANTS
    MaxStreams = 2
    MaxRetries = 1
    MaxTrouble = 2
CHECK_DEADLOCK FALSE
SPECIFICATION MqFairSpec
PROPERTY MqRebuilds
