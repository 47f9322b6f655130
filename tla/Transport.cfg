CONSTANTS
    MqttMax = 0
    MaxMsgs = 3
    MaxLinkDown = 1

SPECIFICATION Spec

INVARIANT  NoPublishBeforeReady

PROPERTY ShutdownCompletes

CHECK_DEADLOCK FALSE
