CONSTANTS
    MqttMax = 1
    MaxMsgs = 5
    MaxLinkDown = 1

SPECIFICATION Spec



CHECK_DEADLOCK FALSE
INVARIANT NoSpuriousDrop
