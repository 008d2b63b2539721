\* OnConnectionShutdown erasing from mContexts while stop() iterates over it.
CONSTANTS
    EMC_NETWORK_BRIDGE_IP_ADDRESS <- MC_EMC_NETWORK_BRIDGE_IP_ADDRESS
    TIVA_TCP_IP_ADDRESS <- MC_TIVA_TCP_IP_ADDRESS
    TIVA_RS485_IP_ADDRESS <- MC_TIVA_RS485_IP_ADDRESS
    TIVA_TCP_IP_ADDRESS_PREFIX <- MC_TIVA_TCP_IP_ADDRESS_PREFIX
    TIVA_SERVICE_ID_PREFIX <- MC_TIVA_SERVICE_ID_PREFIX
    MASTER_SYSTEM_HOST_ID = 6
    MAX_INTERLAKE_SYSTEM_SIZE = 3
    SSH_TCP_PORT = 22
    GW_TCP_PORT = 8080
    TIVA_TCP_PORT = 5000
    NoFile = NoFile
    NoLine = NoLine
    NoOverride = NoOverride
    EndpointOverride = NoOverride
    Ctx = {c1, c2, c3}
    NoCtx = NoCtx
    Static = Static
    NoOrigin = NoOrigin
    Threads = {t1}
    Notifications <- MC_Notifications
    Lines = {NoFile, "up", "down"}
    MaxDeliveries = 4
    SubscribeModes = {TRUE}
SPECIFICATION Spec
INVARIANT StopReachesEveryRegisteredSession
CHECK_DEADLOCK FALSE
