\* The master host of the header comment (6), and one whose interlake
\* fan-out runs past 255 (hosts 254, 255, 256); no endpoint in the config,
\* and an operator-supplied one.
CONSTANTS
    EMC_NETWORK_BRIDGE_IP_ADDRESS <- MC_EMC_NETWORK_BRIDGE_IP_ADDRESS
    TIVA_TCP_IP_ADDRESS <- MC_TIVA_TCP_IP_ADDRESS
    TIVA_RS485_IP_ADDRESS <- MC_TIVA_RS485_IP_ADDRESS
    TIVA_TCP_IP_ADDRESS_PREFIX <- MC_TIVA_TCP_IP_ADDRESS_PREFIX
    TIVA_SERVICE_ID_PREFIX <- MC_TIVA_SERVICE_ID_PREFIX
    HostIds = {6, 254}
    MAX_INTERLAKE_SYSTEM_SIZE = 3
    SSH_TCP_PORT = 22
    GW_TCP_PORT = 8080
    TIVA_TCP_PORT = 5000
    NoFile = NoFile
    NoLine = NoLine
    NoOverride = NoOverride
    Overrides <- MC_Overrides
    Services <- MC_Services
    Lines = {NoFile, NoLine, "up", "down", "UP"}
    Regions <- MC_Regions
SPECIFICATION Spec
INVARIANT ResolutionAgreesWithSpec
