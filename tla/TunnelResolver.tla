--------------------------- MODULE TunnelResolver ---------------------------
(***************************************************************************)
(* Service resolution and proxy-endpoint derivation of                     *)
(* SecureTunnelingFeature.cpp: GetAddressFromService, GetPortFromService,  *)
(* AppendPostfixToService, AddInterlakeEndpoints, IsValidAddress,          *)
(* IsValidPort and GetEndpoint, as pure operators.                         *)
(*                                                                         *)
(* Strings are represented by the structure the code inspects:             *)
(*  - a service name is the sequence of its "_"-separated fields, so       *)
(*    "TIVA_TCP" is <<"TIVA", "TCP">> and "" is <<"">>;                    *)
(*  - a region is the sequence of its "-"-separated fields, so             *)
(*    "cn-north-1" is <<"cn", "north", "1">>;                              *)
(*  - a dotted IPv4 string is the sequence of its numbers, so              *)
(*    "169.254.0.6" is <<169, 254, 0, 6>>, and "" is <<>>.                 *)
(* The values of the header's constants are parameters.                    *)
(***************************************************************************)
EXTENDS Naturals, Sequences, TLC

CONSTANTS
    EMC_NETWORK_BRIDGE_IP_ADDRESS,  \* address of the SSH and GW services
    TIVA_TCP_IP_ADDRESS,            \* address of TIVA over TCP
    TIVA_RS485_IP_ADDRESS,          \* address of the TIVA serial relay
    TIVA_TCP_IP_ADDRESS_PREFIX,     \* first three numbers of interlake hosts
    MASTER_SYSTEM_HOST_ID,          \* host number of the master system
    MAX_INTERLAKE_SYSTEM_SIZE,      \* number of interlake systems
    TIVA_SERVICE_ID_PREFIX,         \* fields of the interlake service prefix
    SSH_TCP_PORT, GW_TCP_PORT, TIVA_TCP_PORT,
    NoFile,                         \* the operstate file cannot be opened
    NoLine,                         \* the file is open but getline fails
    EndpointOverride,               \* config.tunneling.endpoint, or NoOverride
    NoOverride

ASSUME MAX_INTERLAKE_SYSTEM_SIZE \in Nat /\ MASTER_SYSTEM_HOST_ID \in Nat

-----------------------------------------------------------------------------
(* service + std::to_string(i), where the appended text has no "_".        *)
ConcatField(name, text) == [name EXCEPT ![Len(name)] = @ \o text]

InterlakeKey(i) == ConcatField(TIVA_SERVICE_ID_PREFIX, ToString(i))

InterlakeAddress(i) ==
    Append(TIVA_TCP_IP_ADDRESS_PREFIX, MASTER_SYSTEM_HOST_ID + i)

InterlakeIds == 0 .. (MAX_INTERLAKE_SYSTEM_SIZE - 1)

(* serviceToAddressMap[key] = value for every interlake system; an entry   *)
(* written here overwrites an existing one with the same key.              *)
AddInterlakeEndpoints(serviceToAddressMap) ==
    [key \in {InterlakeKey(i) : i \in InterlakeIds} |->
        InterlakeAddress(CHOOSE i \in InterlakeIds : InterlakeKey(i) = key)]
    @@ serviceToAddressMap

(* The lazily built static maps, as they are once populated.               *)
mServiceToAddressMap ==
    AddInterlakeEndpoints(
           (<<"SSH">> :> EMC_NETWORK_BRIDGE_IP_ADDRESS)
        @@ (<<"GW">> :> EMC_NETWORK_BRIDGE_IP_ADDRESS)
        @@ (<<"TIVA", "TCP">> :> TIVA_TCP_IP_ADDRESS)
        @@ (<<"TIVA", "RS485">> :> TIVA_RS485_IP_ADDRESS))

(* std::map<std::string, uint16_t>: the values are stored as uint16_t.     *)
mServiceToPortMap ==
       (<<"SSH">> :> SSH_TCP_PORT % 65536)
    @@ (<<"GW">> :> GW_TCP_PORT % 65536)
    @@ (<<"TIVA">> :> TIVA_TCP_PORT % 65536)

(* Fault model of AppendPostfixToService: any line but "down" is taken as *)
(* the link being up.                                                      *)
AppendPostfixToServiceNotDown(service, line) ==
    IF service # <<"TIVA">> THEN service
    ELSE IF line # "down" THEN Append(service, "TCP")
    ELSE Append(service, "RS485")

(* "line" is what reading TCP_OPERSTATE_FILE yields: NoFile, NoLine or the *)
(* first line without its newline.  Only "TIVA" is suffixed.               *)
AppendPostfixToService(service, line) ==
    IF service # <<"TIVA">> THEN service
    ELSE IF line = "up" THEN Append(service, "TCP")
    ELSE Append(service, "RS485")

(* "" when the suffixed service is not in the map.                         *)
GetAddressFromService(service, line) ==
    LET key == AppendPostfixToService(service, line)
    IN  IF key \in DOMAIN mServiceToAddressMap
        THEN mServiceToAddressMap[key] ELSE <<>>

(* 0 when the service is not in the map.                                   *)
GetPortFromService(service) ==
    IF service \in DOMAIN mServiceToPortMap
    THEN mServiceToPortMap[service] ELSE 0

(* service.substr(0, service.find("_")): the first field.                  *)
BaseService(service) == <<service[1]>>

(* inet_pton(AF_INET, ...) == 1: four numbers, each at most 255.           *)
IsValidAddress(address) ==
    /\ Len(address) = 4
    /\ \A i \in 1 .. 4 : address[i] \in 0 .. 255

(* IsValidPort: 1 <= port <= 65535.                                        *)
IsValidPort(port) == 1 <= port /\ port <= 65535

(* Fault model of GetEndpoint: the override is not consulted.             *)
GetEndpointNoOverride(region) ==
    [host |-> region, cn |-> Len(region) >= 2 /\ region[1] = "cn"]

(* The override verbatim, else DEFAULT_PROXY_ENDPOINT_HOST_FORMAT with the *)
(* region filled in, with ".cn" appended when the region starts with       *)
(* "cn-".                                                                  *)
GetEndpoint(region) ==
    IF EndpointOverride # NoOverride THEN EndpointOverride
    ELSE [host |-> region, cn |-> Len(region) >= 2 /\ region[1] = "cn"]
=============================================================================
