-------------------------- MODULE MCTunnelResolver --------------------------
(***************************************************************************)
(* Checks the resolver operators of TunnelResolver against a reference     *)
(* written from the resolution rules of spec sections 4.1, 4.2 and 4.4,    *)
(* over every requested service, operstate-file outcome and region of a    *)
(* small input set, for each master host number and endpoint setting of   *)
(* HostIds and Overrides.  The state is the current input; Next moves to   *)
(* any other input, so every combination is a reachable state.             *)
(***************************************************************************)
EXTENDS Naturals, Sequences, MCResolverValues

CONSTANTS
    EMC_NETWORK_BRIDGE_IP_ADDRESS, TIVA_TCP_IP_ADDRESS, TIVA_RS485_IP_ADDRESS,
    TIVA_TCP_IP_ADDRESS_PREFIX, MAX_INTERLAKE_SYSTEM_SIZE,
    TIVA_SERVICE_ID_PREFIX, SSH_TCP_PORT, GW_TCP_PORT, TIVA_TCP_PORT,
    NoFile, NoLine, NoOverride,
    HostIds,    \* values of MASTER_SYSTEM_HOST_ID
    Overrides,  \* values of config.tunneling.endpoint
    Services, Lines, Regions

VARIABLES service, line, region, hostId, override

vars == <<service, line, region, hostId, override>>

(* The resolver built for the current header and configuration.            *)
R == INSTANCE TunnelResolver
         WITH MASTER_SYSTEM_HOST_ID <- hostId, EndpointOverride <- override

(* No endpoint in the config, or an operator-supplied one.                 *)
MC_Overrides == {NoOverride, MC_EndpointOverride}

Init ==
    /\ service \in Services
    /\ line \in Lines
    /\ region \in Regions
    /\ hostId \in HostIds
    /\ override \in Overrides

Next ==
    \/ \E s \in Services : service' = s /\ UNCHANGED <<line, region, hostId, override>>
    \/ \E l \in Lines : line' = l /\ UNCHANGED <<service, region, hostId, override>>
    \/ \E r \in Regions : region' = r /\ UNCHANGED <<service, line, hostId, override>>
    \/ \E h \in HostIds : hostId' = h /\ UNCHANGED <<service, line, region, override>>
    \/ \E o \in Overrides : override' = o /\ UNCHANGED <<service, line, region, hostId>>

Spec == Init /\ [][Next]_vars

-----------------------------------------------------------------------------
(* Reference.  The address table: four fixed entries and one numbered     *)
(* entry per interlake system, host numbers counting up from the master.  *)
SpecAddressTable ==
    { <<<<"SSH">>, EMC_NETWORK_BRIDGE_IP_ADDRESS>>,
      <<<<"GW">>, EMC_NETWORK_BRIDGE_IP_ADDRESS>>,
      <<<<"TIVA", "TCP">>, TIVA_TCP_IP_ADDRESS>>,
      <<<<"TIVA", "RS485">>, TIVA_RS485_IP_ADDRESS>> }
    \cup { <<R!InterlakeKey(i), TIVA_TCP_IP_ADDRESS_PREFIX \o <<hostId + i>>>> :
           i \in R!InterlakeIds }

SpecPortTable ==
    { <<<<"SSH">>, SSH_TCP_PORT>>, <<<<"GW">>, GW_TCP_PORT>>,
      <<<<"TIVA">>, TIVA_TCP_PORT>> }

(* The bus service takes the TCP variant exactly when the link line is    *)
(* "up"; anything else, a read failure included, takes the serial relay.  *)
SpecNormalize(s, l) ==
    IF s = <<"TIVA">> THEN <<"TIVA", IF l = "up" THEN "TCP" ELSE "RS485">>
    ELSE s

IsDottedQuad(a) == a \in [1 .. 4 -> 0 .. 255]

(* The destination a request may be sent to: an address and a port, both   *)
(* found and both valid; ports are keyed by the name before any suffix.   *)
SpecDestinations(s, l) ==
    { d \in [address : { e[2] : e \in { x \in SpecAddressTable :
                                            x[1] = SpecNormalize(s, l) } },
              port    : { e[2] : e \in { x \in SpecPortTable :
                                            x[1] = <<s[1]>> } }] :
        IsDottedQuad(d.address) /\ d.port \in 1 .. 65535 }

(* The code's decision for one request, as OnSubscribeToTunnelsNotify-     *)
(* Response takes it from the resolver's answers.                          *)
CodeDestination(s, l) ==
    LET address == R!GetAddressFromService(s, l)
        port    == R!GetPortFromService(R!BaseService(s))
    IN  IF R!IsValidAddress(address) /\ R!IsValidPort(port)
        THEN {[address |-> address, port |-> port]} ELSE {}

SpecEndpoint(r) ==
    IF override # NoOverride THEN override
    ELSE [host |-> r, cn |-> SubSeq(r, 1, 1) = <<"cn">> /\ Tail(r) # <<>>]

(* Requests are accepted or rejected as the service table of the spec     *)
(* says, with the address and port it gives (the link-state choice of     *)
(* AppendPostfixToService, the suffix stripping of the port lookup, the    *)
(* interlake fan-out), and the proxy endpoint derived by GetEndpoint is    *)
(* the templated host with ".cn" exactly for "cn-" regions.                *)
ResolutionAgreesWithSpec ==
    /\ CodeDestination(service, line) = SpecDestinations(service, line)
    /\ R!GetEndpoint(region) = SpecEndpoint(region)
=============================================================================
