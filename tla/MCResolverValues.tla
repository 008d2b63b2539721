-------------------------- MODULE MCResolverValues --------------------------
(***************************************************************************)
(* Values for the header constants of TunnelResolver, shared by the MC     *)
(* modules.  The interlake base follows the comment of                     *)
(* AddInterlakeEndpoints (master system at 169.254.0.6, service names      *)
(* "TIVA_<i>"); the other addresses and ports are representative.          *)
(***************************************************************************)
MC_EMC_NETWORK_BRIDGE_IP_ADDRESS == <<169, 254, 0, 2>>
MC_TIVA_TCP_IP_ADDRESS == <<169, 254, 0, 3>>
MC_TIVA_RS485_IP_ADDRESS == <<127, 0, 0, 1>>
MC_TIVA_TCP_IP_ADDRESS_PREFIX == <<169, 254, 0>>
MC_TIVA_SERVICE_ID_PREFIX == <<"TIVA", "">>

(* Requested service names: the logical ones, the suffixed variants asked *)
(* for directly, interlake ids inside and outside the fan-out, and        *)
(* unknown names.                                                          *)
MC_Services ==
    { <<"SSH">>, <<"GW">>, <<"TIVA">>, <<"TIVA", "TCP">>, <<"TIVA", "RS485">>,
      <<"TIVA", "0">>, <<"TIVA", "1">>, <<"TIVA", "2">>, <<"TIVA", "3">>, <<"SSH", "TCP">>,
      <<"FTP">>, <<"">> }

(* An operator-supplied endpoint host, used verbatim.                       *)
MC_EndpointOverride == [verbatim |-> "proxy.example"]

MC_Regions ==
    { <<"us", "east", "1">>, <<"cn", "north", "1">>, <<"cn">>,
      <<"cnx", "east", "1">> }
=============================================================================
