---------------------- MODULE MCSecureTunnelingFeature ----------------------
(***************************************************************************)
(* Model values for SecureTunnelingFeature: the notifications a broker     *)
(* may deliver, one accepted request per service kind and one for every    *)
(* early return of the handler.                                            *)
(***************************************************************************)
EXTENDS SecureTunnelingFeature, MCResolverValues

USEast == <<"us", "east", "1">>
CNNorth == <<"cn", "north", "1">>

Note(err, mode, services, token, region) ==
    [ioErr |-> err, clientMode |-> mode, services |-> services,
     token |-> token, region |-> region]

MC_Notifications ==
    { Note(FALSE, "destination", <<<<"SSH">>>>, "t1", USEast),
      Note(FALSE, "destination", <<<<"TIVA">>>>, "t2", CNNorth),
      Note(TRUE,  "destination", <<<<"SSH">>>>, "t1", USEast),
      Note(FALSE, "source",      <<<<"SSH">>>>, "t1", USEast),
      Note(FALSE, "destination", <<>>, "t1", USEast),
      Note(FALSE, "destination", <<<<"SSH">>, <<"GW">>>>, "t1", USEast),
      Note(FALSE, "destination", <<<<"SSH">>>>, "", USEast),
      Note(FALSE, "destination", <<<<"SSH">>>>, "t1", <<"">>),
      Note(FALSE, "destination", <<<<"FTP">>>>, "t1", USEast) }
=============================================================================
