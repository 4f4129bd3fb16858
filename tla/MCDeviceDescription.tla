------------------------- MODULE MCDeviceDescription -------------------------
(***************************************************************************)
(* A small instance of DeviceDescription: another server whose documents   *)
(* leave elements out, have the base URL in both places and in either      *)
(* order, a name twice, and an icon without width.                         *)
(***************************************************************************)
EXTENDS DeviceDescription

MCOther ==
    {[elements |-> << <<"friendlyName", "tomb">>, <<"UDN", "other">>,
                      <<"urlBase", "inner">>, <<"URLBase", "outer">> >>,
      iconList |-> << << <<"mimetype", "image/png">>, <<"url", <<"other", "png">> >> >>,
                      << <<"width", "32">>, <<"width", "16">> >> >>,
      serviceList |-> <<>>],
     [elements |-> << <<"URLBase", "outer">>, <<"major", "1">>, <<"minor", "none">>,
                      <<"modelURL", "web">>, <<"urlBase", "inner">> >>,
      iconList |-> <<>>,
      serviceList |-> << << <<"serviceId", <<"serviceId", "cds">> >>,
                            <<"controlURL", <<"upnp", "cds">> >> >> >>],
     [elements |-> << <<"friendlyName", "crypt">>, <<"friendlyName", "vault">> >>,
      iconList |-> <<>>, serviceList |-> <<>>]}
=============================================================================
