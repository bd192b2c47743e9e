------------------------------ MODULE MC_SfpUtil ------------------------------
(* Three physical ports: Ethernet0 ganged over ports 2 and 3, Ethernet4 on  *)
(* port 1; Ethernet8 is a name the plugin rejects.  Port 1's transceiver    *)
(* has no DOM data.                                                         *)
EXTENDS SfpUtil, TLC

CONSTANTS e0, e4, e8, n1, n2, n3, lc, enc, acme, hot, warm

MC_Logical  == <<e0, e4>>
MC_PhysOf   == (e0 :> <<2, 3>>) @@ (e4 :> <<1>>)
MC_Physical == {1, 2, 3}
MC_Names    == {e0, e4, e8}
MC_Numerals == {n1, n2, n3}
MC_IntOf    == (n1 :> 1) @@ (n2 :> 2) @@ (n3 :> 3)
MC_IsValid  == {e0, e4, n1, n2, n3}
MC_KeyOrder == <<"AwThresholds", "Connector", "EncodingCodes",
                 "TempHighAlarm", "Temperature", "VendorName">>
MC_Scalars  == {lc, enc, acme, hot, warm}
MC_IfData   == [p \in MC_Physical |->
                  ("Connector" :> lc) @@ ("EncodingCodes" :> enc)
                  @@ ("VendorName" :> acme)]
MC_DomData  == [p \in MC_Physical |->
                  IF p = 1 THEN NoDom
                  ELSE ("AwThresholds" :> ("TempHighAlarm" :> hot))
                       @@ ("Temperature" :> warm)]
=============================================================================
