-------------------------- MODULE MCAssetTransport --------------------------
(* A long unit and a short one, which share fewer bodies than they need.   *)
EXTENDS AssetTransportProperties, TLC

TwoAndOne == "long" :> 2 @@ "short" :> 1
=============================================================================
