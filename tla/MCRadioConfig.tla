--------------------------- MODULE MCRadioConfig ---------------------------
(* A LoRa plan, an FSK plan with Doppler, one too long, one not JSON.       *)
EXTENDS RadioConfig
=============================================================================
