------------------------------ MODULE MCEeprom ------------------------------
(* A serial number page and two pages of configuration.  The values of the   *)
(* settings are far enough apart for their sums to tell any mixture.        *)
EXTENDS Eeprom

MCSets == {<<Flags, 62>>, <<Hold, 1000>>}
MCSetBaud == {<<Baud, 100>>}
=============================================================================
