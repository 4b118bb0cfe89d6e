-------------------------------- MODULE MCRpn --------------------------------
(* Two watchpoints and equations of up to seven tokens.                    *)
EXTENDS RpnLockstep

MCWPs == {"w1", "w2"}
==============================================================================
