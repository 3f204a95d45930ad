---------------------------- MODULE MCGimbalVoice ----------------------------
(* The voice programs and a console at the gimbal daemon. *)
EXTENDS GimbalVoice

CONSTANTS voiceClient, console
=============================================================================
