--------------------------- MODULE MCChannelsOne ---------------------------
(* A single instance of Channels, its constants in the configurations.     *)
EXTENDS Channels
=============================================================================
