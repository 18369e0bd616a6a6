--------------------------- MODULE MCPresenceView ---------------------------
(***************************************************************************)
(* PresenceView with a keyboard and a pad that is streamed.                *)
(***************************************************************************)
EXTENDS PresenceView

CONSTANTS keyboard, pad

=============================================================================
