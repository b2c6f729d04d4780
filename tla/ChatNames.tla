----------------------------- MODULE ChatNames -----------------------------
(***************************************************************************)
(* The names the modules of the chat server share.  Names and Rooms stand  *)
(* for the strings valid_name and valid_room let through.                  *)
(***************************************************************************)
CONSTANTS
    Names,      \* user names
    Rooms,      \* room names the clients of this instance use
    General     \* the public room; an instance may leave it out of Rooms
=============================================================================
