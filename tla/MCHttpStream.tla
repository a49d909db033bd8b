---------------------------- MODULE MCHttpStream ----------------------------
(* A turn of three events, with room for three frames in each buffer: the  *)
(* early events, the acceptance with them, and a slow consumer at either   *)
(* end can overflow one.  A response wants its writer to wait from the     *)
(* second unsent frame on, and the connection takes one.                   *)
EXTENDS HttpStream

MCLength == 3
MCLimit == 3
MCHighWater == 2
MCWindow == 1
=============================================================================
