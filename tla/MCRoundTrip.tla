---------------------------- MODULE MCRoundTrip ----------------------------
(***************************************************************************)
(* Small instances of RoundTrip for TLC.  The one value stands for many:   *)
(* as a hash with field expirations it is refused if it is empty or out of *)
(* range; as a quicklist with an element of 16384 bytes or more it is      *)
(* misread or refused; as a ziplist, of short elements, it reads back.     *)
(***************************************************************************)
EXTENDS RoundTrip, TLC

MCReadAs == <<24, 1>> :> {1, -1} @@ <<14, 1>> :> {1, 3, -1}
=============================================================================
