---------------------------- MODULE MCBlockClient ----------------------------
(***************************************************************************)
(* Instances of BlockClient for TLC.                                       *)
(***************************************************************************)
EXTENDS BlockClient, TLC

CONSTANTS f1, f2, c1, h1, h2

(* Blocks are two bytes: f1 has two blocks, the last one short; f2 is one  *)
(* full block.                                                             *)
MCFileSize == f1 :> 3 @@ f2 :> 2
MCDigest == f1 :> 1 @@ f2 :> 2
MCHostOf == c1 :> h1
MCPathLen ==
  [p \in Paths |-> CASE p = "a" -> 1 [] p = "b" -> 8 [] p = "long" -> 9]

-----------------------------------------------------------------------------
(* No goodbye of a server and no failure: what this program's servers send.*)
NoGoodbyeSpec ==
  ClientInit /\ [][\E c \in Clients : ClientStep(c, Announcements)]_client_vars

(* syncstatus.hpp:56-57 of sync_complete(): "Returns true if the client    *)
(* and server have both acknowledged that the sync has completed".  With   *)
(* no goodbye there is no acknowledgement, and a file is not forgotten.    *)
OnlyAGoodbyeCompletes ==
  [][\A c \in Clients : Following(c) \subseteq DOMAIN sync_set'[c]]_client_vars

=============================================================================
