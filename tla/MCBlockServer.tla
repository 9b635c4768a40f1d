---------------------------- MODULE MCBlockServer ----------------------------
(***************************************************************************)
(* Instances of BlockServer for TLC: which files are served, how large     *)
(* they are, and which datagrams reach the server.                         *)
(***************************************************************************)
EXTENDS BlockServer, TLC

CONSTANTS f1, f2, f3, s1, h1, h2

(* Blocks are two bytes.  f1 ends in a short block and has more blocks     *)
(* than fit in the queue, f2 has as many and ends in a full one.  While f1 *)
(* is served it may become the shorter f3, which leaves the stream failed  *)
(* in the middle of the walk.                                              *)
MCFileSize == f1 :> 11 @@ f2 :> 12 @@ f3 :> 5
MCDigest == f1 :> 1 @@ f2 :> 2 @@ f3 :> 3
MCContents == s1 :> {f3}
NoContents == s1 :> {}
MCPathLen == "a" :> 1 @@ "long" :> 9
MCSource == s1 :> f1
MCDest == s1 :> "a"

-----------------------------------------------------------------------------
(* No process is killed and no system call fails.                          *)
Undisturbed(req) == \E s \in Servers : ServerStep(s, req)

(* What a client of this program sends, from its first datagram to its     *)
(* last.                                                                   *)
FromClientSpec ==
  ServerInit /\ [][Undisturbed({ChelloMsg(h1), ChelloMsg(h2), CgoodbyeMsg})]_server_vars

(* blockserver.cpp:137 "The client has finished receiving all blocks, and  *)
(* will shut down": the goodbye of a client does not end the server.       *)
ServerSurvives == \A s \in Servers : server_pc[s] # "failed"
=============================================================================
