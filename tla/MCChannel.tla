----------------------------- MODULE MCChannel -----------------------------
(***************************************************************************)
(* Instances of Channel for TLC, and what the sources say of the channel   *)
(* that the code does not keep.                                            *)
(***************************************************************************)
EXTENDS Channel

(* channel.c:437 computes a limit of 3000 ms for the wait and channel.c:469 *)
(* traces "Notification message timed out": a sender does not wait for     *)
(* ever, whether the helper answers or not.                                *)
SendTimesOut == \A s \in Senders : spc[s] = "wait" ~> spc[s] # "wait"
=============================================================================
