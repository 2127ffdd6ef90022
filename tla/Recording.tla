------------------------------- MODULE Recording -------------------------------
(***************************************************************************)
(* What a frame is recorded with: the command buffers of a queue and the   *)
(* descriptor sets that are bound into them.                               *)
(*                                                                         *)
(* A bind is a command like any other to CommandPool, and DescriptorSets   *)
(* looks no further than the bind, so the two share no state: a behaviour  *)
(* is about one of them, and the other stays as it begins.                 *)
(***************************************************************************)
EXTENDS DescriptorSets, CommandPool

recordingVars == << vars, poolVars >>

RecordingInit == Init /\ PoolInit

RecordingNext ==
  \/ PoolInit /\ Next /\ UNCHANGED poolVars
  \/ Init /\ PoolNext /\ UNCHANGED vars

RecordingSpec == RecordingInit /\ [][RecordingNext]_recordingVars
=============================================================================
