-------------------------------- MODULE Startup --------------------------------
(***************************************************************************)
(* What happens before the first frame and what the user then does: the    *)
(* device is set up, images and models are opened, and the views are moved *)
(* and laid out.                                                           *)
(*                                                                         *)
(* Imports and views need the queues of the device and nothing else of it, *)
(* so they are followed on one machine, Typical, and its first start only; *)
(* and since images, models and views share no state here, a behaviour is  *)
(* about one of them, or about the starts that follow.                     *)
(***************************************************************************)
EXTENDS DeviceSetup, ImageImport, ModelImport, Views

CONSTANTS
  Typical     \* one of Machines

ASSUME TypicalAssumption == Typical \in Machines

vars == << setupVars, imageVars, modelVars, viewsVars >>

Init == SetupInit /\ ImageInit /\ ModelInit /\ ViewsInit

NoImageOpen == imagePhase = "idle" /\ imageFile = NoFile

NoModelOpen == modelPhase = "idle" /\ modelFile = NoModelFile

Use ==
  /\ step = "ready"
  /\ machine = Typical
  /\ saved = NotChosen
  /\ \/ NoModelOpen /\ Untouched /\ ImageNext /\ UNCHANGED << modelVars, viewsVars >>
     \/ NoImageOpen /\ Untouched /\ ModelNext /\ UNCHANGED << imageVars, viewsVars >>
     \/ NoImageOpen /\ NoModelOpen /\ ViewsNext /\ UNCHANGED << imageVars, modelVars >>
  /\ UNCHANGED setupVars

Next ==
  \/ SetUp /\ UNCHANGED << imageVars, modelVars, viewsVars >>
  \/ Use
  \/ /\ NoImageOpen /\ NoModelOpen /\ Untouched
     /\ Exit \/ Crash \/ LoseConfig
     /\ UNCHANGED << imageVars, modelVars, viewsVars >>

Spec == Init /\ [][Next]_vars
=============================================================================
