------------------------------ MODULE AssetStore ------------------------------
(***************************************************************************)
(* What file::LoadAsset promises to LoadModel, LoadImage and ShaderLoader: *)
(* the asset as the source file has it at some moment of the call, or as   *)
(* some version has it that cannot be told from that one by time stamp and *)
(* size; and an error only when something went wrong during this call.     *)
(* What an earlier call left behind, finished or not, makes no difference. *)
(***************************************************************************)
EXTENDS Integers

CONSTANTS
  Versions,        \* of the source file, in the order they are written
  Look             \* the time stamp and size of each, as one number

VARIABLES
  version,         \* the source file's version
  present,         \* whether there is a source file
  seen,            \* the versions the source had since the call began
  disturbed,       \* whether something went wrong since the call began
  result           \* what the last call returned

vars == <<version, present, seen, disturbed, result>>

Error == -1
Loading == -2
Nothing == -3

Init ==
  /\ version = 0
  /\ present = TRUE
  /\ seen = {}
  /\ disturbed = FALSE
  /\ result = Nothing

Begin ==
  /\ result # Loading
  /\ result' = Loading
  /\ seen' = {version}
  /\ disturbed' = ~present
  /\ UNCHANGED <<version, present>>

Return(v) ==
  /\ result = Loading
  /\ \E w \in seen : Look[v] = Look[w]
  /\ result' = v
  /\ UNCHANGED <<version, present, seen, disturbed>>

Fail ==
  /\ result = Loading
  /\ disturbed
  /\ result' = Error
  /\ UNCHANGED <<version, present, seen, disturbed>>

\* The process ends in the middle of a call, and starts again.
Crash ==
  /\ result = Loading
  /\ result' = Nothing
  /\ UNCHANGED <<version, present, seen, disturbed>>

\* A disk that is full, a compiler that refuses, a file that disappears.
Disturb ==
  /\ result = Loading
  /\ disturbed' = TRUE
  /\ UNCHANGED <<version, present, seen, result>>

Edit ==
  /\ version' \in Versions
  /\ version' > version
  /\ present' = TRUE
  /\ seen' = seen \cup {version'}
  /\ UNCHANGED <<disturbed, result>>

Delete ==
  /\ present
  /\ present' = FALSE
  /\ disturbed' = TRUE
  /\ UNCHANGED <<version, seen, result>>

Next ==
  \/ Begin \/ Fail \/ Crash \/ Disturb \/ Edit \/ Delete
  \/ \E v \in Versions : Return(v)

Spec == Init /\ [][Next]_vars
===============================================================================
