------------------------------ MODULE MCRecording ------------------------------
EXTENDS Recording, TLC

\* One array set element by element, as gTextures, between a single value and a
\* whole vector.
ThreeKinds == 1 :> "one" @@ 2 :> "element" @@ 3 :> "many"

\* Neither the recording threads nor the inheritances are told apart.
Alike == Permutations(Recorders) \cup Permutations(Inheritances)
===============================================================================
