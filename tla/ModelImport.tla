------------------------------ MODULE ModelImport ------------------------------
(***************************************************************************)
(* model::detail::Load and the constructors of Model: the corners of the   *)
(* faces of an OBJ file become vertices at the end of a VertexAllocator,   *)
(* which are given back when an equal one is there already; the indices    *)
(* and vertices are staged, written to the cache file and read back from   *)
(* it, and copied to the buffers that are drawn.                           *)
(*                                                                         *)
(* A corner is a record of the attributes the file gives it.  The hash of  *)
(* a vertex stands for the vertex.                                         *)
(***************************************************************************)
EXTENDS Integers, Sequences, FiniteSets, SequencesExt

CONSTANTS
  FileCorners,    \* what a corner of a face may be
  Meshes          \* what LoadObj may find

ASSUME MeshesAssumption ==
  Meshes \subseteq [normals : BOOLEAN, texcoords : BOOLEAN, shapes : Seq(Seq(FileCorners))]

VARIABLES
  modelPhase,
  mesh,           \* the file being imported
  corner,         \* how many of its corners are done
  vertices,       \* the VertexAllocator
  uniqueVertices, \* from the hash of a vertex to its index
  indices,
  desc,           \* ModelCreateDesc
  staged,         \* the staging buffers
  modelFile,      \* the cache file
  model           \* the model's buffers and bindings

modelVars == << modelPhase, mesh, corner, vertices, uniqueVertices, indices, desc, staged,
                modelFile, model >>

\* offsetof and sizeof of VertexP3fN3fT014fC4f.
Layout ==
  [position |-> [format |-> "rgb32f", offset |-> 0],
   normal   |-> [format |-> "rgb32f", offset |-> 16],
   texCoord |-> [format |-> "rgba32f", offset |-> 32],
   color    |-> [format |-> "rgba32f", offset |-> 48]]

VertexSize == 64

FormatSize == [rgb32f |-> 12, rgba32f |-> 16]

NoDesc == [attributes |-> << >>, bounds |-> {}, indexCount |-> 0, vertexCount |-> 0]
NoBuffers == [ib |-> << >>, vb |-> << >>]
NoModelFile == [desc |-> NoDesc, data |-> << >>]
NoModel == [ib |-> << >>, vb |-> << >>, stride |-> 0, bounds |-> {}]

Corners == FlattenSeq(mesh.shapes)

ModelInit ==
  /\ modelPhase = "idle"
  /\ mesh = [normals |-> FALSE, texcoords |-> FALSE, shapes |-> << >>]
  /\ corner = 0
  /\ vertices = << >>
  /\ uniqueVertices = << >>
  /\ indices = << >>
  /\ desc = NoDesc
  /\ staged = NoBuffers
  /\ modelFile = NoModelFile
  /\ model = NoModel

-----------------------------------------------------------------------------
(***************************************************************************)
(* loadOBJ.                                                                *)
(***************************************************************************)

\* LoadObj gives every vertex a position and a colour.
Attributes(m) ==
  LET plain == IF m.normals THEN << "position", "normal" >> ELSE << "position" >>
  IN Append(IF m.texcoords THEN Append(plain, "texCoord") ELSE plain, "color")

OpenModel(m) ==
  /\ modelPhase = "idle"
  /\ modelPhase' = "import"
  /\ mesh' = m
  /\ desc' = [NoDesc EXCEPT !.attributes = Attributes(m)]
  /\ modelFile' = NoModelFile
  /\ UNCHANGED << corner, vertices, uniqueVertices, indices, staged, model >>

\* A new vertex is all zero until the attributes of the file are copied.
Vertex(c) ==
  [a \in DOMAIN Layout |-> IF a \in ToSet(Attributes(mesh)) THEN c[a] ELSE 0]

\* Only the last vertex is ever given back: the test for any other one is
\* turned round, and it would stay.
FreeVertex(all, n) == IF n = Len(all) THEN Front(all) ELSE all

\* Mutant of IndexOfLast: the size is taken for the index.
TakesSize(all) == Len(all)

IndexOfLast(all) == Len(all) - 1

AddCorner ==
  /\ modelPhase = "import"
  /\ corner < Len(Corners)
  /\ LET vertex == Vertex(Corners[corner + 1])
         created == Append(vertices, vertex)
     IN IF vertex \in DOMAIN uniqueVertices
          THEN /\ vertices' = FreeVertex(created, Len(created))
               /\ indices' = Append(indices, uniqueVertices[vertex])
               /\ UNCHANGED << uniqueVertices, desc >>
          ELSE /\ vertices' = created
               /\ uniqueVertices' =
                    [v \in DOMAIN uniqueVertices \cup {vertex} |->
                       IF v = vertex THEN IndexOfLast(created) ELSE uniqueVertices[v]]
               /\ indices' = Append(indices, IndexOfLast(created))
               /\ desc' = [desc EXCEPT !.bounds = @ \cup {vertex.position}]
  /\ corner' = corner + 1
  /\ UNCHANGED << modelPhase, mesh, staged, modelFile, model >>

StageModel ==
  /\ modelPhase = "import"
  /\ corner = Len(Corners)
  /\ modelPhase' = "loaded"
  /\ desc' = [desc EXCEPT !.indexCount = Len(indices), !.vertexCount = Len(vertices)]
  /\ staged' = [ib |-> indices, vb |-> vertices]
  /\ corner' = 0 /\ vertices' = << >> /\ uniqueVertices' = << >> /\ indices' = << >>
  /\ UNCHANGED << mesh, modelFile, model >>

-----------------------------------------------------------------------------
(***************************************************************************)
(* The cache file, and the model.                                          *)
(***************************************************************************)

\* The file is the description followed by both buffers.
SaveModel ==
  /\ modelPhase = "loaded"
  /\ modelPhase' = "staged"
  /\ modelFile' = [desc |-> desc,
                   data |-> SubSeq(staged.ib, 1, desc.indexCount)
                              \o SubSeq(staged.vb, 1, desc.vertexCount)]
  /\ UNCHANGED << mesh, corner, vertices, uniqueVertices, indices, desc, staged, model >>

LoadModelBin ==
  /\ modelPhase = "idle"
  /\ modelFile # NoModelFile
  /\ modelPhase' = "staged"
  /\ desc' = modelFile.desc
  /\ staged' = [ib |-> SubSeq(modelFile.data, 1, desc'.indexCount),
                vb |-> SubSeq(modelFile.data, desc'.indexCount + 1,
                              desc'.indexCount + desc'.vertexCount)]
  /\ UNCHANGED << mesh, corner, vertices, uniqueVertices, indices, modelFile, model >>

\* CalculateInputBindingDescriptions: locations count from zero, and the
\* stride is the end of the last attribute; without room for one there is
\* no binding, here a stride of zero.
Ends(attributes) ==
  [i \in DOMAIN attributes |->
     Layout[attributes[i]].offset + FormatSize[Layout[attributes[i]].format]]

Stride(attributes) ==
  IF \A i \in 2 .. Len(attributes) : Layout[attributes[i]].offset >= Ends(attributes)[i - 1]
  THEN Last(Ends(attributes)) ELSE 0

\* A device buffer of the size that is asked for, filled from the staging
\* buffer.
CreateBuffer(staging, size) == SubSeq(staging, 1, size)

\* The constructors of Model and Buffer.
CreateBuffers ==
  /\ modelPhase = "staged"
  /\ modelPhase' = "uploaded"
  /\ model' = [ib     |-> CreateBuffer(staged.ib, desc.indexCount),
               vb     |-> CreateBuffer(staged.vb, desc.vertexCount),
               stride |-> Stride(desc.attributes),
               bounds |-> desc.bounds]
  /\ UNCHANGED << mesh, corner, vertices, uniqueVertices, indices, desc, staged, modelFile >>

\* The timeline callbacks free the staging buffers and the model is
\* replaced; the cache file stays.
ReleaseModel ==
  /\ modelPhase = "uploaded"
  /\ modelPhase' = "idle"
  /\ desc' = NoDesc /\ staged' = NoBuffers /\ model' = NoModel
  /\ UNCHANGED << mesh, corner, vertices, uniqueVertices, indices, modelFile >>

ModelNext ==
  \/ \E m \in Meshes : OpenModel(m)
  \/ AddCorner \/ StageModel
  \/ SaveModel \/ LoadModelBin \/ CreateBuffers \/ ReleaseModel

-----------------------------------------------------------------------------
\* A model that is drawn has for every corner of the file, in their order
\* and across its shapes, an index of a vertex with the attributes of the
\* corner, no vertex twice, vertices as far apart as the buffer holds them
\* and the bounds of all positions, whether it was imported or read back
\* from the cache.  model.cpp:22-64 and 176-340, vertex.cpp:4-36.
MeshAsInFile ==
  modelPhase = "uploaded" =>
    /\ Len(model.ib) = Len(Corners)
    /\ \A i \in DOMAIN model.ib :
         /\ model.ib[i] + 1 \in DOMAIN model.vb
         /\ model.vb[model.ib[i] + 1] = Vertex(Corners[i])
    /\ IsInjective(model.vb)
    /\ model.stride = VertexSize
    /\ model.bounds = {Corners[i].position : i \in DOMAIN Corners}
=============================================================================
