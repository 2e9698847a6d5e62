--------------------------- MODULE MCSourceClosure ---------------------------
(* Small instances of SourceClosure: seven files in four directories, any  *)
(* four of eleven references, and at most one file that is not good.       *)
EXTENDS SourceClosure, FiniteSetsExt

A == << "top", "a.json" >>
AYaml == << "top", "a.yaml" >>
AB == << "top", "a", "b.json" >>
C == << "top", "c", "d.json" >>
Note == << "top", "note.txt" >>
Definitions == << "out", "definitions.json" >>
Other == << "out", "other.json" >>

MCFiles == { A, AYaml, AB, C, Note, Definitions, Other }
MCSchemaNames ==
  { "a.json", "a.yaml", "b.json", "d.json", "definitions.json", "other.json" }
MCStem ==
  [ name \in MCSchemaNames \cup { "note.txt" } |->
      CASE name \in { "a.json", "a.yaml" } -> "a"
        [] name = "b.json" -> "b"
        [] name = "d.json" -> "d"
        [] name = "definitions.json" -> "definitions"
        [] name = "other.json" -> "other"
        [] OTHER -> name ]

(* A file, a directory, both, nothing to read, and two distant files.      *)
MCInputSets ==
  { {A}, {AB}, {Note}, {Definitions}, {<< "top", "a" >>, << "top", "c" >>}, {A, << "top", "a" >>},
    {C, Other}, {<< "top", "none" >>} }

Edges ==
  { << A, C >>, << A, AYaml >>, << C, AB >>, << AB, Other >>, << Other, C >>,
    << C, A >>, << AB, Absolute >>, << A, Definitions >>, << Definitions, Other >>,
    << C, Note >>, << Other, Other >> }

MCReferenceGraphs ==
  { [ file \in MCFiles |-> { e[2] : e \in { edge \in edges : edge[1] = file } } ] :
      edges \in UNION { kSubset(n, Edges) : n \in 0 .. 4 } }

MCDisks ==
  { [ file \in MCFiles |-> IF file = bad THEN condition ELSE "good" ] :
      bad \in { AB, Other }, condition \in Condition }
=============================================================================
