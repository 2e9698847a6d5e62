---------------------------- MODULE SourceClosure ----------------------------
(***************************************************************************)
(* How the JSON Schema loader of src/src/parser/json_schema.rs finds its   *)
(* input set: it reads the files the command line names, follows their     *)
(* local `$ref`s to a fixpoint (`expand_json_schema_sources`), takes the   *)
(* directory common to all, and gives each file a place in the module tree *)
(* (`api_spec_tree_from_json_schema_sources`, `insert_leaf`).              *)
(*                                                                         *)
(* A path is the sequence of its names from the filesystem's root, in the  *)
(* form `canonical` gives it.  The schema inside a file is reduced to what *)
(* the closure reads from it: is its grammar valid, and which references   *)
(* it holds.  The world on disk is chosen by Init and never changes.       *)
(***************************************************************************)
EXTENDS Naturals, Sequences, FiniteSets

CONSTANTS
  Files,           (* Paths of files, there or only referred to.           *)
  Absolute,        (* A reference whose file part is an absolute path.     *)
  InputSets,       (* What the command line may name.                      *)
  ReferenceGraphs, (* The references the files may hold.                   *)
  Disks,           (* The conditions the files may be in.                  *)
  SchemaNames,     (* File names that end in .json, .yaml or .yml.         *)
  Stem,            (* The module segment of each file name.                *)
  Reserved,        (* Segments that no module may have.                    *)
  ReservedAtTop    (* Segments that no module at the top may have.         *)

Reference == Files \cup {Absolute}

(* "malformed": read, and rejected by the parser or by                     *)
(* validate_raw_document_grammar.  "unreadable": there, but not as text.   *)
Condition == {"good", "malformed", "unreadable", "missing"}

ASSUME FilesAssumption == IsFiniteSet(Files)
ASSUME AbsoluteAssumption == Absolute \notin Files
ASSUME GraphAssumption == ReferenceGraphs \subseteq [Files -> SUBSET Reference]
ASSUME DiskAssumption == Disks \subseteq [Files -> Condition]
ASSUME PathAssumption ==
  /\ \A file \in Files : file \in Seq(STRING) /\ file # << >>
  /\ \A named \in InputSets : named \subseteq Seq(STRING)

VARIABLES
  inputs,       (* Paths on the command line: directories and files.       *)
  refs,         (* References of each file: the closure's edges.           *)
  disk,         (* The condition of each file.                             *)
  sources,      (* The files read so far: keys of source_inputs.           *)
  pending,      (* The queue of files whose references are to be followed. *)
  todo,         (* References of the file taken last, still to be followed.*)
  leaves,       (* Files that have a place in the module tree.             *)
  outcome       (* "start", "reading", "placing", "loaded" or "rejected".  *)

world == << inputs, refs, disk >>
search == << sources, pending, todo >>
vars == << world, search, leaves, outcome >>

-----------------------------------------------------------------------------
(* Paths.                                                                  *)

(* Path::starts_with.                                                      *)
Under(path, directory) ==
  Len(directory) <= Len(path) /\ SubSeq(path, 1, Len(directory)) = directory

(* Above a path on the command line is a directory: no text to read.      *)
ASSUME DirectoryAssumption ==
  \A named \in InputSets, condition \in Disks :
    \A input \in named, file \in Files :
      Under(input, file) /\ input # file => condition[file] \in {"unreadable", "missing"}

Parent(path) == SubSeq(path, 1, Len(path) - 1)

(* The deepest directory over all of a set of directories.                 *)
CommonAncestor(directories) ==
  LET lengths == { n \in 0 .. Len(CHOOSE d \in directories : TRUE) :
                     \A d, e \in directories :
                       /\ n <= Len(d) /\ n <= Len(e)
                       /\ SubSeq(d, 1, n) = SubSeq(e, 1, n) }
      deepest == CHOOSE n \in lengths : \A m \in lengths : m <= n
  IN  SubSeq(CHOOSE d \in directories : TRUE, 1, deepest)

(* json_schema_invocation_root: a directory stands for itself, a file for  *)
(* the directory it is in.                                                 *)
InvocationRoot ==
  CommonAncestor({ IF input \in Files THEN Parent(input) ELSE input : input \in inputs })

(* common_source_root.                                                     *)
SourceRoot(files) == CommonAncestor({ Parent(file) : file \in files })

(* fs::read_to_string fails.                                               *)
CannotBeRead(file) == disk[file] \in {"unreadable", "missing"}

(* collect_json_schema_files under a directory, and a file for itself.     *)
NamedFiles ==
  (inputs \cap Files) \cup
    { file \in Files :
        /\ disk[file] # "missing"
        /\ file[Len(file)] \in SchemaNames
        /\ \E directory \in inputs \ Files : Under(file, directory) }

-----------------------------------------------------------------------------
(* expand_json_schema_sources.                                             *)

Reject ==
  /\ outcome' = "rejected"
  /\ UNCHANGED << world, search, leaves >>

(* An input that cannot be read.                                           *)
RejectInput ==
  /\ outcome = "start"
  /\ \E file \in NamedFiles : CannotBeRead(file)
  /\ Reject

(* The inputs are read and queued, in the order of their paths: here in    *)
(* any order.                                                              *)
ReadInputs ==
  /\ outcome = "start"
  /\ \A file \in NamedFiles : ~ CannotBeRead(file)
  /\ sources' = NamedFiles
  /\ pending' \in { queue \in [1 .. Cardinality(NamedFiles) -> NamedFiles] :
                      \A file \in NamedFiles : \E i \in DOMAIN queue : queue[i] = file }
  /\ outcome' = "reading"
  /\ UNCHANGED << world, todo, leaves >>

(* The file at the head of the queue: its grammar first.                   *)
RejectGrammar ==
  /\ outcome = "reading" /\ todo = {} /\ pending # << >>
  /\ disk[Head(pending)] = "malformed"
  /\ Reject

TakeFile ==
  /\ outcome = "reading" /\ todo = {} /\ pending # << >>
  /\ disk[Head(pending)] # "malformed"
  /\ pending' = Tail(pending)
  /\ todo' = refs[Head(pending)]
  /\ UNCHANGED << world, sources, leaves, outcome >>

(* Faulty variant: a reference may lead anywhere.                          *)
IsRejectedUnlessRelative(reference) ==
  \/ reference = Absolute
  \/ reference \in Files \ sources /\ CannotBeRead(reference)

(* Faulty variant: an absolute reference is taken for a known file.        *)
IsRejectedUnlessAbsolute(reference) ==
  \/ reference \in Files /\ ~ Under(reference, InvocationRoot)
  \/ reference \in Files \ sources /\ CannotBeRead(reference)

(* An absolute reference, one that leaves the invocation root, and a new   *)
(* target that cannot be read.                                             *)
IsRejected(reference) ==
  \/ reference = Absolute
  \/ reference \in Files /\ ~ Under(reference, InvocationRoot)
  \/ reference \in Files \ sources /\ CannotBeRead(reference)

RejectReference ==
  /\ outcome = "reading"
  /\ \E reference \in todo : IsRejected(reference)
  /\ Reject

(* Faulty variant: a file that is not waiting is queued again.             *)
FollowReferenceAgain ==
  /\ outcome = "reading"
  /\ \E reference \in todo :
       /\ ~ IsRejected(reference)
       /\ todo' = todo \ {reference}
       /\ sources' = sources \cup {reference}
       /\ pending' = IF \E i \in DOMAIN pending : pending[i] = reference
                     THEN pending ELSE Append(pending, reference)
  /\ UNCHANGED << world, leaves, outcome >>

(* Faulty variant: a new source is read but not queued.                    *)
FollowReferenceOnce ==
  /\ outcome = "reading"
  /\ \E reference \in todo :
       /\ ~ IsRejected(reference)
       /\ todo' = todo \ {reference}
       /\ sources' = sources \cup {reference}
  /\ UNCHANGED << world, pending, leaves, outcome >>

(* One reference, in any order of the document: a known target is skipped, *)
(* a new one is read and queued.                                           *)
FollowReference ==
  /\ outcome = "reading"
  /\ \E reference \in todo :
       /\ ~ IsRejected(reference)
       /\ todo' = todo \ {reference}
       /\ sources' = sources \cup {reference}
       /\ pending' = IF reference \in sources THEN pending ELSE Append(pending, reference)
  /\ UNCHANGED << world, leaves, outcome >>

(* The search is over; a directory may have had no schema in it.           *)
RejectNothing ==
  /\ outcome = "reading" /\ todo = {} /\ pending = << >>
  /\ sources = {}
  /\ Reject

-----------------------------------------------------------------------------
(* api_spec_tree_from_json_schema_sources.                                 *)

(* module_path_from_relative_source of the path below the common root.     *)
ModulePath(file, files) ==
  Append(SubSeq(file, Len(SourceRoot(files)) + 1, Len(file) - 1), Stem[file[Len(file)]])

(* is_reserved_module_name and module_segment_defect.                      *)
IsBadModule(path) ==
  \/ \E i \in DOMAIN path : path[i] \in Reserved
  \/ path[1] \in ReservedAtTop

(* Faulty variant: a source that is alone needs a module name too.         *)
PlaceSourcesAlways ==
  /\ outcome = "reading" /\ todo = {} /\ pending = << >>
  /\ sources # {}
  /\ outcome' = IF \E file \in sources : IsBadModule(ModulePath(file, sources))
                THEN "rejected" ELSE "placing"
  /\ UNCHANGED << world, search, leaves >>

(* A single source is the whole tree; several need module names first.     *)
PlaceSources ==
  /\ outcome = "reading" /\ todo = {} /\ pending = << >>
  /\ sources # {}
  /\ IF Cardinality(sources) = 1
     THEN leaves' = sources /\ outcome' = "loaded"
     ELSE /\ leaves' = leaves
          /\ outcome' = IF \E file \in sources : IsBadModule(ModulePath(file, sources))
                        THEN "rejected" ELSE "placing"
  /\ UNCHANGED << world, search >>

(* insert_leaf_at: a module at the same path, a module where this one      *)
(* needs a directory, or a directory where this one is.                    *)
Clashes(path, other) == Under(path, other) \/ Under(other, path)

RejectModule ==
  /\ outcome = "placing"
  /\ \E file \in sources \ leaves, leaf \in leaves :
       Clashes(ModulePath(file, sources), ModulePath(leaf, sources))
  /\ Reject

InsertLeaf ==
  /\ outcome = "placing"
  /\ \E file \in sources \ leaves :
       /\ \A leaf \in leaves : ~ Clashes(ModulePath(file, sources), ModulePath(leaf, sources))
       /\ leaves' = leaves \cup {file}
  /\ outcome' = IF leaves' = sources THEN "loaded" ELSE "placing"
  /\ UNCHANGED << world, search >>

-----------------------------------------------------------------------------
Init ==
  /\ inputs \in InputSets
  /\ refs \in ReferenceGraphs
  /\ disk \in Disks
  /\ sources = {} /\ pending = << >> /\ todo = {}
  /\ leaves = {}
  /\ outcome = "start"

Next ==
  \/ RejectInput \/ ReadInputs
  \/ RejectGrammar \/ TakeFile
  \/ RejectReference \/ FollowReference
  \/ RejectNothing \/ PlaceSources
  \/ RejectModule \/ InsertLeaf

Spec == Init /\ [][Next]_vars /\ WF_vars(Next)

-----------------------------------------------------------------------------
TypeOK ==
  /\ refs \in [Files -> SUBSET Reference]
  /\ disk \in [Files -> Condition]
  /\ sources \subseteq Files
  /\ pending \in Seq(Files)
  /\ todo \subseteq Reference
  /\ leaves \subseteq Files
  /\ outcome \in {"start", "reading", "placing", "loaded", "rejected"}

(* The files the references lead to: the least set that has the files the  *)
(* command line names and is closed under references.                      *)
Reachable ==
  LET named == NamedFiles
      closed == { files \in SUBSET Files :
                    /\ named \subseteq files
                    /\ \A file \in files : refs[file] \cap Files \subseteq files }
  IN  { file \in Files : \A files \in closed : file \in files }

(* What is wrong with a file: itself, or where it refers to.               *)
IsDefective(file) ==
  \/ disk[file] # "good"
  \/ Absolute \in refs[file]
  \/ \E reference \in refs[file] \cap Files : ~ Under(reference, InvocationRoot)

(* What is wrong with the module names of several files.                   *)
NamesConflict(files) ==
  /\ Cardinality(files) # 1
  /\ \/ \E file \in files : IsBadModule(ModulePath(file, files))
     \/ \E file, other \in files :
          file # other /\ Clashes(ModulePath(file, files), ModulePath(other, files))

(* A load succeeds with exactly the reachable files, each in the tree, and *)
(* only if none of them is defective and their module names fit together.  *)
AcceptedIsClosure ==
  outcome = "loaded" =>
    /\ sources = Reachable /\ leaves = Reachable /\ Reachable # {}
    /\ \A file \in Reachable : ~ IsDefective(file)
    /\ ~ NamesConflict(Reachable)

(* A load fails only for a cause that every order of the search, of the    *)
(* document and of the insertion would meet: with AcceptedIsClosure the    *)
(* verdict is a function of the files.                                     *)
RejectedForCause ==
  outcome = "rejected" =>
    \/ Reachable = {}
    \/ \E file \in Reachable : IsDefective(file)
    \/ NamesConflict(Reachable)

(* The emitted module names depend on the paths below the invocation root  *)
(* and on nothing else: not on where the checkout lives.                   *)
BelowInvocationRoot(file) == SubSeq(file, Len(InvocationRoot) + 1, Len(file))

Reproducible ==
  outcome \in {"placing", "loaded"} =>
    LET below == { BelowInvocationRoot(file) : file \in sources }
    IN  \A file \in sources :
          /\ Under(file, InvocationRoot)
          /\ ModulePath(file, sources) = ModulePath(BelowInvocationRoot(file), below)

(* Cyclic references end the search all the same.                          *)
Terminates == <>(outcome \in {"loaded", "rejected"})
=============================================================================
