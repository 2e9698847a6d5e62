# A verification development for nexgen

nexgen is a compiler: it reads data models and Nexus services, written as JSON
Schema or WIT, and writes models and bindings in Go, TypeScript, Python, Java
and C#. These TLA+ modules model the parts of it whose correctness depends on
an order of steps, a recursion, a fixpoint or a failure; TLC checks them on
small instances, and TLAPS proves the main results for every instance.

Paths below are those of the repository (`src/` is its root), so
`src/src/parser/json_schema.rs` is the crate's JSON Schema loader. `allOf.md`
and the other `.md` files of keywords are in `src/specs/json-schema/features/`.

## The system

A run of the compiler is one pass of the pipeline below over one tree of
modules. It keeps nothing between runs except its output files.

| Part | State it keeps | Operations | What makes it correct |
| --- | --- | --- | --- |
| Driver (`lib.rs`, `main.rs`) | the output directory | load, compile, write, format | the output is that of one input, or the failure is reported |
| Configuration scope (`nexgen_config.rs`) | a thread-local stack | `scope`, `current`, drop | a scope ends with the configuration before it |
| JSON Schema loader (`parser/json_schema.rs`) | | | the loaded models mean what the schemas say; what is rejected is wrong in some way |
| - source closure | sources, queue | read, follow a reference | exactly the files reachable, in any order |
| - module tree | branches and leaves | `insert_leaf` | a place for each file, names that do not depend on the checkout |
| - `allOf` folding | models, cycle stack | normalize, expand, merge | the conjunction, of finite size, from every spelling |
| - keyword merging | what is merged so far | `merge_two`, `finalize_merged`, the children | merged keywords are the conjunction, in any order |
| - satisfiability | set of instantiable models | sweep, trace | rejects exactly what has no finite value |
| - hoisting, name manifest | synthesized definitions, claimed names | hoist in passes, insert, claim | every inline shape has the name of its position, no two declarations share one |
| - validators, unions | none | one per keyword | discriminators decide |
| WIT frontend (`parser/wit.rs`) | none | translate, annotate | |
| Planning (`planning/*`) | one tree of plans | selection, resources, operations, types, reachability, names | nothing used is pruned, every name resolves |
| Backends (`generator/*`) | a map of files | render | the text compiles and means the plan |
| Poll runtime, emitted by the Python backend | requests, a page | `__anext__`, the page generator | no item lost, repeats bounded |
| `add_rpc.rs`, `xtask` | files | authoring, samples | |
| Release script (`scripts/prepare_release.py`) | work tree, branch, remote, pull request | one step each, rerun after a failure | a rerun completes what was begun, once; no changelog entry is lost or listed twice |

The driver calls the loader, which returns a tree of specifications; the passes
of `compile_tree_to_files` map the tree to plans, one after the other; a backend
turns the plans into files, which the driver writes. Inside the JSON Schema
loader the order is: source closure, parse, `allOf` folding (which merges
keywords), validators, hoisting, references, unions, satisfiability, names,
module tree. The compiler itself has no concurrency. What it emits has: the
Python iterator awaits operations of a service that goes on changing, and its
consumer may fail at any await. So have its releases: maintainers run the
release script in clones of their own against one remote.

The hard parts are therefore: fixpoints and worklists whose result must not
depend on the order of files, keys or branches; recursions that must end on
recursive input; references that are resolved somewhere else than where they
were written; the emitted iterator's failures and restarts; file and git steps
that are interrupted. `PROJECT.json` lists each place under `hazards`.

## Modules

| Module | Models | Proofs |
| --- | --- | --- |
| `RefSatisfiability` (+ `MC`) | `validate_reference_satisfiability` | `RefSatisfiability_proofs` |
| `PollIterator` | `PYTHON_POLL_ITERATOR`, `render_client_poll_loop`, the stream sample's helpers, a service, a consumer | `PollIterator_proofs` |
| `ItemDelivery` | abstract: at-least-once delivery without gaps | `AbstractSpecs_proofs` |
| `SourceClosure` (+ `MC`) | `expand_json_schema_sources`, `insert_leaf` | `SourceClosure_proofs` |
| `AllOfFolding` (+ `MC`) | `normalize_document`, `normalize_schema`, `expand_branches`, `merge_child_schemas`, `validate_model_refs` | `AllOfFolding_proofs` |
| `KeywordMerge` | `merge_extra_value`, `merge_multiple_of`, `numeric_extreme`, `collapse_numeric_pair`, `finalize_merged` | `AllOfMerge_proofs` |
| `AllOfMerge` (+ `MC`) | `merge_branch_list`, `merge_two`, `merge_child_schemas` on keywords, `normalize_children`, the validators of a node | `AllOfMerge_proofs` |
| `Hoisting` (+ `MC`) | `hoist_inline_object_shapes`, the collection of models, `build_name_manifest` for types | `Hoisting_proofs` |
| `PrepareRelease` (+ `MC`) | `prepare_release.py` in several clones, a remote, pull requests, operators | `PrepareRelease_proofs` |
| `ReleaseLedger` | abstract: every changelog entry is in at most one release | `AbstractSpecs_proofs` |

In each module an operator whose comment begins with "Faulty variant" is not
part of the specification: it is a bug that the code could have had, and a
property must find it when it takes the place of the definition it varies.

### RefSatisfiability

A model is reduced to the members its instances are forced to contain, as
`schema_requirement` does: a member is required or not, and has one or more
alternatives (`oneOf`), each a bare `$ref`, a `$ref` kept with an annotation, or
something that ends the recursion. `SweepModel` is one turn of the inner loop
and changes `instantiable` in place; `NextSweep` is the outer loop; `Accept`,
`StartTrace` and `TraceHop` are what follows it. A union inside a union is a
union of all alternatives and an inline object is left out: hoisting has named
it before this check runs. The reference definition is independent of sweeps:
`HasFiniteValue` is membership in every set of models that is closed under
writing values.

Run `ref_satisfiability`: every input of three models over a catalogue of
bodies with up to two members and up to two alternatives. Three models are
enough for a cycle with a tail (the lasso of the report), for a sweep that must
reopen an earlier model, and for two cycles that share a model.

### PollIterator and ItemDelivery

Two coroutines and a consumer. The generated page generator holds its own
request (`genRequest`) and starts an operation for each page; `PollIterator`
holds `next_request`, `_page_request`, `_page_next` and `_page` and runs the
page helper again on its own copy. A step is what happens between two awaits:
`ReadPage` up to the operation, `PageArrives` from its answer to the item or
the next turn of the loop, `NextOfPage` an item without an await. `ReadFails`
is an exception out of the operation, or a cancellation: Python then finishes
the generator, and the next `__anext__` raises `StopAsyncIteration` (`Stop`)
although `next_request` is not `None`; the guide says to start a new iteration
after an error, which is `StartAgain`. The service writes records, leaves
offsets without a record, and completes; its answers obey `Answer` and are
otherwise arbitrary. The consumer saves `next_request` at any time (it is
public) and, after a crash, starts from what it saved.

A request is the offset it reads from. Requests that are relative to the end of
the log are left out: without a helper that makes them absolute, reading such a
page again reads another page, and nothing is promised.

`ItemDelivery` is what GUIDE.md promises in its section on `@nexus.poll`;
`ImplementsItemDelivery` is the refinement, with `resumeAt` the position
`next_request` stands for.

Run `poll_iterator`: three offsets, pages of two, one failed read and one crash.
Three offsets give a full page and a short one, an item in the middle of a page
and a gap at any offset; one failure and one crash can meet at every pair of
steps. With and without `wait`, and with and without the resume helper.

Fairness: `WF` of the iterator's own steps (a consumer that iterates keeps
calling `__anext__`), of the answer of a started operation (the service
answers), and of starting again after an error (what the guide asks for).
Nothing is assumed of records, completion, saves, failures or crashes, whose
number is bounded.

### SourceClosure

`ReadInputs` reads what the command line names; `TakeFile` and `FollowReference`
are the worklist; `PlaceSources` and `InsertLeaf` build the tree. Paths are
sequences of names, and `canonical` is taken to give one form to each file:
symbolic links are left out, and so are directories that cannot be listed. A
file's schema is its grammar's verdict and its set of references. The parse of
the documents, which comes between the closure and the tree and can reject, is
left out; so is the check for duplicate relative paths at the end of
`expand_json_schema_sources`, which distinct canonical paths cannot reach. The
code inserts leaves in the order of their paths; the model in any order.

Run `source_closure`: seven files in four directories (a module and a directory
of the same name, two extensions of one name, a reserved name, a file that is no
schema), any four of eleven references with cycles and escapes, at most one bad
file, eight command lines.

### AllOfFolding

`walk` is the stack of the recursion of `normalize_schema` and
`normalize_children`, `fold` the expansion under way, `trail` and `cycle` the
two uses of the cycle stack. A node is an authored schema; a position is the set
of nodes that hold at one place, each with the file it was written in, which the
loader does not keep. Branches and children are taken in any order. `flat` is
what the loader keeps: for every place the conjuncts merged there. Left out:
which keywords a conjunct has and how they merge, the rejections of empty,
boolean or single `allOf`, annotations, operations' inline inputs and outputs,
nested `$defs`, `contains` and `propertyNames`. The validators and the hoisting
that come before `validate_model_refs` are left out too: "accepted" here means
accepted as far as folding and references go.

The reference definition does not walk: `Conjuncts` is what the text folds into
a position, `Places` the positions of a model, both by waves up to `Horizon`,
and a model is `Unflattenable` if a wave is left at the horizon. `Nesting` says how
deep explicit branches are nested in one text. A chain of folds that repeats no
model has at most `(MaxNesting + 1) * Cardinality(Models)` steps, so with a horizon
of that length less one a wave that is left has repeated a model and never ends:
`BoundsAssumption` asks for that much, and for no recursion deeper than the horizon.

Run `all_of_folding`: four models in two files, 3456 inputs in two document
orders, recursion to depth five, horizon seven. The catalogue has every pair of
spellings (`$ref` with siblings, explicit `allOf`, bare reference) at the root
and below a property, mutual and self recursion, the same child in two
conjuncts, unions, undeclared targets, and the same name in both files. The
deepest finite input of the catalogue needs fewer frames than the bound, or
`FiniteInputsAreDecided` would fail.

Where the code departs from its specification (below), the properties of this
run say so in their premises: `FlattenedExactly`, `RejectedForCause` and
`FiniteInputsAreDecided` are about inputs whose references were read from the
files they are written in (`ReadAtHome`), and `RejectedForCause` lets a cycle be
rejected for a fold that comes again below a `$ref` with siblings
(`FoldsAgain`). `ImplicitFoldsAreBounded` needs no premise, and is what is left of
the promise that recursion has a bound: the spelling with siblings keeps it,
`allOf` does not (finding 3).

### KeywordMerge and AllOfMerge

`AllOfFolding` says which conjuncts meet at a place; `AllOfMerge` says what
becomes of them. `branches` is the list that `expand_branches` returned, `acc`
the accumulator of `merge_branch_list`, `MergeBranch` one turn of its loop and
`FinishFold` the call of `finalize_merged` at its end. `NormalizeChildren`
flattens the children whose merge was put off (`allOf` of a reference and
something else), and `Validate` is `validate_schema_node` as far as merging can
bring keywords together that no author wrote side by side. A schema is a
function from its keywords to their values, as in the code; `KeywordMerge` has
the keywords with plain values, `AllOfMerge` those with schemas inside.

The code recurses from a schema to its parts. So do the definitions, but through
constants: `MergeBelow`, `ConjunctsBelow`, `AcceptsBelow` and `CauseBelow` are
`MergePair`, `Conjuncts`, `Accepts` and `HasCause` one level down.
`MCAllOfMerge` ties the knots, and `RecursionAssumption` says that they are tied
on the schemas of the instance, which TLC evaluates on every run. `Schemas` is
what the children of a node may be, `Children[n]` what `n` branches can leave at
one place, and `Nesting` how deep references and `allOf` go in a schema: a chain
of them ends, because the walk of `AllOfFolding` has rejected those that do not.

The reference definition is what JSON Schema says: `Accepts` evaluates a schema
on a value, and a list of conjuncts accepts what all of its members accept. The
one departure is the one that allOf.md makes (252-265), for
`additionalProperties: false`: a closed object is closed to what the branches
declare together. A schema as `additionalProperties` speaks of every member that
its own branch does not declare, whatever the other branches declare.

Run `all_of_merge`: every pair of branches about numbers, strings, arrays or
objects, and every list of three out of most of them. Pairs show each keyword against itself and against those of
its family, triples show that the order of merging does not matter. The limits
are small (6 for the largest safe integer, 10 for the largest `i64`) so that
products of the divisors 2, 3 and 4 lie on both sides of them. The values are the
numbers from -13 to 13 in halves, strings of up to two characters with every
consistent set of formats, arrays of up to three elements and objects over two
members: enough to tell any two of the schemas apart that the catalogue can
produce.

Left out: children of children (elements and members are numbers),
`propertyNames`, the intersection of the element conjuncts of a
nullable child, and the comparison of integers beyond 2^53 as binary64.

`MergedIsConjunction` names three exceptions. The first two are disagreements of the
code with allOf.md, listed below under "Excepted by name".

- Members that escape (`Escapes`). The merge has one set of `properties`, and a
  branch's schema for other members is kept beside it (json_schema.rs 7319), so it
  is no longer asked about members that only another branch declares. Of such
  members, and of nothing else, the merge may say less than the branch
  (`AcceptsButForEscape`); that it never says more needs no exception.
- Omitted counts (`OmitsMinContains`). A branch that omits `minContains` contributes
  1, and a sibling's 0 does not win (allOf.md 230-232); the code takes the keyword
  that is there (`merge_two`, 7211), so the 0 wins.
- Counts by themselves (`HasCountAlone`). A branch with `minContains` or
  `maxContains` but no `contains` says nothing of an array by itself, while in the
  merged node it limits how often a sibling's `contains` may match; the validators
  ask only the merged node whether a count has its `contains`.

`AcceptedNodesHaveValues` is not about arrays with `contains`, whose elements the
validators do not compare with it.

### Hoisting

One document. A schema is a function from its positions, which are sequences of
steps (`properties` of a name, `items`, `additionalProperties`, `oneOf` of a
branch), to the keywords it has there that are not schemas; so a document is flat,
and what encloses a position is a prefix of it. `models` is the document as it
grows; a pass walks every model (`WalkModel`, in any order), takes out the
outermost inline shapes (`Places`) and leaves references, and then inserts what it
took out (`InsertShape`, `RejectClash`); the next pass walks the definitions made
by this one, until a pass finds nothing (`EndPass`). `CollectModels`,
`ValidateModels` and `BuildNames` are what comes after, each of which may reject. A
name is the sequence of its words, because the clashes that matter come from names
that run into one another: member `a_item` of `M` and the elements of member `a`
are both `MAItem`. A definition that is not spelled in UpperCamelCase lends its
type's name (`Camel`, `Recased`) to what is in it.

The reference definitions do not know of passes: they read the text once, at every
depth. `Shapes` are the positions that need a name, `NameOf` the name that
properties.md, items.md and oneOf.md give to a position, and `Part` what the text
has from one shape to the ones in it. An accepted document has a definition for
each of the shapes and no others, each with the part of the text that is there.
`HasCause` says what of the text may be held against it: a shape without a name,
two things with one name, or a reference that leads nowhere.

The assumptions say what has been made sure of before. `DocumentsAssumption`: a
schema is well formed as `validate_schema_node` and `validate_one_of` leave it
(`WellFormed`: a node has keywords and children of one kind, and unions are not
nested directly). `NamesAssumption`: only a key of the text or an `x-name` is
spelled in another way than its type; words in UpperCamelCase stay as they are when
they are joined.

Run `hoisting`: 4113 documents. Schemas up to three constructors deep, which is
two passes after the first, in a document of their own and beside definitions,
nested definitions, root schemas, operations and sibling members whose names
coincide with theirs.

One exception is named in the passing run: an array inside a nullability wrapper, `oneOf: [array,
null]`, below a member or an element is not walked (json_schema.rs 5505), so the
shapes of its elements stay inline, though items.md (114-121) names every array
position: `HidesElements`. And `HasCause` follows
the code where references are validated after hoisting (1247), so that a reference
of the text to a definition that nobody wrote is accepted when a shape gets that
name, which ref.md (98) rejects. Both are listed below under "Excepted by name".

Left out: whether an override is a legal identifier, the names of members and
constants, discriminators, and the scopes of several modules.

### PrepareRelease and ReleaseLedger

Each clone has a release branch for each version, a working tree and the
script's next step; the remote has `main`, pushed branches and pull requests. A
tree is what the script reads and writes: the fragments, the changelog's
sections, the versions in `Cargo.toml` and `Cargo.lock`, and whether anything
else changed. A branch is its tree and the set of its commits, which is enough
for ancestors, conflicts and three-way merges. The actions from
`CreateReleaseBranch` to `CreatePull` are the script, one for each step that can
be seen from outside; the deletion of the fragments is one step for each.

The script may die before any step (`Die`). Its operator then throws the changes
away (`Discard`) or commits them (`CommitByHand`), because the script insists on a
clean tree, and runs it again for the same version. Meanwhile fragments reach
`main` (`Develop`), release pull requests are merged, closed and reopened, and
operators merge `main` into their branches between runs. A refused push and a pull request that
is not open end the run with its error. Git, GitHub and the operators are
external and are modelled from the way the script uses them.

`ReleaseLedger` says what this is for: an entry is pending until one release
takes it. `ImplementsReleaseLedger` is the refinement, with the fragments and
sections of `main`.

Run `prepare_release`: two operators who prepare the same version, one of whom
also prepares the next; one early and one late fragment; three calls, one death
(anywhere) and one commit by hand. Two clones and three calls give a push over
another clone's, a call for a version that is already merged, and two releases
under way at once that want the same fragments; one death meets each step of
each of them. A rerun starts from a clean tree, so what a second death would meet
anew is a branch that exists already, which a second call gives too.

What is excluded: an operator who commits a changelog whose fragments are only
half deleted gets those entries listed twice, which no script could notice
(`halfCommitted`). A branch that is only at the remote is not resumed, in spite
of CONTRIBUTING.md (76): the clone makes a new one and the push is refused; the
run ends with the error and nothing is lost.

Fairness: `WF` of the script's steps, and of the operator who cleans up after a
run that died and starts it again. Pull requests, new fragments and further calls
are not assumed.

### Fairness of the loader

The other fairness condition of the project is `WF(Next)` of the loader modules
with liveness properties: a sequential program that has a next step takes it.

## What the runs show

| Run | Result |
| --- | --- |
| `ref_satisfiability` | rejections are right, acceptances are right without annotated references, the reported path is a lasso, the check ends |
| `poll_iterator` | nothing skipped; the two requests agree; resuming is after the last item or at the start of one page; no repeats inside an iteration; saves move forward; all records arrive; implements `ItemDelivery` |
| `source_closure` | loaded exactly the closure; rejected for a cause every order meets; module names do not depend on the checkout; cycles end |
| `all_of_folding` | accepted models are the conjunction of their text at every place; rejected for a cause; implicit folds below one another are fewer than the models; finite inputs are decided |
| `all_of_merge` | what is merged accepts what all branches accept and no more, after each step and with the exceptions named above; verdict and schema do not depend on the order; unmergeable for a cause; what is accepted has a value |
| `hoisting` | accepted documents have one definition for each inline shape, named by its position, with the schema of the text; rejected for a cause; the passes end |
| `prepare_release` | no entry lost; open pull requests are complete; one for each version; entries listed once; `main` implements `ReleaseLedger`; a release that is started gets its pull request |
| `ref_satisfiability_annotated` | violation, finding 1 |
| `ref_satisfiability_hops` | violation, finding 2 |
| `all_of_unbounded` | violation, finding 3 |
| `all_of_meaning` | violation, finding 4 |
| `all_of_finite` | violation, finding 5 |

The deadlock check is disabled because the program really stops: with a verdict,
with an iterator that has ended, or when no call of the script is left.

### Findings

1. A `$ref` kept with `deprecated`, `$comment`, `examples` or a name keyword, as a
   required member or as a branch of a union in one, is not seen by
   `schema_requirement` (`is_bare_ref`, json_schema.rs 4338), so a recursion no
   value satisfies is accepted. ref.md 295 has it rejected.
2. `blocking_target` (4417) follows the first blocked branch even of a union that
   has another way out, so the reported cycle may be one whose break does not
   help; the comment at 4482 says every hop is mandatory.
3. Explicit `allOf` branches are not on the cycle stack of the merged children
   (6581-6598): recursion through them below a property has no end when the walk
   enters it from another model. allOf.md 150: "Exhausting the stack, or
   recursing without bound, is never an acceptable outcome".
4. Children of a model folded from another file resolve their references in the
   file they are folded into. ref.md 66 and 137 have them resolve where they are
   written.
5. A `$ref` with siblings whose sibling's child folds the same model is rejected
   as a cycle, although the flattening is finite; the explicit spelling is
   accepted. allOf.md 149 rejects only back-edges, and 108 has the two spellings
   behave the same.

### Excepted by name

Four more disagreements were met, while modelling or in a proof. No run is about
them; a property of a passing run names the case and leaves it out, and covers
everything else.

- The merge of `{additionalProperties: {minimum: 2}}` and `{properties: {a:
  {maximum: 2}}}` accepts `{a: 1}`, which the first branch refuses:
  `merge_additional_properties` (7319) leaves a schema for other members beside
  the union of the properties. allOf.md 6: an instance is valid "iff it validates
  against **every** subschema"; 233-234 forbids a merge weaker than the
  conjunction, and 252-265 makes an exception for `false` only. (`Escapes`)
- A `minContains: 0` wins over the 1 that a branch with `contains` and without
  `minContains` stands for (7211), so arrays in which nothing matches are
  accepted. allOf.md 230-232: the 0 "does **not** win by default".
  (`OmitsMinContains`)
- Inline objects among the elements of an array in a nullability wrapper are not
  named (5505), below a member or an element. items.md 120: "This holds for
  **every** array position". (`HidesElements`)
- `$ref: #/$defs/MA` is accepted where nobody declares `MA`, if the inline object
  of member `a` of `M` gets that name: references are validated after hoisting
  (1247). ref.md 98 rejects every unresolvable target. (the last cause of
  `HasCause`)

## What is proved

TLAPS checks every theorem with no assumption but those the modules name.

* `RefSatisfiability`: for every number of models and every set of bodies
  (`NAssumption`, `BodyAssumption`), types, soundness of rejection,
  completeness of acceptance, and the lasso. `RejectionIsSound` is not inductive:
  it speaks of the end. `IInv` adds that `instantiable` is inside every set that
  is closed under the loader's requirements (`InsideEveryClosedSet`, by
  monotonicity of `RequirementHolds`), that in a sweep without a change every
  model already visited is in `instantiable` or its requirement does not hold
  (`SweepFoundNothing`), and that after the sweeps `instantiable` is closed
  itself and the witness path lies outside it (`FixedPoint`). A set closed under
  the loader's requirements is closed under writing values, so what lies outside
  `instantiable` has no finite value; without annotated references the two
  closures are the same, which gives completeness. `PathIsLasso` follows from
  `Walk` (the path so far repeats no model) and, for its length, from an
  injection of the path into the models.
* `PollIterator`: for every log length, page size and number of failures and
  crashes, all safety and action properties of the run and the implementation of
  `ItemDelivery`. `IInv` says of each place the iteration may go on from (both
  requests, the saved one, the page in hand) that the records before it have been
  handed out, and that the two requests agree between reads. `Ordered` says of
  one iteration that what it has yielded lies before what it still has in hand,
  and that before the request after it; the four properties about repeats and
  resuming follow.
* `ItemDelivery`: every record before the resume position has been handed out.
* `SourceClosure`: for every finite set of files, graph, disk and command line,
  all its safety properties. `IInv` says that `sources` lies between the named
  files and the closure, and that every source is queued, or under way with its
  followed references among the sources, or done without a defect. `Reproducible`
  needs two assumptions about paths (`PathAssumption`, and `DirectoryAssumption`:
  what is above a path of the command line is a directory and has no text). Every
  source is below the invocation root (`Rooted`), and the common ancestor of
  paths is the longest prefix they agree on (`AncestorIsDeepest`; that there is a
  longest one is shown by counting, `Greatest`), so cutting the same directory
  off all of them cuts it off the ancestor.
* `AllOfFolding`: for any files, models, nodes, nesting and depth, types and all
  safety properties of the run (`NestingAssumption`, `BoundsAssumption`, and
  `OrdersAssumption`: every order of the documents has every model). For
  `ImplicitFoldsAreBounded`, `CycleStack` says that a frame's cycle stack has all
  that the frames above it have, and the stack of an implicit fold's frame a model
  that none of them has: the target of its first conjunct must have been off the
  stack when it was expanded, and the expansion does not end before that.
  For the meaning the invariant is `Faithful`. A frame is at a place of its model
  and has the conjuncts that the text has there; an expansion has expanded a set
  that, with what it still has to expand, is closed under folding and lies within
  what the text folds; and each child of a place that is kept is kept too, or is in
  a frame, or to come. An expansion that ends has therefore exactly the closure,
  and a model that ends exactly its places. The waves of the reference definitions
  reach that closure because an expansion follows chains that repeat no model
  (`trail`), which are shorter than the horizon; sums over such chains are
  inductions over a set of numbers, a form that the provers take. For the
  causes, a cycle that is found gives a chain of folds that comes back to where it
  was, and by following it again one of every length, so that a wave is left at the
  horizon whichever the horizon is.
* `KeywordMerge` and `AllOfMerge`: for any branches, any number of them, any
  children and any values, types and `MergedIsConjunction`
  (`BranchesAssumption`, `ChildrenAssumption`, `SchemasAssumption`,
  `ValuesAssumption`, `RecursionAssumption`, `LimitsAssumption`). The argument
  goes from the inside out. One keyword: merged bounds, dependencies and flags
  are the conjunction of the two (`BoundsMeet`, `DependenciesMeet`), a merged
  `multipleOf` has exactly the common multiples (`DivisorsMeet`: Euclid's loop
  computes a common divisor that is a combination of both, so the quotient is
  the least common multiple), and so each keyword without schemas
  (`PlainKeywordsMeet`). The counts of `contains` are the exception: a merge that
  brings one to a `contains` changes what the `contains` says, so they are
  compared together with it and apart from the rest. Two schemas: what
  `merge_schema_pair` returns is the conjunction, its children included
  (`PairIsConjunction`), where a child is merged, or kept as an `allOf`, or closed
  against what the other side declares; the bound of a pair that is dropped is
  never missed (`CollapseKeepsMeaning`). The children: flattening one leaves its
  meaning (`FlattenKeepsMeaning`), by induction on `Nesting`, with
  `merge_branch_list` on the conjuncts it has been expanded to. The fold: `IInv`
  says that `acc` says of every value, keyword by keyword, what the branches merged
  so far say, that it is typed, and that no pair of bounds is left.
  `MergedIsConjunction` alone is not inductive, for two schemas that accept the same
  values can merge differently with a third: a closed object is closed to what its
  neighbours declare.

  The invariant and the lemmas below it read `additionalProperties` as the merge
  does (`Says`: a schema for other members is not asked about `declared` ones),
  because that is what the fold keeps from step to step. This reading is weaker
  than `Accepts`, and is no result by itself. Three lemmas tie it to `Accepts`: what
  accepts a value says so keyword by keyword (`AcceptedIsSaid`), the converse holds
  where no member escapes (`SaidIsAccepted`), and of a schema by itself, which is
  what is emitted, none can (`AloneIs`). So the theorems speak of `Accepts` only, and
  the exception that remains is `Escapes`.

  Of what the run checks as `OrderDoesNotMatter` and `UnmergeableForCause`, the
  merging of keywords with plain values is proved, for conjuncts without
  annotations (a title is the last one's) and without schemas as values. One
  keyword: merging commutes and is associative, and what fails in one grouping
  fails in each (`PlainKeywordsInAnyOrder`); a divisor is identified by its
  multiples, so the limits on the least common multiple are met in no order or in
  all, and formats are ordered with chains of containers, as the table of
  format.rs 79 is (`ContainedAssumption`, which TLC evaluates). Two schemas:
  `merge_schema_pair` finalizes after each pair, but a bound or an enum that is
  dropped early may as well go at the end (`DominatedEarly`, `FinalizeEarly`), so
  it commutes and is associative too (`PlainSchemasInAnyOrder`). Any number of
  them: neighbours in the list of `merge_branch_list` may change places
  (`NeighboursMaySwap`), and any order comes of such swaps. And two schemas are
  rejected for a cause they have (`PlainSchemasRejectedForCause`). `RejectedIsApart`
  says that the mark of a failed merge is not itself a schema or a value.
* `Hoisting`: for any documents, any depth and any order of models and insertions,
  all safety properties of the run (`DocumentsAssumption`, `NamesAssumption`). The
  lemmas go from positions to models. A walk takes out shapes that no other shape
  of the model encloses (`PlacesAreOutermost`), all of them if nothing is hidden
  (`WalkTakesOutermost`), and leaves nothing to take out (`WalkedOnce`). What is
  taken out is a part of the text, and a part of a part is one (`IsPart`,
  `TakenOutOfPart`), on which every question that the walk asks has the answer of
  the text (`SameNeed`, `SameWords`); so the name it gives there is that of the
  position (`PlaceName`), and what it leaves is the `Part` of the reference
  definition (`WalkedIsPart`). No property of the run is inductive. `IInv` says
  that every model comes from one place of the text, its origin, and is the text
  there, walked or not (`Tracks`); that a shape that was taken out of a walked
  model either waits or is the origin of one model (`Queued`), never both, because
  a position determines the model it is found in (`FoundOnce`); and what the judges
  so far have seen (`Judged`). It is stated with the origins and the walked models
  quantified, for they are no variables of the code. At the end nothing waits, and
  every shape is the origin of a model by induction on its depth
  (`EveryShapeFound`). A rejection is traced back through the origins to the text,
  judge by judge (`ClashHasCause`, `LooseReferenceHasCause`,
  `SharedIdentifierHasCause` and others).
* `PrepareRelease`: for any number of clones, versions and fragments, and any
  number of calls, deaths and commits by hand, all safety properties of the run
  and the implementation of `ReleaseLedger` (`NamesAssumption`,
  `BoundsAssumption`, `AbsentAssumption`). The invariant is a chain. Where the
  script is determines what its tree can be (`Control`), and a tree differs from
  its branch only by one section that lists every fragment, and the fragments
  deleted so far (`Working`); what a branch's commits removed is what it lists
  (`Recorded`), which gives `NothingLost`. A branch has the releases of `main`
  that it knows as they are there (`Anchored`), so a merge, which takes the
  changelog from one side, loses none; and no entry is in two of its sections
  (`Exact`), unless half of a changelog was committed by hand. A merge of a
  release is then one step of the ledger. That a version has one pull request
  needs, besides, that its branch at the remote has commits of one clone and of
  `main` only (`Alone`): a clone that asks for a pull request has pushed
  (`Asking`), so no other one gets that far (`Single`).
* `ReleaseLedger`: no entry is pending and released, or released twice.

Only model-checked: all liveness properties and the findings; of `AllOfMerge` that
the order does not matter (beyond what is said above: children with schemas, and
the verdicts of the validators), that an unmergeable node has a cause (for more
than a pair, and in its children), and that an accepted one has a value
(`AcceptedNodesHaveValues` needs witnesses, and holds of these `Values`, which the
instance has enough of).

## Plan

What is left, in the order of what it would show:

1. `Reachability`: `prune` against the closure of uses from its two sides, types
   and declarations; a theorem that nothing in use is pruned.
2. `NameManifest` for members and constants, and for several modules, beside the
   types that `Hoisting` has; discriminators and the unions' validators.
3. `Driver`: writes interrupted midway, the stack of configurations.
4. `OrderDoesNotMatter` and `UnmergeableForCause` as theorems for children with
   schemas too: a child whose merge is put off is an `allOf` in the order of the
   branches, so there it is the flattened children that are the same.

Not planned: the text of the backends and codecs, patterns and formats
(character-level parsers), the WIT library's tree, `add_rpc`, `xtask`.
