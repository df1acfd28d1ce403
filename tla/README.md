# evalresp: specifications, model checking and proofs

`evalresp` computes the frequency response of seismic instruments from RESP
files (SEED response descriptions as text) and from StationXML, which it
converts to RESP text first. This directory holds TLA+ models of its control
logic and of its pure functions, the TLC configurations that check them on
small instances, and proofs, checked by TLAPS, of the properties of seven of them:
the assembly of a channel's stages, the selection of channels, the check of a
channel, the evaluation, the directory driver, the tree of the XML library, and
the files of a conversion. Every definition is a translation of the C sources
under `src/`; `PROJECT.json` maps each to the lines it stands for.

## 1. The system

`evalresp_cwd_to_cwd`, the entry point of the command line program, works in
the order of this table; all of it is sequential code, and each part calls the
next.

| part | source | state it keeps | operations |
|---|---|---|---|
| requests and options | `src/evalresp.c`, `input.c` 2830-3164, `evaluation.c` 1-195, `legacy_interface.c` | SNCL patterns, date, options | `parse_args`, `evalresp_add_sncl_*`, `evalresp_set_*` |
| directory driver, file search | `highlevel.c`, `file_ops.c` | lists of matched files per request, the responses so far, output files | find files, read each, evaluate, write |
| StationXML conversion | `stationxml2resp/`, `input.c` 2741-2828, `src/xml2resp.c` | a document tree, a temporary file | recognise, load, take what is in it, print |
| XML library | `mxml/` | a tree linked both ways, a buffer, reference counts | load, write, walk, add, remove, delete |
| line and field readers | `input.c` 25-692 | a pointer into the text, a look-ahead line | `read_line`, `find_line`, `find_field`, `parse_units`, `read_channel_header` |
| patterns | `regexp.c`, `input.c` 340-500 | a compiled program | compile, execute; globs, numbers, units |
| stage assembly | `input.c` 694-2285 | a linked list of stages, each a linked list of blockettes; a scratch stage | `read_channel_data` and the readers of the blockettes |
| channel selection | `input.c` 2359-2739 | an array of channels, of which some slots are emptied; the output array | `collect_channels`, `filter_channels` |
| channel check | `resp_fctns.c` 17-639 | role pointers, relinked lists, delays | `check_channel`, `merge_coeffs`, `merge_lists`, `check_symmetry` |
| evaluation, response lists | `evaluation.c`, `resp_fctns.c` 641-846 | the frequencies and results of a response; the backup of a response list | `evalresp_channel_to_response`, `save_b55`, `interpolate_b55`, `restore_b55` |
| numerics | `calc_fctns.c`, `spline.c` | complex numbers | `normalize_response`, `calculate_response`, splines |
| output | `output.c` | none | formats a response, writes it, describes a channel in the log |
| allocation | `alloc_fctns.c` | the heap | `alloc_*`, `free_*` |
| legacy interface | `legacy_interface.c` | one flag | adapts `evresp`, `evresp_itp`, `evresp_1`, `print_resp` |

The parts interact by calls and by the heap. The text of a file becomes
channels (readers, assembly); selection decides which of them a request gets,
and runs the check on those alone; the check rewrites the channel's lists in
place; the evaluation reads them, and for a response list replaces a part of
the channel for the length of the call. Objects change owner at each of these
borders, and there most of what could go wrong lies. Between the converter and
the reader the border is a text: one writes lines, the other asks for them, and
neither says to the other which.

**What is hard here.** There is no concurrency, no message and no persistent
state but the output files; nothing is retried and nothing waits. What is hard
is *order* and *ownership*: objects deleted from an array while two loops run
over it; pointers that outlive the stage they were set in; strings that two
structures point to; blockettes that come in any order; a backup that must be
put back whichever step fails; files that overwrite each other; a text that ends
in the middle of a blockette; a tree freed by a loop that walks it; a program of
a pattern that is moved about while it is written. The complete list, with
lines, is under `hazards` in `PROJECT.json`.

**What makes each part correct.**

* *requests*: what a text asks for is found, and only that; an option has the
  value that was given last, wherever it stands.
* *driver*: nothing is written before everything has succeeded; of several files
  the documented one wins.
* *conversion*: a defect that matters refuses a document, and nothing else does;
  what is written is read, with all stages; files are closed once.
* *XML*: links agree in both directions; nothing freed is touched; a well-formed
  document is loaded as written; what is written is loaded the same.
* *readers*: every blockette is read from its own lines; a harm to one line does
  not reach what is before it, and shows; reading ends.
* *patterns*: a pattern matches what it means.
* *assembly*: the pointers spell the stages of the file; a stage has the units
  of a filter of its own; strings have one owner.
* *selection*: for each SNCL exactly the best epoch that matches is returned;
  everything else is freed once; a failure returns nothing.
* *check*: relinking stays within a stage; an accepted channel is complete, in
  order, continuous in its units; delays are counted once.
* *evaluation*: the channel is the same after a call as before; the index of a
  frequency means the same in list and output; results fit their vector.
* *numerics*: one filter has one response, however it is written down; gains are
  normalised so that the sensitivity is the magnitude of the response.
* *output, legacy*: what is written is what was calculated, for what was asked.

## 2. The modules

| module | models |
|---|---|
| `Epochs`, `Selection`, `ChannelSelect` | `collect_channels`, `filter_channels`, `evalresp_char_to_channels` |
| `StageAssembly` | `read_channel_data`, `read_ref` |
| `CheckChannel` | `check_channel` |
| `CwdDriver` | `evalresp_cwd_to_cwd`, `find_files` |
| `Evaluation` | `evalresp_channel_to_response` on one channel, repeatedly |
| `RespText`, `RespReader` | lines, fields and the readers of `input.c` |
| `Requests` | command line, filter, options, arguments of `evresp` |
| `XmlToDom`, `DomToSeed`, `StationXml` | conversion of StationXML and its reading |
| `Forest`, `MxmlTree`, `MxmlForest` | the tree of `mxml-node.c`, walks and writing |
| `MxmlLoad` | `mxml_load_data` |
| `Question` | what the modules of pure functions have in common |
| `RegExp`, `StringMatch` | `regexp.c`, what an expression means, globs, numbers, units |
| `XmlChars`, `XmlElement` | encodings; start tags, entities and indices |
| `Field`, `Filters`, `Spline` | `calc_fctns.c` and the cubic spline, in exact arithmetic |
| `Output` | `output.c`, phases, clipping, the log's description |
| `Allocation` | `alloc_fctns.c`; `wrappers.c` and `xml2resp` |
| `Legacy` | `legacy_interface.c` |
| `ChannelSelect_proofs`, `CheckChannel_proofs`, `CwdDriver_proofs`, `Evaluation_proofs`, `MxmlForest_proofs`, `StageAssembly_proofs`, `StationXml_proofs` | theorems; the last has those about `RespReader` too |
| `SequenceLemmas` | what the proofs need to know of sequences |

The modules compose in three ways. *By extension*: `StationXml` is the driver of
`RespReader` (with its state) over the conversion of `XmlToDom` and the writer
`DomToSeed`, so that a document is converted and read in one behaviour;
`MxmlLoad` makes its nodes with the operations of `MxmlTree`; `Requests`
matches with the compiled programs of `RegExp`. *By refinement*: `ChannelSelect`
implements `Selection`, `MxmlForest` shows that `MxmlTree` implements `Forest`.
*By assumption*: what one module says of its output is what the next starts
from (`UnitsFromOwnFilter` of `StageAssembly` is `ChannelAssumption` of
`CheckChannel`; a channel `CheckChannel` accepts is what `Case` of `Evaluation`
describes; `BestSelected` is what `Selected` of `CwdDriver` builds on).

### Epochs, Selection, ChannelSelect (`input.c`)

`Epochs` translates `earlier`, `duration` (with its cast to int, of a width that
is the constant `IntMax`), `in_epoch` and `channel_matches`, and defines
separately which epoch of a file is best: the shortest that contains the date,
or the latest without one, and the last in the file on a tie. That is the rule
of the code and its comments; the manual page has a different one (section 5).
`Selection` is the abstract specification: the best epochs are published one after the other, then the
call succeeds; or it fails and nothing is published.

`ChannelSelect` is the code: a channel is its position in the file,
`channels_in` the slots of `all_channels` that are not NULL, `channels_out` the
output, `frees` how often `evalresp_free_channel` was called on each. One action
per iteration of `collect_channels`, per branch of the two nested loops of
`filter_channels`, and one for the return. `check_channel` and the readers may
fail for any channel.

### RespText, RespReader (`input.c`)

A line is a blockette number, a field number, whether what follows can be parsed
as the field asks, and a number where it is one that matters (a count, a stage, the
columns of a row). A reader is the sequence of fields it asks for; `FindLine`
passes over what is not wanted, comments and other blockettes alike, as
`find_line` does. A text is what the converter writes or what other writers of
RESP files do, with at most one line lost, garbled, emptied, cut to a prefix or
miscounted: all of this is how a file can look that a reader gets, and the
reader's answer is then the hazard. `HarmContained` says that what precedes the
harm is as in an unharmed text (`EarlierUnharmed`) and that an error, an
incomplete blockette, one that holds lines of two, or a missing channel shows it
(`HarmNoticed`). `LinesInOrder` is about any text: a reader that misses a field
strays into other blockettes, but no line is ever read twice, the lines of all
channels are read in the order of the text, and a blockette takes only lines that bear
its number, or, where it may be nested in a [60], the number of a nested one.

### StageAssembly (`input.c`)

The heap of stages is a sequence, in order of allocation; `next_blkt`,
`first_stage`, `this_stage`, `last_stage`, `last_blkt`, `nstages`, `read_blkt`,
`no_units`, `last_seq_no` are the variables of `read_channel_data`. `tmp_units` is
what the string pointers of the scratch stage `tmp_stage` hold. A reader that
misses a field reads on to the end of the text (`find_line`), and the blockette
it was reading is linked all the same: `CutAt`, `CutRef`. `ListIsFaithful`
compares the pointers with a grouping computed from the text alone.

### CheckChannel (`resp_fctns.c`)

One action per case of the switch of `check_channel`, one for the end of a stage,
one for each way to fail. The merge of continuations is one step, as nothing
else happens in it. Coefficients are named by the blockette they were read with,
so that "all coefficients, in order" can be said.

### CwdDriver (`highlevel.c`, `file_ops.c`, parts of `output.c`, `evaluation.c`)

The directories and requests are constants of a behaviour. A file is the
channel its name spells, with or without location, and the channels in it.
`FindFiles` is an iteration of the loop of `find_files`, `StartRound` one of
`process_cwd_files`. Everything that depends on a file may fail.

### Evaluation (`evaluation.c`, the use of lists in `calc_fctns.c`)

`evalresp_channel_to_response` is called `MaxCalls` times on one channel. Arrays
are named by who allocated them in which call; `freed` and `freed_twice` follow
`free`. Numbers are left out: a grid is the source of the frequencies an array
holds.

### Requests (`src/evalresp.c`, `input.c`, `evaluation.c`, `legacy_interface.c`)

Names and lists of names are sequences of characters, as splitting at commas and
squeezing of spaces is what the properties are about; other arguments are words,
of which some are numbers. A call comes from the command line or from `evresp`.
`MatchedAsAsked` compares what is found by compiling the globs and running the
programs with what a glob means, for every channel of the instance. Patterns are
not anchored, so that a channel is also found by a name that *contains* what was
asked for; the property says so.

### XmlToDom, DomToSeed, StationXml

A node of a document is a record of name, attributes, text and children.
`XmlToDom` says of each element when its `parse_` function succeeds and what it
leaves; `DomToSeed` writes the lines, in the order in which the code prints them.
`StationXml` opens, recognises, converts through a temporary file and reads;
every opening, writing and reading may fail. The instance has one document with
everything a channel can hold, and every document that differs from it in one
place. The functions that convert from memory or from streams, and the program
`xml2resp`, are in `Allocation`, each as the sequence of what it takes and gives
back.

### Forest, MxmlTree, MxmlForest, MxmlLoad, XmlChars, XmlElement (`mxml/`)

`MxmlTree` has the five links of a node as functions and one action per public
operation; the loop of `mxmlDelete` is taken step by step, since it walks over
what it frees. `Forest` is what the documentation promises: nodes with a
sequence of children and a reference count. `MxmlForest` maps one to the other
by following `next` from `child`, and compares `mxmlWalkNext`, `mxmlWalkPrev` and
the order of `mxml_write_node` with the recursive definition.

`MxmlLoad` reads a text of pieces (tags, comments, text) with the variables of
`mxml_load_data` (`node`, `parent`, `first`, the buffer) and then does what
`x2r_station_service_load` does with the result. Nodes are allocated and freed by
`MxmlTree`, the deletion step by step. What documents are made of is a set `Trees`
of which only this is assumed: children are trees, there is no endless descent,
and two texts are never neighbours. A document has its networks, what stands
before and after its root (`Beside`), and a harm may cut it anywhere, make a
piece unreadable or rename an end tag. `XmlChars` has bytes as numbers and the decoders as they are, with a
buffer that ends anywhere in a character; `XmlElement` writes a start tag and
parses it again, and has the quicksort and the search of `mxml-index.c`.

### RegExp, StringMatch (`regexp.c`, `input.c`)

`RegExp` compiles a pattern in two passes into nodes with relative links, inserts
operators before what was emitted, sets tails, and takes the shortcuts
(`regstart`, `reganch`, `regmust`) of the code; `Match` runs with backtracking.
`StringMatch` has the meaning of an expression by its structure, compares it with
what the program finds, and has what `input.c` uses patterns for.

### Field, Filters, Spline (`calc_fctns.c`, `spline.c`)

The formulas are evaluated in the residues of a prime, where they can be
compared for equality. An identity between formulas that holds of real numbers
holds there; a formula with a wrong sign, index or factor fails for almost every
value. Square roots are avoided by carrying the squares of moduli. A frequency is
a point of the circle given by a rational parameter. What this says nothing
about is rounding, overflow and the size of errors.

### Output, Allocation, Legacy

`Output` has phases in whole degrees and frequencies as integers; a row is the
columns in it. Calculated phases are within half a turn of zero, as those of
`atan2` are; those of a list are any. What is requested rises, since
`validate_freqs` has put its ends in order, and the first frequency of a list is
not the last, for which `spline_cubic_set` would refuse (`OutputAssumption`).
`Allocation` names blocks by what they hold; a function is what
it asks for until one is refused, and what it frees then. `Legacy` has the
frequencies a caller asks for and those `evresp` makes of them, the chain of
responses, and the flag that one call leaves for the next.

## 3. The runs

| run | about | distinct states |
|---|---|---|
| `channel_select` | ownership, leaks, the best epochs, and that the code implements `Selection` | 304 000 |
| `stage_assembly` | lists, counts, units | 263 000 |
| `check_channel` | relinking, completeness, units, delays | 56 000 |
| `cwd_driver` | search, order, overwriting, failures | 158 000 |
| `evaluation` | backup and restoring, frequencies | 72 000 |
| `resp_reader` | every text with one harm; reading ends | 38 000 |
| `station_xml` | every document with one defect; conversion and reading | 42 000 |
| `mxml_forest` | all sequences of operations on four nodes; implements `Forest`; deletion ends | 14 000 |
| `mxml_load` | every document with one harm; what is freed | 183 000 |
| `requests` | what is matched, what options are set | 78 000 |
| `algorithms` | the functions without state | 787 000 |
| `spline_uneven` | a violation | |

Most properties are a conjunction of two named parts, and a violation of either
is a violation of the property: `ListKept` is `ListIsFaithful /\ CountIsLength`,
`WrittenInStep` is `NothingWrittenTooEarly /\ PhaseHasItsAmplitude`, `FilesChosen`
is `FirstNameWins /\ LocalBeforeSeedresp`, `StagesComplete` is `StageInOrder /\
DigitalStagesComplete`, `UnitsOwned` is `UnitsFromOwnFilter /\
UnitsOwnedOnceUnlessFilterLast`, `ResultsInPlace` is `FrequenciesAgreeIfFirst /\
ResultsFit`, `ConvertedIsRead` has `StagesKept` within it, and so on; each part is defined and explained next to the whole.
The type invariants, the inductive invariants and the parts can be given to TLC
as they are.

`spline_uneven` ends in a violation. `spline_cubic_set` says of itself that
"The cubic spline has continous first and second derivatives" (`spline.c` 4720);
in the equations between the ends (4913) the two neighbours' coefficients are
exchanged, so that at knots that are not evenly spaced the slope jumps.
`SplineSmoothIfEven` says what is left: with evenly spaced knots it is smooth,
and always it passes through its points.

### Bounds

* `channel_select`: up to three epochs of two SNCLs, or four of one. A step of
  the tournament involves two entries; with three there is a winner that loses
  later to a third, with four a chain of losers on either side of it. The
  spans are chosen nested, overlapping, equal and open. `IntMax` is 7 and every
  span fits.
* `stage_assembly`: all sequences of at most four blockettes of a nine-letter
  alphabet (filters and plain blockettes of two stage numbers, a plain one of
  stage 0, an unknown line, a [60] with one and with two stages). The function
  looks back at no more than the last blockette and stage, so that four give
  every pair of transitions from every state.
* `check_channel`: stages of up to four blockettes of the types that are
  relinked, up to two of all types; pairs and triples of stages with units that
  do and do not meet. What the function keeps between stages are single
  pointers, so three stages show a value that survives one in between.
* `cwd_driver`: up to two files and two requests over two channels; the second
  request or file is enough for one to overwrite or to be confused with another.
* `evaluation`: two calls, so that what a call leaves behind is met by another;
  lists of one or two entries and up to three frequencies in every relation.
  `MaxCalls` is a cap on an unbounded counter.
* `resp_reader`: texts of one to three channels that have among them every
  blockette, with zero, one and two rows. One harm at a time: with two, what one
  does hides the other.
* `station_xml`: one document with every content a stage can have, and all
  its single defects (more than 900); others for the types and counts that
  change what is written.
* `mxml_forest`: four nodes make a node with two neighbours below another, which
  is what the six pointers of an insertion connect. `MaxRefs` caps the reference
  counts at 2.
* `mxml_load`: documents of at most three levels below the root and two
  neighbours; harms at every piece. Nodes are as many as a document needs.
* `requests`: lists of up to four characters over those that the splitting and
  the globs tell apart; up to three options in every order.
* `algorithms`: expressions of up to three atoms with every operator, on all
  strings of up to four characters; all texts of up to three characters at the
  limits of their encodings, read 1, 2 or 3 bytes at a time; attributes of up
  to two characters; up to seven elements in an index; up to five knots; filters of
  up to three coefficients or roots and channels of two stages; structures of two
  stages with two blockettes of every type; up to four phases; up to four
  frequencies.

`CHECK_DEADLOCK FALSE` stands in every configuration: the functions return.

### Fairness and liveness

The program is one thread that never waits for anything, so that a step that can
be taken is taken: `RespReader` states `WF_vars(Next)`, `MxmlTree`
`WF_vars(DeleteLoop)`, which is fairness for the loop that was entered and not for
calls that a user may or may not make. `Termination` says that reading ends for
every text: skipping unknown lines, passing over fields and reading rows each
must consume text. `DeleteEnds` says that the loop of `mxmlDelete`, which steers by
the pointers it clears, ends. Of the other parts no liveness is claimed: their
loops count towards the end of an array or a list.

## 4. What is proved

`ChannelSelect_proofs` proves for every set of files and filters, and for every
width of int, from `EpochAssumption` and `InputAssumption` alone (what the
constants are):

* `Invariance`: `IndInv` is an invariant;
* `TypeCorrect`, `OwnershipHolds`, `NoLeakHolds`, `OnePerSnclHolds`,
  `BestSelectedHolds`, `BestNeverFreedHolds`: among them every invariant of the
  run `channel_select`; what is best is the code's rule, not the manual page's;
* `Refinement`: if the spans of all files fit an int, `Spec` implements
  `Selection`.

The argument. That a loser may be deleted for good is not plain while the
tournament runs: the entry it lost to may lose as well. `Ranked` says that each
matching entry that was freed is *dominated* by a rival that is still alive and
preferred to it; when that rival loses, the one that beats it dominates both.
This needs preference to be transitive and asymmetric (`PreferredTransitive`,
`PreferredAsymmetric`, from `WorseOrder`) and the comparisons of the code, with
their int lengths and their asymmetric ties, to decide preference
(`GivesWayIsPreference`). `Served` says that no rival of a winner is left behind
it, which makes the output free of duplicates; `Accounted` gives each object's
number of frees from its place; `Control` ties both to the point of execution.
`SpansFit` is needed for ranking alone, so ownership and uniqueness are proved
without it.

`Evaluation_proofs` proves for every channel, request and number of calls, from
`EvaluationAssumption` alone:

* `EvaluationInvariance`: `IndInv` is an invariant;
* `EvaluationTypeCorrect`, `ListSurvivesHolds`, `FreedOnceHolds`,
  `FrequenciesAgreeHolds`, `ResultsFitHolds`, `ResultsInPlaceHolds`: among them
  every property of the run `evaluation`.

The argument. That the list survives a call is a statement about "idle" alone,
and says nothing of the backup a later step will put back. `Apart` adds what
lies between: while there is a backup, *it* is the list as it was read, in
arrays of this call that nobody else names; the channel's own list is either
still the one from before the call, whose arrays are older, or the interpolated
one, whose arrays were allocated by somebody else. Freeing the channel's list and
taking the backup over is then safe at every point from which `Return` can be
reached, and nothing is freed twice. `Control` says which frequencies the
response has at each point, from which `FrequenciesAgreeIfFirst` follows. When
an allocation of the backup itself fails, the backup shares arrays with the
channel, `Apart` is lost, and the call leaves arrays behind that were freed
(`ReadFreedList`); the theorems claim nothing from then on.

`CheckChannel_proofs` proves for every set of channels, with any number of stages
and blockettes of any types in any order, from `ChannelAssumption` alone (what a
parsed channel is):

* `CheckInvariance`: `CheckInv` is an invariant;
* `StagesStayApartHolds`, `StagesCompleteHolds`, `UnitsContinuousHolds`,
  `DelaysCountedOnceHolds`: every property of the run `check_channel`.

The argument. The pointers a stage is relinked from (`filt_blkt`, `deci_blkt`,
`ref_blkt`, `gain_blkt`) outlive the stage, and the properties speak of stages
left behind. `Roles` says what they are worth at each blockette: a flag is set
exactly when a blockette of its kind is among those of *this* stage that were
read, and then its pointer is such a blockette that was not merged away. What
was read is told by `InPlace` and `Untouched`: everything from `Position` on is
linked as it was parsed, and no blockette before it leads past it. So the order
that `LinkStage` makes of four pointers has no blockette twice and none of
another stage (`OrderIs`), relinking ties the stage in it (`RelinkIs`), and
`Apart` says of every stage that its list is the parsed one without what was
merged away or such an order. `FirsMerged` says that the FIR blockettes of a
stage are one run, whose coefficients the first of them holds and `nc` counts;
without it neither the completeness of digital stages (`AcceptedComplete`) nor
the delays (`DelaysSoFar`) could be carried over a stage's end. `UnitsSoFar`
says that `prev_stage` is the last stage with a filter and a number: a chain of
comparisons with neighbours is then one with all before. Ten parts hang
together; each was given to TLC as an invariant of the run before it was proved.

`StageAssembly_proofs` proves for every set of channels (any number of blockettes and
references, in any order, with chains of any length), from `TextAssumption`:

* `AssemblyInvariance`: `Inv` is an invariant;
* `AssemblyTypes`; `ListKeptHolds`, `UnitsOwnedHolds`: every property of the run
  `stage_assembly`.

The argument. `ListKept` follows pointers, and a step that sets one changes paths from
everywhere. `Inv` therefore has the lists themselves: there are a sequence `L`
of stages and a sequence `B` of their blockettes (`ListHolds`) that the pointers
follow place by place (`Linked`), that have nothing twice, hold nothing from the
position that is read next onward (so that what is linked is always new) and end
where `this_stage` and `last_blkt` are. While nothing was cut off they spell the
text (`Spells`): runs of equal stage numbers, as `Groups` has them. A blockette
and the chain of a reference are the same step, seen so: a list `N`, `C` is
*joined* to `L`, `B`, either behind it or with the first of its stages in the
last of the list, and lemmas about joining (`AssembledJoin`) are proved once for
both. What `no_units` knows of the last stage is `LastTold`: in a stage with
blockettes from outside references alone, it says that no filter was among
them; a stage that is shared with a reference is where the flag is wrong, and
`UnitsFromOwnFilter` excepts it. That no stage has the unit strings of two, nor
two stages the same (`ApartOf`), makes `FreeChannel` free each at most once, and
`Freed` says that nothing was freed before, unless the scratch stage still
points to some. `PathIs` and `GroupsNext` say what the recursive functions of the
model compute.

`CwdDriver_proofs` proves for every set of worlds (files on disk, requests,
formats, modes), from `WorldAssumption`:

* `CwdInvariance`: `CwdInv` is an invariant;
* `WrittenInStepHolds`, `FilesChosenHolds`: every property of the run
  `cwd_driver`.

The argument. What `NothingWrittenTooEarly` says of the end, that the responses
are those of everything found, needs `ReadSoFar` before: there is a list of
files that were read such that it and the rest of the list in hand are what was
begun, and the responses with the channels still to be evaluated are the
channels of that list. Which file wins is decided by the last write
(`OutputsLatest`): an output file holds the response with the greatest index
among those written to it. Names are found in falling order
(`LastNameFirstIs`), so the last of them is the first by name; and a directory is
tried only behind one without a match (`GlobsOrder`).

The same module has what the driver then writes, from `OutputAssumption`, for any
phases, response lists, requested frequencies and stages:

* `WrittenAsCalculatedHolds`: the property `WrittenAsCalculated` of the run
  `algorithms`.

The argument. An answer is computed in one step, so what there is to prove is what
the loops behind it compute; each is a function of what was done so far
(`StepsExist`), and its result is told by induction. *Phases*: what was added so
far is always whole turns (`Turns`), and with values in half a turn around zero
one turn at most is needed next (`UnwrappedKeeps`, `WrappedKeeps`). *Clipping*: as
what is asked for rises, those inside the range are a run (`InsideIsRun`), so that
taking one more at either end and moving it onto the end of the list puts
nothing out of order (`MovedKeeps`); if none is inside, one end or both may be
near, and what `ClippedBelow` and `ClippedAbove` leave is empty (`NoneInside`).
*The log*: the lines of the stages so far are the lines that ought to be there
so far (`LinesAre`), as a line is begun anew by every numbered stage.

`MxmlForest_proofs` proves for every set of nodes, finite or not, any `MaxRefs` and
any sequence of calls:

* `TreeIsSound`: the property `TreeSound` of the run `mxml_forest`;
* `NothingDangles`: between calls, pointers of allocated nodes lead to allocated
  nodes, and those of others are NULL.
* `TreeImplementsForest`: `Spec => ImplementsForest`, the property of the run: what
  one finds by following `child` and `next` is the abstract forest `Forest`;
* `ParentsOutlive`: at every moment, within `mxmlDelete` too, what is above an
  allocated node is allocated, and no node is above itself.
* `DocumentsKept`: the invariant `WalkedAndWritten` of the run: from any node,
  `mxmlWalkNext` and `mxmlWalkPrev` pass what is below it in the order of the
  document and stop there, and `mxml_write_node` writes it with each tag closed
  where it should be and nothing beside it.

Of `MxmlLoad`, for every set of documents of any depth, every harm and any set of
nodes, it proves

* `DocumentIsFreed`: the invariant `DocumentFreed` of the run `mxml_load`: however
  `mxml_load_data` and the conversion end, every node that was allocated is
  freed, none while the loop of `mxmlDelete` is still at it, with the two
  exceptions that the invariant names;
* `LoadImplementsForest`: `LoadSpec => ImplementsForest`: loading does nothing to the
  tree that a caller may not do.

The argument. Between calls the links agree (`Whole`). Within `mxmlDelete` they do
not: the loop frees nodes whose neighbours still point to them, and finds its
way back over parents whose child pointer it cleared. The invariant says that
there is a set `S`, the trail from the argument down to the loop variable,
such that off the trail all is still linked (`PartlyLinked`) and on it exactly
the pointers the loop itself cleared or left are out of agreement (`Spine`).
That the trail leads back to the argument is said without recursion: no smaller
set has the loop variable and the parents of all its elements. The four cases of
`mxmlAdd` are proved as one (`BetweenWhole`): a node between two neighbours,
either of which may be missing.

The refinement needs that following links ends, which for an infinite set of nodes no
counting of nodes gives. `Arranged` says it: there is a bounded `rank` that grows
from parent to child (`Ranked`), and each node has a finite list of its allocated
children, each once, that `next` leads through (`Listed`). The depth is kept by
every step because a node is only put where it is not above (`BetweenRanked`);
the lists change as `RemoveFirst` and `InsertAt` of the abstract forest have it
(`RemovedListed`, `BetweenListed`), and lose their first node when `mxmlDelete`
frees it (`FreedListed`). Over rank and lists, `UpFromIs`, `ListFollowed` and
`SubtreeIs` say what the three recursive functions of the mapping compute, each
by exhibiting a function that satisfies the recursion and induction on the
depth or on the place in the list. Within `mxmlDelete` the mapping shows only
nodes the argument is not above; `Fit` says that their child pointers, which the
loop does not clear, still start their lists. `CurrentGoes` (the trail leads to
the argument) and `NoChildLeft` (a node that is freed has no allocated child) make
each step of the loop one that nobody sees.

`DocumentsKept` compares what three loops over pointers do with two recursions over the
lists of children. That the recursive functions of the model exist at all is
`Recursion`: a function whose value at a place depends only on its values at
places before it, in a well-founded order, exists. For the lists the order is the
depth, from the deepest node up; for the loop of `mxml_write_node` it is the
loop itself (`WritingEnds`): from every node, entered or left behind, it ends,
which is shown from the root down and along each list from its end. Which
pointers of a node are NULL and where the others lead is told by its place in
its parent's list (`LaidOut`). Then both halves go by induction from the deepest node up.
`Passed`: the walks pass a node and all that is below it in one piece and go on
from the last of it as they would from a node without children (`OnwardsIs`,
`LastBelowIs` say where the loops within `mxmlWalkNext` and `mxmlWalkPrev` end);
the pieces of the children follow one another, so that the flattened sequence is
walked step by step (`FlattenSteps`). `Enclosed`: what is written from entering a
node on is that node, nested, and then what is written from leaving it on;
along a list this composes (`AlongList`), and the tag that closes the parent
comes after the last child, where `next` is NULL and the loop turns to `parent`.

`DocumentIsFreed` rests on an invariant about the shape of what is allocated (`LoadInv`):
all of it hangs, at whatever depth, from the one node that the code holds
(`Held`: `first` while reading, the result until it is deleted, then the argument of
`mxmlDelete`), but for at most one node that is on its own (`Rooted`). Of that
node `Strays` says when it comes to be and that reading ends with the next piece:
text behind a closed root becomes a node of its own only when a tag ends it, and
that tag is then refused as a second root; the root itself is not `first` yet
when its attributes turn out unreadable. That neither happens behind a
declaration is no property of one step: the declaration stays the parent of all
(`ReadInv`), because no end tag bears its name (`Pieces`, `TextIs`), so that the way up
never leads past it. These facts about the text are proved of the function that
writes it, by well-founded recursion over the trees (`TagsIs`, `WholeTextIs`), and of
every harm (`HarmedTextIs`). At the end nothing is held, and then what is left is
what is on its own (`OnlyStrays`, from the node of the least depth); at the end of the
text the node climbed to is the first (`OutermostIs`).

`StationXml_proofs` proves of `RespReader`, for texts of any length and content and any
harm to them, from `SourcesAssumption` (they are sequences of lines):

* `ReaderInTypes`: `Spec => []TypeOK`;
* `LinesAreReadInOrder`: the invariant `LinesInOrder` of the run `resp_reader`;
* `TextAlwaysAdvances`: `Spec => ReadingAdvances`: every step moves on in the text, and
  not behind its end, or stays where it is and lowers a rank (`Ahead`, then the number of
  fields asked for). `Termination` is what TLC adds to it: that some step is
  always taken until reading is over.

The argument. Any line may be the answer to any question, so nothing can be said of
what is read but through what is asked for. `Wanted(k)` is what the reader of a
blockette k may ask: fields that bear one of its numbers (`Bears`), responses and
their counts only in a [60], a location only in a header. Every reader of
the table asks for such fields when it begins (`ContentAsks`, `BlocketteAsks`,
`ResponseAsks`), and goes on doing so when a count or a response puts more in front
(`AskRowsWanted`, `RefStagesWanted`, `RestWanted`). Since `find_line` looks only
onward (`FindLineIs`), a line that is taken is at or behind `pos` and bears the
number that was asked for, unless it has no prefix, and then it is refused
everywhere but in the search for the location. `Ordered` is the strengthening:
everything delivered lies before `pos`; so does what the current reader has read,
which follows everything delivered; and so does the line that ended a channel and is
kept in `first_line` for the next, which has not been delivered with either. The
steps then are of three kinds: a line is left (`LineLeft`), taken (`LineTaken`), or
a blockette is delivered (`Delivered`), which appends it to all blockettes of
all channels (`BlocketteAdded`).

Of `StationXml` it proves `FilesAreClosedOnce`, the property `FilesClosedOnce` of the run
`station_xml`, for any set of inputs: `FilesHeld` says at each step which files are
open, on all the ways on which a call can fail.

`SequenceLemmas` has the facts of sequences that these proofs share. The theorems of
the library about induction take the property as an operator, which the
provers here cannot instantiate; `Induction` is stated of a *set* of numbers
instead, and follows from the well-foundedness of the strict subsets of finite
intervals. With it `FlattenSeq` of the community modules is shown to exist, to be
unique, and to do with concatenation, membership and order what its name says.
`Recursion` gives a function that is defined by well-founded recursion, and
`RankedWellFounded` the orders it is used with; `StepsExist` does the same for a
function on `0..n` each of whose values is made from the one before.
`ChainOf` of `CheckChannel` is a recursive function, not a `RECURSIVE` operator, for
the same reason: `PathExists` and `ChainOnPath` say what it computes.

**Only model-checked.**

* *Liveness* (`Termination`, `DeleteEnds`): out of the prover's reach.
* *Properties of recursive operators*, in `Field`, `RegExp`,
  `StringMatch`, `Requests`, `XmlChars`, `XmlElement`, `Legacy`,
  `Filters`, `Spline`: the prover cannot be used in modules that reach a
  `RECURSIVE` operator, and what such an operator computes for every input needs
  induction over data.
* `WholeTextRead` and `HarmContained` of `RespReader`, and `ConvertedIsRead`,
  `DefectRefused` of `StationXml`: they compare what was read with the text that was
  written, over the fields of every blockette; an induction over texts whose cases
  are the table of all fields. That what is read is in order, and that reading
  advances, is proved of any text.
* `LoadedAsWritten` and `HarmRefused` of `MxmlLoad`: they compare the tree that was read with
  the one that was written, where `DocumentFreed` speaks of its shape only.
* `Allocation`: not proved (see the plan).

## 5. What the code does not keep

Met while modelling. The first list has definitions in the modules that TLC
finds violated; a property of the same module that does hold says under which
condition the code is right.

| definition | what happens |
|---|---|
| `Spline.SplineSmooth` | run `spline_uneven` |
| `ChannelSelect.ShortestUsed` | the length of an epoch wraps at 2^31 seconds (`input.c` 2527), and the longer one is used; `BestSelected` is claimed where `SpansFit` |
| `ChannelSelect.FirstMatchUsed` | the manual page promises the *first* matching response of a file: "only the first matching response in each file is calculated" (`evalresp.1` 184-185), "the first response that is found in the file that matches the requested year and day will be used" (233-235), and 259-263 for each SNCL. The code takes the shortest that contains the date, the latest without a date (`input.c` 2664), the last in the file on a tie, and warns that "the shortest was used" (2712). `BestSelected`, `Selection` and what is proved of them follow the code |
| `StageAssembly.UnitsOwnedOnce` | unit strings of a filter that ends its channel are freed twice (`input.c` 2282); `UnitsOwned` |
| `CheckChannel.SequenceBreakRejected` | a gap in the stage numbers is accepted (`resp_fctns.c` 259); `StagesComplete` |
| `CheckChannel.AllocatedGainLinked` | the unit gain made for a lone filter is lost (`resp_fctns.c` 558) |
| `CwdDriver.EachSnclItsOwnFiles` | the files of the second request are not read (`highlevel.c` 159) |
| `CwdDriver.NoMatchIsNoError` | no file found: a NULL collection is read (`highlevel.c` 77) |
| `Evaluation.FrequenciesAgree` | a list in a later stage is indexed by foreign frequencies (`evaluation.c` 211); `ResultsInPlace` |
| `StationXml.ResponseListKept` | of a response list that was converted, no rows arrive (`xml_to_dom.c` 659); `StagesKept` |

The second list shows in the definitions themselves, or as an exception a
property states.

* *Spline*: the end condition with number 3 is decided for the end by the
  number for the beginning.
* *Numerics*: a uniform asymmetric FIR filter takes a shortcut that leaves `h0`
  out and gives 1 at zero frequency; a digital filter whose gain was given at the
  frequency of the sensitivity is not normalised.
* *Allocation*: `alloc_scn` loses `locid` when its last allocation fails;
  `alloc_scn_list` does not look at what `alloc_scn` returns; `free_stages` knows
  no IIR coefficients and no empty blockettes.
* *Patterns*: a class of characters matches the end of a string, as its zero byte
  is "in" every set; since a part of the unit patterns is optional, every
  word that begins with M is metres, with V volts; what `parse_units` returns is
  ignored.
* *Requests*: a blank location cannot be asked for through `evalresp_add_sncl_all`;
  an empty piece of a list asks for any; a leading comma stays in the name;
  `evresp` passes a list of stations on as one pattern; a network or location
  given twice is leaked.
* *Legacy*: `evresp` computes all frequencies anew from the first, the last, their
  number, and the spacing of the first three, so a falling list comes back
  rising; it returns the responses made before an error; `evresp_1` copies as
  many as were asked for, though there may be fewer.
* *Conversion*: `evalresp_xml_stream_to_resp_file` never frees the root it took;
  the function that decides by itself may hand its input stream back.
* *XML*: text between the end of a root without declaration and a further tag
  stays allocated, and so does such a root when its start tag is refused; a byte order mark in the text changes the encoding; quotes
  around names are refused; a search by value alone may miss nodes.
* *Files*: a local file is read before one of SEEDRESP (`evalresp.1` 173-175)
  only if their names have the same form: where the location is wild, all names
  with a location are tried in both directories before any without, so a file
  `RESP.NET.STA.LOC.CHA` of SEEDRESP is taken and the local `RESP.NET.STA.CHA`
  never looked at (`LocalBeforeSeedresp` states it for one form).
* *Output*: a requested frequency just below the end of a list may be restored and
  then refused; unwrapping adds one turn at most per value.

## 6. What is not modelled

* Rounding, overflow and accuracy of floating point; the layout of numbers.
* Allocation failures, other than in the backup of a response list and in
  `alloc_fctns.c`.
* `log.c`: it formats messages and passes them to a function.
* In `mxml/`: `mxmldoc.c`, `mmd.c`, `zipc.c` (a documentation generator and its
  libraries) and `testmxml.c`, which are not part of the library that evalresp
  links; `mxml-get.c`, `mxml-set.c`, `mxml-string.c`, accessors and formatting;
  SAX callbacks, custom data and white-space callbacks, none of which is used.
* `spline.c` other than the cubic spline: of its many functions the program
  calls `spline_cubic_set` and `spline_cubic_val`.
* `regsub.c`, `regerror.c`: nobody calls them. `vcs_getopt.c`: the C library's
  `getopt`, for systems without one.
* The fields of single blockettes beyond their counts, units and stage numbers.
* Details of single steps, each named at its definition: the stage that
  `read_ref` leaves when the text ends inside it (`StageAssembly.CutRef`); lines
  of a converted document that are lost unnoticed (`StationXml.WriteResp`); a
  caller without options (`StationXml.Detect`); negative stage numbers
  (`XmlToDom.BadNumber`) and empty names of FIR filters (`DomToSeed.PrintFir`);
  an undecodable character in the tail of an end tag (`MxmlLoad`). `Evaluation`
  has channels with a single list of at least one row.

## 7. Plan

What further work would gain, in this order:

1. The functions of `Allocation` that convert: what is got is given back once.
2. An abstract specification of the check (a channel is accepted or rejected as
   a function of its text) implemented by `CheckChannel`.
