------------------------------ MODULE CwdDriver ------------------------------
(***************************************************************************)
(* evalresp_cwd_to_cwd of highlevel.c with find_files of file_ops.c: where  *)
(* the responses a request asks for are looked for, the pass over the files *)
(* found, and the writing of one or two output files per response.          *)
(*                                                                         *)
(* A request (an evalresp_sncl of the filter) is the set of channels its    *)
(* pattern matches and the kind of its location pattern.  A RESP file is    *)
(* the channel its name spells, with or without location, and the channels  *)
(* that ChannelSelect returns for it when all are asked for.  Reading a     *)
(* file, evaluating a channel and writing an output may each fail.          *)
(***************************************************************************)
EXTENDS Integers, SequencesExt

CONSTANTS
  Sncls,
  Worlds  \* the requests, options and directories a behaviour may start from

Request == [pat : SUBSET Sncls, loc : {"*", "??", "plain"}]

RespFile == [place : {"local", "seedresp"}, name : Sncls, located : BOOLEAN,
             chans : Seq(Sncls)]

(* source: stdin (-stdio); "named", "dir", "missing" for what -f names;     *)
(* "cwd" without -f.  seedresp: the variable names another directory.       *)
(* disk lists the files in the order glob sorts them.                       *)
World == [requests : Seq(Request), disk : Seq(RespFile), seedresp : BOOLEAN,
          source : {"stdin", "named", "dir", "missing", "cwd"},
          format : {"fap", "ap", "complex"}]

ASSUME WorldAssumption == Worlds \subseteq World

None == [file |-> 0, at |-> 0]
Partial == [file |-> 0, at |-> 1]

Kinds == {"FAP", "AMP", "PHASE", "SPECTRA"}

VARIABLES
  world,
  pc,
  mode,        \* what find_files makes of the source
  lists,       \* request -> the files found for it (matched_files)
  round,       \* i of process_cwd_files
  file,        \* files of the round still to be read, the file pointer
  todo,        \* channels of the open file still to be evaluated
  allocated,   \* responses # NULL
  responses,   \* the responses so far, each the channel at a place in a file
  written,     \* output files written for responses
  out,         \* output file -> the response it holds
  status

vars == <<world, pc, mode, lists, round, file, todo, allocated, responses, written, out, status>>

search == <<mode, lists>>

Sncl(r) == world.disk[r.file].chans[r.at]

-----------------------------------------------------------------------------
Init ==
  /\ world \in Worlds
  /\ pc = "start"
  /\ mode = "none"
  /\ lists = <<>>
  /\ round = 1
  /\ file = <<>>
  /\ todo = <<>>
  /\ allocated = FALSE
  /\ responses = <<>>
  /\ written = 0
  /\ out = [k \in Kinds \X Sncls |-> None]
  /\ status = "OK"

(* stat is not checked: what a name that does not exist is taken for hangs  *)
(* on the bytes that lay in the buffer.                                     *)
ModesOf(source) == IF source = "missing" THEN {"named", "dir"} ELSE {source}

Start ==
  /\ pc = "start"
  /\ mode' \in ModesOf(world.source)
  /\ pc' = IF mode' \in {"stdin", "named"} THEN "open" ELSE "find"
  /\ file' = IF mode' \in {"stdin", "named"} THEN <<1>> ELSE <<>>
  /\ UNCHANGED <<world, lists, round, todo, allocated, responses, written, out, status>>

-----------------------------------------------------------------------------
(* find_files: the globs tried for a request, up to the first that matches  *)
(* any file.  A name without location is tried when the location is wild;   *)
(* SEEDRESP is looked at only where the local directory has nothing.        *)
Glob(r, place, located) ==
  {f \in DOMAIN world.disk :
     world.disk[f].place = place /\ world.disk[f].located = located
       /\ world.disk[f].name \in r.pat}

LocWild(r) == r.loc \in IF mode = "dir" THEN {"*", "??"} ELSE {"*"}

(* Mutant of Places: SEEDRESP comes first.                                  *)
PlacesSwapped ==
  IF mode = "cwd" /\ world.seedresp THEN <<"seedresp", "local">> ELSE <<"local">>

Places == IF mode = "cwd" /\ world.seedresp THEN <<"local", "seedresp">> ELSE <<"local">>

GlobsOf(r) ==
  LET tries(located) == [p \in DOMAIN Places |-> Glob(r, Places[p], located)]
  IN  IF world.source = "missing" THEN <<>>
      ELSE tries(TRUE) \o (IF LocWild(r) THEN tries(FALSE) ELSE <<>>)

(* Mutant of LastNameFirst: the list is in the order of the glob.           *)
FirstNameFirst(files) ==
  FlattenSeq([f \in DOMAIN world.disk |-> IF f \in files THEN <<f>> ELSE <<>>])

(* get_names reads the glob from its end.                                   *)
LastNameFirst(files) ==
  LET last == Len(world.disk)
      name(q) == last + 1 - q
  IN  FlattenSeq([q \in 1..last |-> IF name(q) \in files THEN <<name(q)>> ELSE <<>>])

Found(r) ==
  LET globs == GlobsOf(r)
      hits == {g \in DOMAIN globs : globs[g] # {}}
  IN  IF hits = {} THEN <<>> ELSE LastNameFirst(globs[Min(hits)])

FindFiles ==
  /\ pc = "find"
  /\ Len(lists) < Len(world.requests)
  /\ lists' = Append(lists, Found(world.requests[Len(lists) + 1]))
  /\ UNCHANGED <<world, pc, mode, round, file, todo, allocated, responses, written, out, status>>

FilesFound ==
  /\ pc = "find"
  /\ Len(lists) = Len(world.requests)
  /\ pc' = "round"
  /\ UNCHANGED <<world, search, round, file, todo, allocated, responses, written, out, status>>

-----------------------------------------------------------------------------
(* process_cwd_files: a round per request; every round walks the first list *)
(* of files, and reads them with the whole filter.                          *)
ListOfRound(i) == lists[1]

StartRound ==
  /\ pc = "round"
  /\ round <= Len(world.requests)
  /\ file' = ListOfRound(round)
  /\ round' = round + 1
  /\ pc' = "open"
  /\ UNCHANGED <<world, search, todo, allocated, responses, written, out, status>>

RoundsOver ==
  /\ pc = "round"
  /\ round > Len(world.requests)
  /\ pc' = "write"
  /\ UNCHANGED <<world, search, round, file, todo, allocated, responses, written, out, status>>

(* The channels of file f that the filter lets through: all of them if it   *)
(* names none.                                                              *)
Wanted(s) ==
  world.requests # <<>> => \E q \in DOMAIN world.requests : s \in world.requests[q].pat

Selected(f) ==
  LET chans == world.disk[f].chans
  IN  FlattenSeq([c \in DOMAIN chans |->
                    IF Wanted(chans[c]) THEN <<[file |-> f, at |-> c]>> ELSE <<>>])

(* process_file, process_stdio: the file is read, and the collection of     *)
(* responses allocated if this is the first.                                *)
ReadFile ==
  /\ pc = "open"
  /\ file # <<>>
  /\ Head(file) \in DOMAIN world.disk
  /\ world.source # "missing"
  /\ todo' = Selected(Head(file))
  /\ file' = Tail(file)
  /\ allocated' = TRUE
  /\ pc' = "evaluate"
  /\ UNCHANGED <<world, search, round, responses, written, out, status>>

(* It cannot be opened or parsed.  On stdin a read error leaves channels    *)
(* unset, and what is freed then is not a channel list.                     *)
ReadFails ==
  /\ pc = "open"
  /\ file # <<>>
  /\ status' = "ERROR"
  /\ pc' \in IF mode = "stdin" THEN {"done", "wild_free"} ELSE {"done"}
  /\ UNCHANGED <<world, search, round, file, todo, allocated, responses, written, out>>

(* channels_to_responses: channel by channel; what was appended stays when  *)
(* a later channel fails.                                                   *)
Evaluate ==
  /\ pc = "evaluate"
  /\ todo # <<>>
  /\ responses' = Append(responses, Head(todo))
  /\ todo' = Tail(todo)
  /\ UNCHANGED <<world, pc, search, round, file, allocated, written, out, status>>

(* Mutant of EvaluateFails: the responses at hand are written all the same. *)
EvaluateFailsUnnoticed ==
  /\ pc = "evaluate"
  /\ todo # <<>>
  /\ status' = "ERROR"
  /\ pc' = "write"
  /\ UNCHANGED <<world, search, round, file, todo, allocated, responses, written, out>>

EvaluateFails ==
  /\ pc = "evaluate"
  /\ todo # <<>>
  /\ status' = "ERROR"
  /\ pc' = "done"
  /\ UNCHANGED <<world, search, round, file, todo, allocated, responses, written, out>>

FileOver ==
  /\ pc = "evaluate"
  /\ todo = <<>>
  /\ pc' = "open"
  /\ UNCHANGED <<world, search, round, file, todo, allocated, responses, written, out, status>>

ListOver ==
  /\ pc = "open"
  /\ file = <<>>
  /\ pc' = IF mode \in {"stdin", "named"} THEN "write" ELSE "round"
  /\ UNCHANGED <<world, search, round, file, todo, allocated, responses, written, out, status>>

-----------------------------------------------------------------------------
(* Mutant of OutputKinds: the phase is written first.                       *)
OutputKindsSwapped ==
  CASE world.format = "fap" -> <<"FAP">>
    [] world.format = "ap" -> <<"PHASE", "AMP">>
    [] world.format = "complex" -> <<"SPECTRA">>

(* responses_to_cwd: the output files of a response, in the order they are  *)
(* written.                                                                 *)
OutputKinds ==
  CASE world.format = "fap" -> <<"FAP">>
    [] world.format = "ap" -> <<"AMP", "PHASE">>
    [] world.format = "complex" -> <<"SPECTRA">>

(* The output file that comes next, and the response it is for.             *)
NextResponse == responses[(written \div Len(OutputKinds)) + 1]
NextOutput == <<OutputKinds[(written % Len(OutputKinds)) + 1], Sncl(NextResponse)>>

AllWritten == written = Len(responses) * Len(OutputKinds)

(* A collection that was never allocated is read all the same.              *)
ReadNull ==
  /\ pc = "write"
  /\ ~allocated
  /\ pc' = "null_responses"
  /\ UNCHANGED <<world, search, round, file, todo, allocated, responses, written, out, status>>

(* An output file of the same name is overwritten.                          *)
PrintFile ==
  /\ pc = "write"
  /\ allocated
  /\ ~AllWritten
  /\ out' = IF mode = "stdin" THEN out ELSE [out EXCEPT ![NextOutput] = NextResponse]
  /\ written' = written + 1
  /\ UNCHANGED <<world, pc, search, round, file, todo, allocated, responses, status>>

(* The file does not open, or is cut short.                                 *)
PrintFails ==
  /\ pc = "write"
  /\ allocated
  /\ ~AllWritten
  /\ out' \in {out} \cup IF mode = "stdin" THEN {} ELSE {[out EXCEPT ![NextOutput] = Partial]}
  /\ status' = "ERROR"
  /\ pc' = "done"
  /\ UNCHANGED <<world, search, round, file, todo, allocated, responses, written>>

Finish ==
  /\ pc = "write"
  /\ allocated
  /\ AllWritten
  /\ pc' = "done"
  /\ UNCHANGED <<world, search, round, file, todo, allocated, responses, written, out, status>>

Next ==
  \/ Start \/ FindFiles \/ FilesFound
  \/ StartRound \/ RoundsOver
  \/ ReadFile \/ ReadFails \/ Evaluate \/ EvaluateFails \/ FileOver \/ ListOver
  \/ ReadNull \/ PrintFile \/ PrintFails \/ Finish

Spec == Init /\ [][Next]_vars

-----------------------------------------------------------------------------
Response == [file : DOMAIN world.disk, at : Nat \ {0}]

TypeOK ==
  /\ world \in Worlds
  /\ pc \in {"start", "find", "round", "open", "evaluate", "write", "done",
             "null_responses", "wild_free"}
  /\ mode \in {"none", "stdin", "named", "dir", "cwd"}
  /\ lists \in Seq(Seq(DOMAIN world.disk)) /\ Len(lists) <= Len(world.requests)
  /\ round \in 1..(Len(world.requests) + 1)
  /\ file \in Seq(Nat)
  /\ todo \in Seq(Response)
  /\ allocated \in BOOLEAN
  /\ responses \in Seq(Response)
  /\ written \in 0..(Len(responses) * Len(OutputKinds))
  /\ out \in [Kinds \X Sncls -> Response \cup {None, Partial}]
  /\ status \in {"OK", "ERROR"}

(* Everything the search found, in the order it is read.                    *)
AllRead ==
  IF mode \in {"stdin", "named"} THEN <<1>>
  ELSE FlattenSeq([q \in DOMAIN lists |-> ListOfRound(q)])

(* No output file is touched before every file has been read and every      *)
(* channel evaluated, each exactly once per pass: an error in the last      *)
(* channel of the last file leaves the directory as it was.                 *)
NothingWrittenTooEarly ==
  (\E k \in DOMAIN out : out[k] # None) =>
    responses = FlattenSeq([q \in DOMAIN AllRead |-> Selected(AllRead[q])])

(* Where in responses the content of an output file comes from: the last    *)
(* place, 0 for none.                                                       *)
PlaceOf(r) ==
  LET places == {q \in DOMAIN responses : responses[q] = r}
  IN  IF places = {} THEN 0 ELSE CHOOSE q \in places : \A p \in places : p <= q

(* Amplitude and phase of a channel go to two files, and a channel may be   *)
(* written several times: after a success the two belong together, and when *)
(* the writing stops in between, the phase on disk has its amplitude.       *)
PhaseHasItsAmplitude ==
  world.format = "ap" =>
    \A s \in Sncls :
      LET amp == out[<<"AMP", s>>]
          phase == out[<<"PHASE", s>>]
      IN  /\ phase \notin {None, Partial} => amp # None
          /\ pc = "done" /\ status = "OK" => amp = phase

(* With one request, a channel that several files describe is taken from    *)
(* the file whose name sorts first - files are read from the last name to   *)
(* the first, and later responses overwrite - and every channel that the    *)
(* files found contain and the request matches is there.                    *)
Holding(s) == {f \in Range(lists[1]) : \E q \in DOMAIN Selected(f) : Sncl(Selected(f)[q]) = s}

FirstNameWins ==
  /\ pc = "done" /\ status = "OK"
  /\ mode \in {"dir", "cwd"}
  /\ Len(world.requests) = 1
  => \A s \in Sncls, k \in Range(OutputKinds) :
       LET r == out[<<k, s>>]
       IN  IF Holding(s) = {} THEN r = None
           ELSE /\ r \notin {None, Partial}
                /\ Sncl(r) = s
                /\ r.file \in Holding(s)
                /\ \A f \in Holding(s) : r.file <= f

(* "... if a match is found in both the local and SEEDRESP directories, the *)
(* information from the local file will be used" (evalresp.1 173-175): for  *)
(* names of the same form, whatever else the request matches.               *)
LocalBeforeSeedresp ==
  \A k \in DOMAIN out :
    out[k] \notin {None, Partial} /\ Len(world.requests) = 1 /\ mode = "cwd" =>
      LET from == world.disk[out[k].file]
      IN  from.place = "seedresp" =>
            ~\E f \in DOMAIN world.disk :
               /\ world.disk[f].place = "local"
               /\ world.disk[f].located = from.located
               /\ world.disk[f].name \in world.requests[1].pat
               /\ k[2] \in Range(world.disk[f].chans)

(* "we need to use a separate filter for each sncl" (highlevel.c 150): what *)
(* was found for a request is read, and its channels written.               *)
EachSnclItsOwnFiles ==
  pc = "done" /\ status = "OK" /\ mode \in {"dir", "cwd"} =>
    \A q \in DOMAIN lists : \A f \in Range(lists[q]) :
      \A r \in Range(Selected(f)) :
        \A k \in Range(OutputKinds) : out[<<k, Sncl(r)>>] # None

(* That no file matches is a warning (file_ops.c 172): the responses that   *)
(* are written afterwards exist.                                            *)
NoMatchIsNoError == pc # "null_responses"

(* Files are written once all is read, and amplitude and phase together.    *)
WrittenInStep == NothingWrittenTooEarly /\ PhaseHasItsAmplitude

(* Of files for one channel, the one that is documented to count counts.    *)
FilesChosen == FirstNameWins /\ LocalBeforeSeedresp
=============================================================================
