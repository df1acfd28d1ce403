------------------------------ MODULE Requests ------------------------------
(***************************************************************************)
(* From what a user asks to what is found: parse_args of evalresp.c and    *)
(* evresp_itp of legacy_interface.c build options and a filter             *)
(* with the setters of input.c and evaluation.c, and channel_matches looks *)
(* for the names of the filter in those of a channel, by RegExp.           *)
(*                                                                         *)
(* Names and lists of names are sequences of characters; all other         *)
(* arguments are words.  Allocation failures are left out.                 *)
(***************************************************************************)
EXTENDS RegExp

LOCAL INSTANCE SequencesExt

CONSTANTS CommandLines,  \* positional arguments and what follows them
          LegacyCalls,   \* names, time, units and format
          Channels,      \* station, network, location, channel of what is read
          Integer,       \* the words that are integers, as is_int has it
          Real,          \* and the numbers strtod reads to the end
          Time,          \* hh[:mm[:ss]]
          NULL

VARIABLES entry,      \* "command" or "legacy"
          call,       \* its arguments
          flags,      \* the options that are left
          options,
          network, location,   \* variables of parse_args
          stations, locations, channels,   \* the split lists
          at,         \* the loops over them
          sncls,      \* filter->sncls
          matched,    \* the channels that were found
          pc

rq_vars == <<entry, call, flags, options, network, location, stations, locations, channels,
             at, sncls, matched, pc>>

lists == <<stations, locations, channels>>

-----------------------------------------------------------------------------
(* trim_string_inplace                                                      *)
RECURSIVE Trimmed(_)
Trimmed(s) ==
  IF s = <<>> THEN s
  ELSE IF s[1] = " " THEN Trimmed(Tail(s))
  ELSE IF Last(s) = " " THEN Trimmed(Front(s))
  ELSE s

(* replace_comma_with_space: looks behind each character, the first one is  *)
(* not looked at.                                                           *)
CommasToSpaces(s) == [i \in DOMAIN s |-> IF i > 1 /\ s[i] = "," THEN " " ELSE s[i]]

(* Mutant of CoallescedSpaces: of several spaces the last is a name.        *)
AsTheyAre(s) == s

CoallescedSpaces(s) ==
  LET kept == SelectSeq([i \in DOMAIN s |-> i], LAMBDA i : s[i] # " " \/ s[i - 1] # " ")
  IN  [k \in DOMAIN kept |-> s[kept[k]]]

(* split_on: what stands before each delimiter, and the rest unless empty.  *)
RECURSIVE Splits(_, _)
Splits(s, delim) ==
  IF s = <<>> THEN <<>>
  ELSE IF \E i \in DOMAIN s : s[i] = delim
    THEN LET end == CHOOSE i \in DOMAIN s : s[i] = delim /\ \A j \in 1..(i - 1) : s[j] # delim
         IN  <<Trimmed(SubSeq(s, 1, end - 1))>> \o Splits(SubSeq(s, end + 1, Len(s)), delim)
    ELSE <<Trimmed(s)>>

SplitOn(s, delim) == IF Splits(s, delim) = <<>> THEN <<<<>>>> ELSE Splits(s, delim)

Given(s) == IF s = NULL THEN <<>> ELSE s

SplitOnSpace(s) == SplitOn(CoallescedSpaces(CommasToSpaces(Trimmed(Given(s)))), " ")
SplitOnComma(s) == SplitOn(Trimmed(Given(s)), ",")

(* evalresp_add_sncl_text: what is missing is any, as are locations of      *)
(* question marks only, or of nothing.                                      *)
AnyName == <<"*">>

LocationOf(locid) ==
  IF locid = NULL THEN AnyName
  ELSE IF ToSet(locid) \subseteq {"?"} THEN AnyName
  ELSE IF ToSet(locid) \subseteq {" "} THEN <<>>
  ELSE locid

OrAny(name) == IF name = NULL THEN AnyName ELSE name

Sncl(net, sta, locid, chan) ==
  [network |-> OrAny(net), station |-> OrAny(sta), locid |-> LocationOf(locid),
   channel |-> OrAny(chan), found |-> 0]

-----------------------------------------------------------------------------
(* evalresp_new_options                                                     *)
NewOptions ==
  [filename |-> NULL, unit |-> "VEL", format |-> "AP", format_set |-> FALSE, spacing |-> "LOG",
   start_stage |-> "ALL", stop_stage |-> "0", min_freq |-> "NO", max_freq |-> "NO", nfreq |-> "1",
   b62_x |-> "0", time |-> "00", year |-> "0", jday |-> "0", set |-> {}]

UnitNames == {"DEF", "DIS", "VEL", "ACC"}
FormatNames == {"AP", "FAP", "CS"}
SpacingNames == {"LOG", "LIN"}

InitWith(e, c) ==
  /\ entry = e
  /\ call = c
  /\ flags = c.flags
  /\ options = NewOptions
  /\ network = NULL
  /\ location = NULL
  /\ stations = <<>>
  /\ locations = <<>>
  /\ channels = <<>>
  /\ at = <<1, 1, 1>>
  /\ sncls = <<>>
  /\ matched = {}
  /\ pc = "start"

Init ==
  \/ \E c \in CommandLines : InitWith("command", c)
  \/ \E c \in LegacyCalls : InitWith("legacy", c)

Refuse ==
  /\ pc' = "refused"
  /\ UNCHANGED <<entry, call, flags, options, network, location, lists, at, sncls, matched>>

(* Station, channel, year and day are needed, frequencies are not.          *)
Positional(i, default) == IF Len(call.args) >= i THEN call.args[i] ELSE default

Arguments ==
  /\ entry = "command"
  /\ pc = "start"
  /\ LET min == Positional(3, "1.0")
         max == Positional(4, min)
         nfreq == Positional(5, "1")
     IN  IF Len(call.args) < 2 \/ {min, max} \notin SUBSET Real \/ nfreq \notin Integer
           THEN Refuse
           ELSE /\ options' = [options EXCEPT !.min_freq = min, !.max_freq = max, !.nfreq = nfreq]
                /\ pc' = "flags"
                /\ UNCHANGED <<entry, call, flags, network, location, lists, at, sncls, matched>>

-----------------------------------------------------------------------------
(* The members that have one value; a value of the wrong kind is refused.   *)
Setters ==
  [f |-> "filename", u |-> "unit", t |-> "time", s |-> "spacing", r |-> "format",
   b |-> "b62_x"]

Accepts(flag, word) ==
  CASE flag = "u" -> word \in UnitNames
    [] flag = "t" -> word \in Time
    [] flag = "s" -> word \in SpacingNames
    [] flag = "r" -> word \in FormatNames
    [] flag = "b" -> word \in Real
    [] OTHER -> TRUE

Switches ==
  {"stdio", "use-estimated-delay", "use-delay", "il", "ii", "unwrap", "ts", "v", "x"}

(* The member a switch sets: two have a second name.                        *)
Member(flag) ==
  CASE flag \in {"il", "ii"} -> "b55_interpolate"
    [] flag \in {"use-estimated-delay", "use-delay"} -> "use_estimated_delay"
    [] OTHER -> flag

Flag == Head(flags)
Word == flags[2]

(* The option and its argument are behind; getopt passes over other words.  *)
Taken(n) == flags' = SubSeq(flags, n + 1, Len(flags))

AtFlag == entry = "command" /\ pc = "flags" /\ flags # <<>>

Unchanging == UNCHANGED <<entry, call, lists, at, sncls, matched>>

PassOver ==
  /\ AtFlag
  /\ Flag \notin DOMAIN Setters \cup Switches \cup {"n", "l", "stage"}
  /\ Taken(1)
  /\ UNCHANGED <<options, network, location, pc>>
  /\ Unchanging

Switch ==
  /\ AtFlag
  /\ Flag \in Switches
  /\ Taken(1)
  /\ options' = [options EXCEPT !.set = @ \cup {Member(Flag)}]
  /\ UNCHANGED <<network, location, pc>>
  /\ Unchanging

SetOption ==
  /\ AtFlag
  /\ Flag \in DOMAIN Setters
  /\ Len(flags) > 1
  /\ Accepts(Flag, Word)
  /\ Taken(2)
  /\ options' = [options EXCEPT ![Setters[Flag]] = Word, !.format_set = @ \/ Flag = "r"]
  /\ UNCHANGED <<network, location, pc>>
  /\ Unchanging

SetName ==
  /\ AtFlag
  /\ Flag \in {"n", "l"}
  /\ Len(flags) > 1
  /\ Taken(2)
  /\ network' = IF Flag = "n" THEN Word ELSE network
  /\ location' = IF Flag = "l" THEN Word ELSE location
  /\ UNCHANGED <<options, pc>>
  /\ Unchanging

(* Mutant of SetStage: the word behind the first stage is the last one.     *)
SetStageAnyWord ==
  /\ AtFlag
  /\ Flag = "stage"
  /\ Len(flags) > 1
  /\ Word \in Integer
  /\ LET range == Len(flags) > 2
     IN  /\ options' = [options EXCEPT !.start_stage = Word,
                                       !.stop_stage = IF range THEN flags[3] ELSE @]
         /\ Taken(IF range THEN 3 ELSE 2)
  /\ UNCHANGED <<network, location, pc>>
  /\ Unchanging

(* One stage, or two if an integer follows.                                 *)
SetStage ==
  /\ AtFlag
  /\ Flag = "stage"
  /\ Len(flags) > 1
  /\ Word \in Integer
  /\ LET range == Len(flags) > 2 /\ flags[3] \in Integer
     IN  /\ options' = [options EXCEPT !.start_stage = Word,
                                       !.stop_stage = IF range THEN flags[3] ELSE @]
         /\ Taken(IF range THEN 3 ELSE 2)
  /\ UNCHANGED <<network, location, pc>>
  /\ Unchanging

BadFlag ==
  /\ AtFlag
  /\ Flag \in DOMAIN Setters \cup {"n", "l", "stage"}
  /\ IF Len(flags) = 1 THEN TRUE
     ELSE IF Flag = "stage" THEN Word \notin Integer ELSE ~Accepts(Flag, Word)
  /\ Refuse

(* The default format of standard input and output, then the lists.         *)
SplitLists ==
  /\ entry = "command"
  /\ pc = "flags"
  /\ flags = <<>>
  /\ options' = IF ~options.format_set /\ "stdio" \in options.set
                  THEN [options EXCEPT !.format = "FAP"] ELSE options
  /\ stations' = SplitOnSpace(call.sta)
  /\ channels' = SplitOnSpace(call.chan)
  /\ locations' = SplitOnComma(IF location = NULL THEN NULL ELSE call.loc)
  /\ pc' = "adding"
  /\ UNCHANGED <<entry, call, flags, network, location, at, sncls, matched>>

-----------------------------------------------------------------------------
(* evalresp_add_sncl_all: one combination, the innermost loop first.        *)
AddSncl ==
  /\ pc = "adding"
  /\ at[1] <= Len(stations)
  /\ sncls' = Append(sncls, Sncl(IF network = NULL THEN NULL ELSE call.net,
                                 stations[at[1]], locations[at[2]], channels[at[3]]))
  /\ at' = IF at[3] < Len(channels) THEN <<at[1], at[2], at[3] + 1>>
           ELSE IF at[2] < Len(locations) THEN <<at[1], at[2] + 1, 1>>
           ELSE <<at[1] + 1, 1, 1>>
  /\ UNCHANGED <<entry, call, flags, options, network, location, lists, matched, pc>>

SetDate ==
  /\ pc = "adding"
  /\ at[1] > Len(stations)
  /\ IF call.args[1] \notin Integer \/ call.args[2] \notin Integer THEN Refuse
     ELSE /\ options' = [options EXCEPT !.year = call.args[1], !.jday = call.args[2]]
          /\ pc' = "matching"
          /\ UNCHANGED <<entry, call, flags, network, location, lists, at, sncls, matched>>

(* evresp_itp: the lists as they are, for one combination.                  *)
Evresp ==
  /\ entry = "legacy"
  /\ pc = "start"
  /\ IF call.format \notin FormatNames \cup {NULL} \/ call.unit \notin UnitNames \cup {NULL}
          \/ Len(call.date) < 3
       THEN Refuse
     ELSE IF call.date[3] \notin Time THEN Refuse
     ELSE /\ options' = [options EXCEPT !.format = IF call.format = NULL THEN @ ELSE call.format,
                                        !.unit = IF call.unit = NULL THEN @ ELSE call.unit,
                                        !.year = call.date[1], !.jday = call.date[2],
                                        !.time = call.date[3]]
          /\ sncls' = <<Sncl(call.net, call.sta, call.loc, call.chan)>>
          /\ pc' = "matching"
          /\ UNCHANGED <<entry, call, flags, network, location, lists, at, matched>>

-----------------------------------------------------------------------------
(* channel_matches                                                          *)
SnclMatches(sncl, channel) ==
  \A name \in {"station", "network", "locid", "channel"} :
    \/ name = "network" /\ sncl.network = <<>> /\ channel.network = <<>>
    \/ RegStringMatch(channel[name], sncl[name], "-g")

FirstOf(found) == IF found = {} THEN 0 ELSE CHOOSE i \in found : \A j \in found : i <= j

First(channel) == FirstOf({i \in DOMAIN sncls : SnclMatches(sncls[i], channel)})

(* The channels of a file, in order.                                        *)
MatchChannels ==
  /\ pc = "matching"
  /\ \E first \in {[c \in Channels |-> First(c)]} :
       /\ matched' = {c \in Channels : first[c] # 0}
       /\ sncls' = [i \in DOMAIN sncls |->
                      [sncls[i] EXCEPT !.found = Cardinality({c \in Channels : first[c] = i})]]
  /\ pc' = "matched"
  /\ UNCHANGED <<entry, call, flags, options, network, location, lists, at>>

Next ==
  \/ Arguments \/ PassOver \/ Switch \/ SetOption \/ SetName \/ SetStage \/ BadFlag
  \/ SplitLists \/ AddSncl \/ SetDate \/ Evresp \/ MatchChannels

Spec == Init /\ [][Next]_rq_vars

-----------------------------------------------------------------------------
(* A glob and a string, whole.                                              *)
RECURSIVE GlobMatches(_, _)
GlobMatches(glob, s) ==
  IF glob = <<>> THEN s = <<>>
  ELSE CASE glob[1] = "*" -> GlobMatches(Tail(glob), s) \/ (s # <<>> /\ GlobMatches(glob, Tail(s)))
         [] glob[1] = "?" -> s # <<>> /\ GlobMatches(Tail(glob), Tail(s))
         [] OTHER -> s # <<>> /\ s[1] = glob[1] /\ GlobMatches(Tail(glob), Tail(s))

GlobOccurs(glob, s) ==
  \E i, j \in 0..Len(s) : i <= j /\ GlobMatches(glob, SubSeq(s, i + 1, j))

(* The names in a list, between separators, without the spaces around them; *)
(* an empty one is none.                                                    *)
Names(s, separators) ==
  {Trimmed(SubSeq(s, i, j)) : <<i, j>> \in
     {<<a, b>> \in (DOMAIN s) \X (DOMAIN s) :
        /\ a <= b
        /\ \A k \in a..b : s[k] \notin separators
        /\ a > 1 => s[a - 1] \in separators
        /\ b < Len(s) => s[b + 1] \in separators}} \ {<<>>}

NamesOrAny(s, separators) == IF Names(s, separators) = {} THEN {AnyName} ELSE Names(s, separators)

(* What a user asks for on the command line: lists of stations and          *)
(* channels, of locations, and a network; in evresp one of each.  None of   *)
(* them is any.                                                             *)
Asked ==
  LET command == entry = "command"
      locs == IF command THEN NamesOrAny(Given(IF location = NULL THEN NULL ELSE call.loc), {","})
              ELSE {Given(call.loc)}
      list(s) == IF command THEN NamesOrAny(Given(s), {",", " "}) ELSE {OrAny(s)}
  IN  [station : list(call.sta),
       channel : list(call.chan),
       locid : {LocationOf(l) : l \in locs},
       network : {IF call.net = NULL \/ (command /\ network = NULL) THEN AnyName ELSE call.net}]

Asks(a, c, Fits(_, _)) ==
  /\ Fits(a.station, c.station)
  /\ Fits(a.channel, c.channel)
  /\ Fits(a.locid, c.locid)
  /\ Fits(a.network, c.network)

(* The first comma of a list that begins with it belongs to a name.         *)
Regular(list) == Trimmed(Given(list)) = <<>> \/ Trimmed(Given(list))[1] # ","

(* Every channel whose names match what was asked for, as globs, is found:  *)
(* splitting, combining, translating and compiling lose none.  What is      *)
(* found has the names somewhere in its own.  Empty pieces of a list of     *)
(* locations ask for any, so that such lists find more.                     *)
MatchedAsAsked ==
  pc = "matched" /\ Regular(call.sta) /\ Regular(call.chan) =>
    \A c \in Channels :
      /\ (\E a \in Asked : Asks(a, c, GlobMatches)) => c \in matched
      /\ c \in matched =>
           \/ \E a \in Asked : Asks(a, c, GlobOccurs)
           \/ \E i \in DOMAIN locations : locations[i] = <<>>

(* "The wildcarding scheme used here is a "glob" style rather than "regular *)
(* expression" style of pattern matching" (doc/evalresp.1): what is found   *)
(* has the names that were asked for.  Violated: RegStringMatch finds a     *)
(* name anywhere in another.                                                *)
GlobMatchesWhole ==
  pc = "matched" => \A c \in matched : \E a \in Asked : Asks(a, c, GlobMatches)

(* The last of the words that follow an option on the command line, where   *)
(* no word that is an argument looks like an option.                        *)
LastGiven(flag, default) ==
  LET places == {i \in DOMAIN call.flags : call.flags[i] = flag}
  IN  IF places = {} THEN default
      ELSE call.flags[(CHOOSE i \in places : \A j \in places : j <= i) + 1]

(* The second stage, where one was given.                                   *)
LastRange ==
  LET f == call.flags
      places == {i \in DOMAIN f : f[i] = "stage" /\ i + 2 <= Len(f) /\ f[i + 2] \in Integer}
  IN  IF places = {} THEN "0" ELSE f[(CHOOSE i \in places : \A j \in places : j <= i) + 2]

(* What is in the options when parse_args has ended is what was given last, *)
(* or the default, in whatever order options and words stand: an option     *)
(* takes its own argument and nothing else, and only a number becomes the   *)
(* second stage.                                                            *)
OptionsAsGiven ==
  pc = "matched" /\ entry = "command" =>
    /\ \A flag \in DOMAIN Setters \ {"r"} :
         options[Setters[flag]] = LastGiven(flag, NewOptions[Setters[flag]])
    /\ options.format = LastGiven("r", IF "stdio" \in ToSet(call.flags) THEN "FAP" ELSE "AP")
    /\ options.set = {Member(flag) : flag \in ToSet(call.flags) \cap Switches}
    /\ options.start_stage = LastGiven("stage", "ALL")
    /\ options.stop_stage = LastRange
=============================================================================
