--------------------------- MODULE ChannelSelect ---------------------------
(***************************************************************************)
(* evalresp_char_to_channels of input.c: collect_channels parses every     *)
(* channel of the text into all_channels, filter_channels then runs a      *)
(* tournament over that array, deleting the losers in place and moving the *)
(* winners to the output, and the caller frees what is left.               *)
(*                                                                         *)
(* A channel object is named by its position in the file.  Slot k of       *)
(* channels_in holds object k or NULL: channels_in is the set of slots     *)
(* that hold their object.  frees counts the calls of evalresp_free_channel *)
(* on each object, so that a double free or a leak is a state.  What        *)
(* read_channel_data and check_channel decide about the contents of a      *)
(* channel is not looked at here: either may fail for any channel.         *)
(***************************************************************************)
EXTENDS Epochs, FiniteSets

CONSTANTS
  Files,   \* the texts a behaviour may start from: sequences of epochs
  Filters  \* the filters it may start with

ASSUME InputAssumption ==
  /\ Files \subseteq Seq(Epoch)
  /\ Filters \subseteq Filter

VARIABLES
  file,          \* the epochs of the text, in order
  filter,
  phase,         \* where in the call chain
  nread,         \* channels parsed so far
  channels_in,   \* slots of all_channels that are not NULL
  channels_out,  \* objects in the output
  frees,         \* object -> number of times it was freed
  found,         \* pattern -> evalresp_sncl.found
  i, j,          \* loop indices of filter_channels
  best_match,
  warn_user,
  status

inputs == <<file, filter>>
vars == <<file, filter, phase, nread, channels_in, channels_out, frees, found,
          i, j, best_match, warn_user, status>>

n == Len(file)

(* evalresp_free_channel on every object of S.                             *)
Free(S) == frees' = [k \in 1..n |-> IF k \in S THEN frees[k] + 1 ELSE frees[k]]

-----------------------------------------------------------------------------
Init ==
  /\ file \in Files
  /\ filter \in Filters
  /\ phase = "collect"
  /\ nread = 0
  /\ channels_in = {}
  /\ channels_out = {}
  /\ frees = [k \in 1..n |-> 0]
  /\ found = [p \in 1..Len(filter.pats) |-> 0]
  /\ i = 1
  /\ j = 1
  /\ best_match = FALSE
  /\ warn_user = FALSE
  /\ status = "OK"

(* One iteration of collect_channels: the header and the data parse, and   *)
(* the channel is appended.                                                *)
ReadChannel ==
  /\ phase = "collect"
  /\ nread < n
  /\ nread' = nread + 1
  /\ channels_in' = channels_in \cup {nread + 1}
  /\ UNCHANGED <<inputs, phase, channels_out, frees, found, i, j, best_match,
                 warn_user, status>>

(* A parse error: the half-read channel and all the others are freed, and  *)
(* filter_channels is not reached.                                         *)
ReadFails ==
  /\ phase = "collect"
  /\ nread < n
  /\ nread' = nread + 1
  /\ Free(channels_in \cup {nread + 1})
  /\ channels_in' = {}
  /\ status' = "ERROR"
  /\ phase' = "done"
  /\ UNCHANGED <<inputs, channels_out, found, i, j, best_match, warn_user>>

StartFilter ==
  /\ phase = "collect"
  /\ nread = n
  /\ phase' = "filter"
  /\ UNCHANGED <<inputs, nread, channels_in, channels_out, frees, found, i, j,
                 best_match, warn_user, status>>

-----------------------------------------------------------------------------
(* The outer loop of filter_channels.                                      *)
LoopOver == i > n \/ status # "OK"

(* The slot was emptied by an earlier winner, or the filter rejects it: the *)
(* object stays where it is.                                               *)
Skip ==
  /\ phase = "filter"
  /\ ~LoopOver
  /\ i \notin channels_in \/ ~ChannelMatches(filter, file[i])
  /\ i' = i + 1
  /\ UNCHANGED <<inputs, phase, nread, channels_in, channels_out, frees, found, j,
                 best_match, warn_user, status>>

(* channel_matches credits the first pattern that matches.                 *)
Credit(e) ==
  LET hits == MatchingPatterns(filter, e)
  IN  found' = [p \in DOMAIN found |->
                  IF p \in hits /\ \A q \in hits : p <= q THEN found[p] + 1 ELSE found[p]]

Consider ==
  /\ phase = "filter"
  /\ ~LoopOver
  /\ i \in channels_in
  /\ ChannelMatches(filter, file[i])
  /\ Credit(file[i])
  /\ phase' = "compare"
  /\ j' = i + 1
  /\ best_match' = TRUE
  /\ UNCHANGED <<inputs, nread, channels_in, channels_out, frees, i, warn_user, status>>

-----------------------------------------------------------------------------
(* The inner loop: candidate i against slot j.                             *)
Comparing == phase = "compare" /\ j <= n /\ best_match

Rival == j \in channels_in /\ SameChannel(file[i], file[j])

PassOver ==
  /\ Comparing
  /\ ~Rival
  /\ j' = j + 1
  /\ UNCHANGED <<inputs, phase, nread, channels_in, channels_out, frees, found, i,
                 best_match, warn_user, status>>

GiveWay ==
  /\ Comparing
  /\ Rival
  /\ GivesWay(filter, file[i], file[j])
  /\ best_match' = FALSE
  /\ warn_user' = (warn_user \/ filter.time # NoTime)
  /\ j' = j + 1
  /\ UNCHANGED <<inputs, phase, nread, channels_in, channels_out, frees, found, i, status>>

BeatOther ==
  /\ Comparing
  /\ Rival
  /\ ~GivesWay(filter, file[i], file[j])
  /\ Free({j})
  /\ channels_in' = channels_in \ {j}
  /\ j' = j + 1
  /\ UNCHANGED <<inputs, phase, nread, channels_out, found, i, best_match, warn_user, status>>

Compared == phase = "compare" /\ (j > n \/ ~best_match)

(* Mutant of Adopt: the slot keeps its pointer.                            *)
AdoptKeepingSlot ==
  /\ Compared
  /\ best_match
  /\ channels_out' = channels_out \cup {i}
  /\ i' = i + 1
  /\ phase' = "filter"
  /\ UNCHANGED <<inputs, nread, channels_in, frees, found, j, best_match, warn_user, status>>

(* check_channel accepts the winner: it changes hands.                     *)
Adopt ==
  /\ Compared
  /\ best_match
  /\ channels_out' = channels_out \cup {i}
  /\ channels_in' = channels_in \ {i}
  /\ i' = i + 1
  /\ phase' = "filter"
  /\ UNCHANGED <<inputs, nread, frees, found, j, best_match, warn_user, status>>

(* Mutant of CheckFails: the verdict of check_channel is dropped.          *)
CheckFailsUnnoticed ==
  /\ Compared
  /\ best_match
  /\ i' = i + 1
  /\ phase' = "filter"
  /\ UNCHANGED <<inputs, nread, channels_in, channels_out, frees, found, j, best_match,
                 warn_user, status>>

(* check_channel rejects the winner: the loop ends at its guard.           *)
CheckFails ==
  /\ Compared
  /\ best_match
  /\ status' = "ERROR"
  /\ i' = i + 1
  /\ phase' = "filter"
  /\ UNCHANGED <<inputs, nread, channels_in, channels_out, frees, found, j, best_match, warn_user>>

(* Mutant of Discard: the slot is cleared without freeing its object.      *)
DiscardWithoutFree ==
  /\ Compared
  /\ ~best_match
  /\ channels_in' = channels_in \ {i}
  /\ i' = i + 1
  /\ phase' = "filter"
  /\ UNCHANGED <<inputs, nread, channels_out, frees, found, j, best_match, warn_user, status>>

Discard ==
  /\ Compared
  /\ ~best_match
  /\ Free({i})
  /\ channels_in' = channels_in \ {i}
  /\ i' = i + 1
  /\ phase' = "filter"
  /\ UNCHANGED <<inputs, nread, channels_out, found, j, best_match, warn_user, status>>

(* Back in evalresp_char_to_channels: all_channels is freed with what it   *)
(* still holds, and after a failure the output too.                        *)
Finish ==
  /\ phase = "filter"
  /\ LoopOver
  /\ phase' = "done"
  /\ LET failed == status # "OK"
     IN  /\ Free(channels_in \cup (IF failed THEN channels_out ELSE {}))
         /\ channels_out' = IF failed THEN {} ELSE channels_out
  /\ channels_in' = {}
  /\ UNCHANGED <<inputs, nread, found, i, j, best_match, warn_user, status>>

-----------------------------------------------------------------------------
Next ==
  \/ ReadChannel \/ ReadFails \/ StartFilter
  \/ Skip \/ Consider
  \/ PassOver \/ GiveWay \/ BeatOther
  \/ Adopt \/ CheckFails \/ Discard
  \/ Finish

Spec == Init /\ [][Next]_vars

-----------------------------------------------------------------------------
TypeOK ==
  /\ file \in Files
  /\ filter \in Filters
  /\ phase \in {"collect", "filter", "compare", "done"}
  /\ nread \in 0..n
  /\ channels_in \subseteq 1..n
  /\ channels_out \subseteq 1..n
  /\ frees \in [1..n -> Nat]
  /\ found \in [1..Len(filter.pats) -> Nat]
  /\ i \in 1..(n + 1)
  /\ j \in 1..(n + 1)
  /\ best_match \in BOOLEAN
  /\ warn_user \in BOOLEAN
  /\ status \in {"OK", "ERROR"}

(* The hand-over of channel objects between the two arrays, in the middle  *)
(* of loops that delete from them: whatever an array still points to was   *)
(* not freed, no object is in both arrays, and none is freed twice.        *)
Ownership ==
  /\ channels_in \cap channels_out = {}
  /\ \A k \in channels_in \cup channels_out : frees[k] = 0
  /\ \A k \in 1..n : frees[k] <= 1

(* On return every object that was read is either in the caller's hands or *)
(* freed: nothing leaks, and a failure leaves the caller with nothing.     *)
NoLeak ==
  phase = "done" =>
    /\ channels_in = {}
    /\ \A k \in 1..nread : k \in channels_out <=> frees[k] = 0
    /\ status # "OK" => channels_out = {}

(* No SNCL ever appears twice in the output, while it is being built too.  *)
OnePerSncl ==
  \A a, b \in channels_out : SameChannel(file[a], file[b]) => a = b

(* A successful call returns, of the epochs that match the filter, exactly *)
(* the best one of each SNCL: the latest without a date, the shortest that *)
(* contains the date with one, the last in the file on a tie.  The lengths *)
(* here are exact, so it is claimed only of files whose spans fit an int.  *)
(* This is the rule of the code and of its comments: "when no date filter  *)
(* is specified, we go with the latest data" (input.c 2664), "the shortest  *)
(* was used" (2712).  The manual page has another one: see FirstMatchUsed.  *)
BestSelected ==
  phase = "done" /\ status = "OK" /\ SpansFit(file) =>
    channels_out = {k \in 1..n : IsBest(file, filter, k)}

(* Deleting in place never deletes what must be returned: a step frees the *)
(* best epoch of a SNCL only when the whole call fails.                    *)
BestNeverFreed ==
  [][ \A k \in 1..n :
        frees'[k] > frees[k] /\ IsBest(file, filter, k) /\ SpansFit(file)
          => status' # "OK" ]_vars

(* "... the shortest was used" (input.c 2712): of the entries of one SNCL  *)
(* that contain the date, none is shorter than the one returned.           *)
ShortestUsed ==
  phase = "done" /\ status = "OK" /\ filter.time # NoTime =>
    \A k \in channels_out : \A r \in Rivals(file, filter, k) :
      ~ShorterThan(file[r], file[k])

(* "However, only the first matching response in each file is calculated"  *)
(* (evalresp.1 184-185; the same in 233-235 and 259-263): the entry that is *)
(* returned has no earlier rival in the file.  The code does not keep this: *)
(* of <<1, 3>>, <<2, 4>> it returns the second if no date is given, and of  *)
(* two entries that are equally good the later one.                         *)
FirstMatchUsed ==
  phase = "done" /\ status = "OK" =>
    \A k \in channels_out : \A r \in Rivals(file, filter, k) : k <= r

(* The selection the caller sees: nothing once an error is noted.          *)
Sel == INSTANCE Selection WITH
  published <- IF status = "OK" THEN channels_out ELSE {},
  verdict <- IF status # "OK" THEN "failed" ELSE IF phase = "done" THEN "ok" ELSE "pending"

(* The tournament implements the abstract selection.                       *)
ImplementsSelection == Sel!Spec

-----------------------------------------------------------------------------
(* The inductive invariant the proofs rest on.                             *)
InLoop == phase \in {"filter", "compare"}

Matches(k) == ChannelMatches(filter, file[k])

(* What the phase says of the other variables.                             *)
Control ==
  /\ phase = "collect" => /\ channels_in = 1..nread
                          /\ channels_out = {}
                          /\ i = 1
                          /\ status = "OK"
  /\ InLoop => nread = n /\ channels_out \subseteq 1..(i - 1)
  /\ phase = "compare" => /\ status = "OK"
                          /\ i < j
                          /\ i \in channels_in
                          /\ Matches(i)
  /\ phase = "done" => /\ channels_in = {}
                       /\ status # "OK" => channels_out = {}
                       /\ status = "OK" => nread = n

(* An object that was read is in exactly one of the two arrays, or was      *)
(* freed once.                                                             *)
Accounted ==
  /\ channels_in \subseteq 1..nread
  /\ channels_out \subseteq 1..nread
  /\ channels_in \cap channels_out = {}
  /\ \A k \in 1..n :
       frees[k] = IF k \in 1..nread /\ k \notin channels_in \cup channels_out THEN 1 ELSE 0

(* The SNCLs already served are not met again.                             *)
Served ==
  /\ OnePerSncl
  /\ InLoop =>
       \A a \in channels_out, k \in channels_in : k >= i => ~SameChannel(file[a], file[k])
  /\ phase = "compare" /\ best_match =>
       \A k \in channels_in : i < k /\ k < j => ~SameChannel(file[i], file[k])

(* Of the entries that match the filter, those that were freed lost to one  *)
(* that is still there, those that are there are still to come, and those   *)
(* that were chosen are best.                                              *)
Live(k) == k \in channels_in \cup channels_out

Dominated(k) ==
  \E b \in 1..n : Live(b) /\ b # k /\ b \in Rivals(file, filter, k) /\ Preferred(file, filter, b, k)

Ranked ==
  InLoop /\ status = "OK" =>
    /\ \A k \in 1..n : Matches(k) /\ ~Live(k) => Dominated(k)
    /\ \A k \in channels_in : k < i => ~Matches(k)
    /\ phase = "compare" /\ ~best_match => Dominated(i)

Chosen ==
  /\ \A k \in channels_out : IsBest(file, filter, k)
  /\ phase = "done" /\ status = "OK" =>
       \A k \in 1..n : IsBest(file, filter, k) => k \in channels_out

(* The last two parts hold of files whose spans fit an int.                *)
IndInv ==
  /\ TypeOK
  /\ Control
  /\ Accounted
  /\ Served
  /\ SpansFit(file) => Ranked /\ Chosen
=============================================================================
