------------------------------- MODULE Epochs -------------------------------
(***************************************************************************)
(* The response epochs of a RESP file as channel selection sees them: who  *)
(* they belong to (SNCL) and the time span they are valid for.  The first  *)
(* half translates the comparisons of input.c, the second half defines the *)
(* same notions independently of the code, for the specification of what a *)
(* selection should return.                                                *)
(*                                                                         *)
(* A date "YYYY,DDD,HH:MM:SS" is the number of whole seconds it denotes, so *)
(* timecmp is the order of the naturals and to_epoch the identity.         *)
(***************************************************************************)
EXTENDS Integers, Sequences

CONSTANTS
  Sncls,   \* network / station / location / channel identities
  Open,    \* the end_t that starts with "No Ending Time"
  NoTime,  \* a filter without a date: datetime NULL or year 0
  IntMax   \* INT_MAX of the platform, 2^31 - 1 in the program

ASSUME EpochAssumption ==
  /\ Open \notin Int
  /\ NoTime \notin Int
  /\ IntMax \in Nat

(* What is read of an evalresp_channel, and of an evalresp_filter: the     *)
(* patterns are the SNCL globs, each given by the SNCLs it matches.        *)
Epoch == [sncl : Sncls, beg : Nat, end : Nat \cup {Open}]

Filter == [time : Nat \cup {NoTime}, pats : Seq(SUBSET Sncls)]

-----------------------------------------------------------------------------
(* Mutant of Earlier: closed epochs compare by start.                      *)
EarlierByStart(a, b) ==
  IF a.end = Open
    THEN b.end = Open /\ a.beg <= b.beg
    ELSE b.end # Open => a.beg <= b.beg

(* Is a not later than b?  Open epochs are later than closed ones, and     *)
(* among themselves compare by start; closed epochs compare by end.        *)
Earlier(a, b) ==
  IF a.end = Open
    THEN b.end = Open /\ a.beg <= b.beg
    ELSE b.end # Open => a.end <= b.end

(* The conversion of a time_t to an int: modulo the width, signed.         *)
ToInt(x) == ((x + IntMax + 1) % (2 * (IntMax + 1))) - (IntMax + 1)

(* Length of the epoch in seconds as the int duration() returns; INDEFINITE *)
(* is INT_MAX.                                                             *)
Duration(e) == IF e.end = Open THEN IntMax ELSE ToInt(e.end - e.beg)

(* The start is inclusive, the end is not.                                 *)
InEpoch(t, e) == e.beg <= t /\ (e.end # Open => e.end > t)

(* The patterns of the filter that match the epoch's SNCL.                 *)
MatchingPatterns(f, e) == {p \in 1..Len(f.pats) : e.sncl \in f.pats[p]}

ChannelMatches(f, e) ==
  /\ f.time # NoTime => InEpoch(f.time, e)
  /\ f.pats # <<>> => MatchingPatterns(f, e) # {}

SameChannel(a, b) == a.sncl = b.sncl

(* Does candidate c, met first in the file, give way to the later entry o  *)
(* of the same SNCL?  Without a date the latest epoch is kept, with a date *)
(* the shortest epoch that contains it.                                    *)
GivesWay(f, c, o) ==
  IF f.time = NoTime
    THEN Earlier(c, o)
    ELSE InEpoch(f.time, o) /\ Duration(c) >= Duration(o)

-----------------------------------------------------------------------------
(* Reference: a is a worse choice than b under filter f.  Exact lengths,   *)
(* no int; ties in neither direction.                                      *)
LaterThan(b, a) ==
  \/ b.end = Open /\ a.end # Open
  \/ b.end = Open /\ a.end = Open /\ b.beg > a.beg
  \/ b.end # Open /\ a.end # Open /\ b.end > a.end

ShorterThan(b, a) ==
  /\ b.end # Open
  /\ a.end # Open => b.end - b.beg < a.end - a.beg

Worse(f, a, b) == IF f.time = NoTime THEN LaterThan(b, a) ELSE ShorterThan(b, a)

(* The entries of the file that compete for the SNCL of entry k, and the   *)
(* one that should be used: preferred to every rival, where of two that are *)
(* equally good the later in the file is preferred.  The manual page says   *)
(* the first in the file instead: see FirstMatchUsed in ChannelSelect.      *)
Rivals(file, f, k) ==
  {r \in DOMAIN file : SameChannel(file[r], file[k]) /\ ChannelMatches(f, file[r])}

Preferred(file, f, a, b) ==
  \/ Worse(f, file[b], file[a])
  \/ a > b /\ ~Worse(f, file[a], file[b])

IsBest(file, f, k) ==
  /\ k \in Rivals(file, f, k)
  /\ \A r \in Rivals(file, f, k) : r # k => Preferred(file, f, k, r)

(* Every span fits the int that duration() returns (and does not collide   *)
(* with INDEFINITE).                                                       *)
SpansFit(file) ==
  \A k \in DOMAIN file :
    file[k].end # Open => /\ file[k].end - file[k].beg < IntMax
                          /\ file[k].end - file[k].beg >= - IntMax - 1
=============================================================================
