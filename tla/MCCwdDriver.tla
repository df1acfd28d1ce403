----------------------------- MODULE MCCwdDriver -----------------------------
(* Small instances of CwdDriver.                                             *)
EXTENDS CwdDriver

CONSTANTS A, B

MCSncls == {A, B}

Requests ==
  {[pat |-> {A}, loc |-> "plain"], [pat |-> {B}, loc |-> "??"],
   [pat |-> {A, B}, loc |-> "*"], [pat |-> {A, B}, loc |-> "plain"]}

(* RESP files: one channel as named, both channels, or a name without        *)
(* location.                                                                 *)
Locals ==
  {[place |-> "local", name |-> n, located |-> l, chans |-> c] :
     n \in {A, B}, l \in BOOLEAN, c \in {<<A>>, <<A, B>>, <<B>>}}

Afar ==
  {[place |-> "seedresp", name |-> n, located |-> l, chans |-> <<n>>] :
     n \in {A, B}, l \in BOOLEAN}

Disks == UNION {[1..l -> Locals] : l \in 0..2} \cup (Locals \X Afar) \cup {<<f>> : f \in Afar}

SeqsOf(S, lo, hi) == UNION {[1..l -> S] : l \in lo..hi}

(* The search, over all these disks and up to two requests.                  *)
Searches ==
  [requests : SeqsOf(Requests, 1, 2), disk : Disks, seedresp : {TRUE}, source : {"cwd"},
   format : {"ap"}]

Others ==
  [requests : SeqsOf(Requests, 1, 2), disk : SeqsOf(Locals, 1, 1), seedresp : {FALSE},
   source : {"stdin", "named", "dir", "missing", "cwd"}, format : {"fap", "complex"}]

MCWorlds == Searches \cup Others
=============================================================================
