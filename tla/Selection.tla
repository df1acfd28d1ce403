----------------------------- MODULE Selection -----------------------------
(***************************************************************************)
(* What evalresp_char_to_channels promises its caller, with nothing of how *)
(* it is done: for every SNCL the filter asks for, the one best epoch of   *)
(* the file is published, and a failure publishes nothing at all.  Which   *)
(* epoch is best is the code's rule, not the manual page's (FirstMatchUsed  *)
(* in ChannelSelect).                                                      *)
(***************************************************************************)
EXTENDS Epochs

CONSTANTS Files, Filters

VARIABLES file, filter, published, verdict

selectionVars == <<file, filter, published, verdict>>

Init ==
  /\ file \in Files
  /\ filter \in Filters
  /\ published = {}
  /\ verdict = "pending"

(* Epoch k is the best of its SNCL, and joins the selection.               *)
Publish(k) ==
  /\ verdict = "pending"
  /\ IsBest(file, filter, k)
  /\ k \notin published
  /\ published' = published \cup {k}
  /\ UNCHANGED <<file, filter, verdict>>

(* Every SNCL that matches is served.                                      *)
Accept ==
  /\ verdict = "pending"
  /\ \A k \in DOMAIN file : IsBest(file, filter, k) => k \in published
  /\ verdict' = "ok"
  /\ UNCHANGED <<file, filter, published>>

(* The text cannot be parsed, or an epoch of the selection is invalid.     *)
Reject ==
  /\ verdict = "pending"
  /\ file # <<>>
  /\ verdict' = "failed"
  /\ published' = {}
  /\ UNCHANGED <<file, filter>>

Next == Accept \/ Reject \/ \E k \in DOMAIN file : Publish(k)

Spec == Init /\ [][Next]_selectionVars
=============================================================================
