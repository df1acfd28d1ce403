------------------------------- MODULE Legacy -------------------------------
(***************************************************************************)
(* legacy_interface.c: the calls of earlier versions, made from the new    *)
(* ones.  evresp hands out the responses as a chain, evresp_1 gives one of *)
(* them to Fortran, print_resp takes a chain back; use_estimated_delay     *)
(* remembers what the next call is to do.                                  *)
(***************************************************************************)
EXTENDS Question, Integers, Sequences

LOCAL INSTANCE SequencesExt
LOCAL INSTANCE TLC

CONSTANTS MaxResponses,   \* responses of a call
          FreqLists,      \* frequencies a caller may ask for
          Decades         \* powers of ten, with their exponents

NoResponse == 0

-----------------------------------------------------------------------------
(* Responses are 1..n; first and next make a chain of them.                 *)
(* Mutant of ResponseChain: the last response is left out.                  *)
ResponseChainShort(n) ==
  [first |-> IF n = 0 THEN NoResponse ELSE 1,
   next |-> [r \in 1..n |-> IF r + 1 < n THEN r + 1 ELSE NoResponse]]

ResponseChain(n) ==
  [first |-> IF n = 0 THEN NoResponse ELSE 1,
   next |-> [r \in 1..n |-> IF r < n THEN r + 1 ELSE NoResponse]]

(* What is met on the way from one response to the end of the chain.        *)
RECURSIVE From(_, _)
From(chain, r) == IF r = NoResponse THEN <<>> ELSE <<r>> \o From(chain, chain.next[r])

(* evresp_1: none and several are refused; of one, the results are copied,  *)
(* real and imaginary parts in turn.                                        *)
Evresp1(chain, nfreqs) ==
  CASE chain.first = NoResponse -> [code |-> 1, resp |-> <<>>, freed |-> <<>>]
    [] chain.first # NoResponse /\ chain.next[chain.first] # NoResponse ->
         [code |-> -1, resp |-> <<>>, freed |-> From(chain, chain.first)]
    [] OTHER -> [code |-> 0,
                 resp |-> FlattenSeq([i \in 1..nfreqs |-> <<<<"real", i>>, <<"imag", i>>>>]),
                 freed |-> From(chain, chain.first)]

(* print_resp_itp: the chain is counted, and becomes an array again.        *)
Printed(chain) ==
  LET nresponses == Len(From(chain, chain.first))
  IN  [i \in 1..nresponses |-> From(chain, chain.first)[i]]

-----------------------------------------------------------------------------
(* use_estimated_delay: a call says which way, or only asks.                *)
UseEstimatedDelay(use_delay_flag, flag) == IF flag = "QUERY_DELAY" THEN use_delay_flag ELSE flag = "TRUE"

Remembered(calls) == FoldLeft(UseEstimatedDelay, FALSE, calls)

-----------------------------------------------------------------------------
(* The new functions choose frequencies themselves, from the first, the     *)
(* last, their number and the spacing that determine_log_or_lin finds in    *)
(* the first three.  Of a shorter list it reads what lies behind.           *)
(* Mutant of LinFreqs: the second step is measured from the first.          *)
LinFreqsFromFirst(freqs) ==
  IF Len(freqs) < 3 THEN BOOLEAN ELSE {freqs[2] - freqs[1] = freqs[3] - freqs[1]}

LinFreqs(freqs) ==
  IF Len(freqs) < 3 THEN BOOLEAN ELSE {freqs[2] - freqs[1] = freqs[3] - freqs[2]}

(* validate_freqs and calculate_default_freqs: ends in order, and what lies *)
(* between them, as lo, delta times (n - 1), and whether these are exponents*)
DefaultFreqs(lin, freqs) ==
  LET n == Len(freqs)
      min_freq == IF freqs[1] <= freqs[n] THEN freqs[1] ELSE freqs[n]
      max_freq == IF freqs[1] <= freqs[n] THEN freqs[n] ELSE freqs[1]
      scale(f) == IF lin THEN f ELSE Decades[f]
  IN  IF ~lin /\ min_freq = 0 THEN [ok |-> FALSE]
      ELSE [ok |-> TRUE, lin |-> lin, n |-> n, lo |-> scale(min_freq),
            across |-> IF n = 1 THEN 0 ELSE scale(max_freq) - scale(min_freq)]

-----------------------------------------------------------------------------
LegacyInit ==
  /\ question \in [of : {"responses"}, n : 0..MaxResponses, nfreqs : 1..3]
             \cup [of : {"delay"}, calls : UNION {[1..k -> {"TRUE", "FALSE", "QUERY_DELAY"}] : k \in 0..4}]
             \cup [of : {"freqs"}, freqs : FreqLists]
  /\ answer = Unanswered

HandOver ==
  /\ Asked("responses")
  /\ LET chain == ResponseChain(question.n)
     IN  Answer([of |-> "responses", printed |-> Printed(chain),
                 fortran |-> Evresp1(chain, question.nfreqs)])

AskDelay ==
  /\ Asked("delay")
  /\ Answer([of |-> "delay", used |-> Remembered(question.calls)])

ChooseFreqs ==
  /\ Asked("freqs")
  /\ \E lin \in LinFreqs(question.freqs) :
       Answer([of |-> "freqs", freqs |-> DefaultFreqs(lin, question.freqs)])

LegacyNext == HandOver \/ AskDelay \/ ChooseFreqs

-----------------------------------------------------------------------------
(* Through the chain, the old calls print what the new ones would, in the   *)
(* same order; Fortran gets the results of one response and no other, and   *)
(* every response is freed once.                                            *)
ResponsesHandedOver ==
  answer.of = "responses" =>
    /\ answer.printed = [i \in 1..question.n |-> i]
    /\ answer.fortran.code = (CASE question.n = 0 -> 1 [] question.n = 1 -> 0 [] OTHER -> -1)
    /\ answer.fortran.freed = [i \in 1..question.n |-> i]
    /\ answer.fortran.resp # <<>> <=> question.n = 1

(* The last call that said which way counts, and none means no.             *)
DelayRemembered ==
  answer.of = "delay" =>
    (answer.used <=>
       \E i \in DOMAIN question.calls :
         /\ question.calls[i] = "TRUE"
         /\ \A j \in DOMAIN question.calls : question.calls[j] = "FALSE" => j < i)

Even(numbers) == \A i \in 2..Len(numbers) : numbers[i] - numbers[i - 1] = numbers[2] - numbers[1]

Exponents(freqs) == [i \in DOMAIN freqs |-> Decades[freqs[i]]]

(* Frequencies that rise evenly, or by the same factor, are those that are  *)
(* used, and so are one or two of any kind, except zero.                    *)
FrequenciesAsGiven ==
  answer.of = "freqs" =>
    LET given == question.freqs
        used == answer.freqs
        rising == \A i \in 2..Len(given) : given[i - 1] < given[i]
        n == Len(given)
        spaced == Even(given) \/ (0 \notin ToSet(given) /\ Even(Exponents(given)))
    IN  rising /\ spaced /\ (n < 3 => 0 \notin ToSet(given)) =>
          /\ used.ok /\ used.n = n
          /\ LET scaled == IF used.lin THEN given ELSE Exponents(given)
             IN  /\ used.lo = scaled[1]
                 /\ \A i \in 2..n : (n - 1) * (scaled[i] - used.lo) = (i - 1) * used.across

(* The old calls do what the new ones do, as they are told.                 *)
LegacyAsGiven == ResponsesHandedOver /\ DelayRemembered /\ FrequenciesAsGiven
=============================================================================
