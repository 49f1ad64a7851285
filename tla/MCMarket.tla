------------------------------ MODULE MCMarket ------------------------------
(* The two parts of the market a taker deals with, each on an instance of  *)
(* its own: how makers come into the offer book, and what a swap with them *)
(* is worth. They share no state, so a behaviour is one of either.         *)
EXTENDS OfferBook, SwapTerms

VARIABLE part

Flat == [base |-> 1, amt |-> 3, time |-> 0, min |-> 5, max |-> 300]
Timed == [base |-> 0, amt |-> 1, time |-> 5, min |-> 10, max |-> 60]
Steep == [base |-> 2, amt |-> 40, time |-> 13, min |-> 10, max |-> 300]
MCSchedules == {Flat, Timed, Steep}

MarketInit == part \in {"book", "terms"} /\ BookInit /\ TermsInit

MarketNext ==
  \/ part = "book" /\ BookNext /\ UNCHANGED <<termsVars, part>>
  \/ part = "terms" /\ TermsNext /\ UNCHANGED <<bookVars, part>>

MarketSpec ==
  /\ MarketInit /\ [][MarketNext]_<<bookVars, termsVars, part>>
  /\ part = "book" => BookFairness

\* The types of the offer book's state and of the swap's (BookTypeOK, TermsTypeOK).
MarketTypeOK == BookTypeOK /\ TermsTypeOK

\* EventuallyListed, of the offer book: a maker that stays reachable with a valid bond ends up
\* listed as good, through announcements, fetches and the sync service's runs.
MakersGetListed == part = "book" => EventuallyListed

\* CallersAnswered, of the offer book: every caller of the sync service gets an answer.
CallersGetAnswers == part = "book" => CallersAnswered
=============================================================================
