---------------------------- MODULE MCClassifier ----------------------------
(***************************************************************************)
(* One candidate with an error: its package is asked about first, then its *)
(* diagnostic, by two runs that may pay for one request each.              *)
(***************************************************************************)
EXTENDS Classifier

MCOrder == <<<<"c", "package">>, <<"c", "diagnostic">>>>
=============================================================================
