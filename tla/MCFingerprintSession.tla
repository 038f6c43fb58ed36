------------------------ MODULE MCFingerprintSession ------------------------
(* Model-checking instance of FingerprintSession: two templates. *)
EXTENDS FingerprintSession

TwoTemplates == <<1, 2>>
=============================================================================
