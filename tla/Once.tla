-------------------------------- MODULE Once ---------------------------------
(* A value that is computed once and used under a name, where a chain of such *)
(* values would nest LETs deeply.                                             *)
With(value, Made(_)) == Made(value)
=============================================================================
