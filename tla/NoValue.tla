-------------------------------- MODULE NoValue --------------------------------
(* The value of a column or a field that is absent: NULL in the database,      *)
(* null or undefined in the code.                                              *)
CONSTANT None
================================================================================
