---- MODULE MCFormInputs ----
(* Forms of up to two inputs and every body over their ids, well formed or *)
(* not, in three requests, two at a time, that may overlap with each other *)
(* or with DeleteForm.                                                     *)
EXTENDS FormInputs

CONSTANTS h1, h2

MCHandlers == {h1, h2}
====
