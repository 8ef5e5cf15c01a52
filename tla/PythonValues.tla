---------------------------- MODULE PythonValues ----------------------------
(* What the modules of the algorithms share of the language.               *)
CONSTANT None \* Python's None: an absent value, and JSON's null
=============================================================================
