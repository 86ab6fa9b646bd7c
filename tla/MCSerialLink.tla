---------------------------- MODULE MCSerialLink ----------------------------
(* Instances of SerialLink for TLC: an alert of a header and one payload     *)
(* entry.  Two rows are the least an entry has, and the shape "first row,    *)
(* last row" is what the receiver looks at.                                  *)
EXTENDS SerialLink

TwoEntries == <<2, 3>>
=============================================================================
