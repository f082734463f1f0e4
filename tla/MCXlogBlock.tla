------------------------------ MODULE MCXlogBlock ------------------------------
(* Lines of one or two cells, so that a block of 13 cells has room for    *)
(* every line of a run and its tail byte, and one of 6 has not.           *)
EXTENDS XlogBlock

OneOrTwo == {1, 2}
OneOrThree == {1, 3}
================================================================================
