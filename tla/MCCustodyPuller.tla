-------------------------- MODULE MCCustodyPuller --------------------------
(* Two graphs; the second document of g2 was committed by a writer that did *)
(* not check it and fails validation.                                       *)
EXTENDS CustodyPuller
CONSTANTS g1, g2
MCGraphList == <<g1, g2>>
MCBad == {<<g2, 2>>}
=============================================================================
