---------------------------- MODULE MCProtocol ----------------------------
(* Model checking of Protocol: numbers modulo 4, of both signs, and strings *)
(* that are a word, empty, or a number and a word with a blank between.     *)
(* Another worker reads a registration with one application.                *)
EXTENDS Protocol
MCStrings == {<<<<"w", 1>>>>, << >>, <<<<"d", 1>>, <<"w", 1>>>>}
MCOthers == {<<<<<<"d", 1>>, <<"d", 1>>, <<"d", 1>>, <<"w", 2>>, <<"d", 1>>, <<"d", 1>>>>,
               <<<<"d", 0>>, <<"d", 1>>, <<"d", 1>>, <<"w", 2>>>>>>}
===========================================================================
