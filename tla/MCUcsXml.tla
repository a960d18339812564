------------------------------ MODULE MCUcsXml ------------------------------
(***************************************************************************)
(* Small documents for the parser and the generator.                       *)
(***************************************************************************)
EXTENDS Xml2Struct

CONSTANTS a, b, d

Says(route, label, fallback, id, active) ==
  [route |-> route, label |-> label, fallback |-> fallback, id |-> id, active |-> active]

\* Names with and without an id, and labels, the second of them inactive.
MCAttributes ==
  {Says(a, NULL, NULL, Invalid, TRUE), Says(a, NULL, NULL, 1, FALSE),
   Says(b, NULL, NULL, Invalid, TRUE), Says(NULL, 7, 8, 2, TRUE)}

MCSocketPairs ==
  {<<"USBSocket", "NetworkSocket">>, <<"NetworkSocket", "USBSocket">>,
   <<"StreamSocket", "NetworkSocket">>, <<"MediaLBSocket", "Splitter">>,
   <<"Splitter", "USBSocket">>, <<"Combiner", "MediaLBSocket">>, <<"Combiner", "Splitter">>,
   <<"USBSocket", "Combiner">>, <<"USBSocket", "USBSocket">>}

MCNodePorts == {<<>>, <<"strmPortA", "strmPortB", "rmckPort">>}
MCDriverKinds == {<<>>, <<"Alsa", "Cdev">>}
MCScriptLists == {<<1, 1>>}     \* one script for both nodes
=============================================================================
