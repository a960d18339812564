-------------------------- MODULE MCUcsXmlScripts --------------------------
(***************************************************************************)
(* Small scripts for UcsXmlScripts.                                        *)
(***************************************************************************)
EXTENDS UcsXmlScripts

Does(kind, size) == [kind |-> kind, size |-> size]

\* Pauses at each place, every kind of action, no action at all.
MCContents ==
  {<<Does("MsgSend", 15)>>,
   <<Does("Pause", 1), Does("I2CPortCreate", 0), Does("I2CPortWrite", 7)>>,
   <<Does("GPIOPortCreate", 0), Does("Pause", 1), Does("Pause", 2), Does("GPIOPortPinMode", 1)>>,
   <<Does("GPIOPinState", 0), Does("Pause", 3), Does("I2CPortRead", 0), Does("MsgSend", 0)>>,
   <<Does("Pause", 1)>>}
=============================================================================
