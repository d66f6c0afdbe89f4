------------------------------ MODULE MCSession ------------------------------
(***************************************************************************)
(* Values of the constants of Session for TLC. A sector is two words, the  *)
(* flash one page of two sectors; a word is blank, zero or a data word.    *)
(***************************************************************************)
EXTENDS SessionService, TLC

MCWord == {"zero", "blank", "a"}

\* The programmers differ in nothing but their name.
ProgrammerSymmetry == Permutations(Programmers)

\* One target with a device the programmer knows, one with an id it does not.
MCDeviceId == [t \in Targets |-> IF t = CHOOSE u \in Targets : TRUE THEN "known" ELSE "unknown"]
AllKnown   == [t \in Targets |-> "known"]

DataZA == [i \in 1 .. WRITE_SIZE |-> IF i = 1 THEN "zero" ELSE "a"]

\* In range, one word over the end, of no words at all, more than a reply can carry, and
\* more than fits the length of a frame.
AllReads   == {<<0, 2>>, <<FLASH_SIZE - 1, 2>>, <<0, 0>>, <<0, MAX_PAYLOAD + 1>>,
               <<WRITE_SIZE, LenMod + 1>>}
OneRead    == {<<0, 2>>}
NoReads    == {}

\* A page, an address that is not aligned to one, and a page outside the flash.
BothErases == {0, WRITE_SIZE}
AllErases  == {0, WRITE_SIZE, FLASH_SIZE}
OneErase   == {0}
NoErases   == {}

\* A sector; more than one; an address and a size that are not aligned; less than one.
OneWrite    == {<<WRITE_SIZE, DataZA>>}
AllWrites   == {<<WRITE_SIZE, DataZA>>, <<0, DataZA \o DataZA>>, <<1, DataZA>>,
                <<0, SubSeq(DataZA, 2, 2)>>}
ShortWrites == {<<0, SubSeq(DataZA, 2, 2)>>, <<0, <<>>>>}
NoWrites    == {}

NoFacade   == {}

Everything == {"discover", "configure", "connect", "reset", "checksum", "chip_erase",
               "erase_write"}
Seeking    == {"discover", "connect", "reset", "checksum"}
Connecting == {"connect"}
=============================================================================
