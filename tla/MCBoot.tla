-------------------------------- MODULE MCBoot --------------------------------
(***************************************************************************)
(* A disk of 16 sectors addressed by registers of one bit each, so that    *)
(* the two sectors that commands read differ in every register and from    *)
(* the boot sector in some; eight PCI functions, three of them present.    *)
(***************************************************************************)
EXTENDS Boot

MCDevices == {<<0, 0, 0>>, <<0, 1, 1>>, <<1, 1, 1>>}

ASSUME MCSectorsAddressed == SectorsAddressed

=============================================================================
