------------------------------ MODULE MCFAT32 -------------------------------
(***************************************************************************)
(* Instances of FAT32 for TLC: four data clusters in two blocks of the         *)
(* allocation table, directory tables with room for two entries, a folder and   *)
(* files of one and of two clusters (the second not full).                   *)
(***************************************************************************)
EXTENDS FAT32

MCNames      == {"a", "b"}
MCNamesEmpty == {"a", NoName}
MCSizes      == {0, 2, 3}
=============================================================================
