------------------------- MODULE Par2RepairSeparate -------------------------
(***************************************************************************)
(* The repair command when the paths it uses for different purposes are    *)
(* different: extra files are not protected files, and nobody named a file *)
(* like a temporary or backup path of another.  The code checks none of    *)
(* this: with * as arguments an intact file is an extra file, too, and is   *)
(* moved onto another target of equal content.                             *)
(***************************************************************************)
EXTENDS Par2RepairProperties

TempPaths == {Temp[f] : f \in File}
BackupPaths == UNION {{Backup[f][k] : k \in DOMAIN Backup[f]} : f \in File}
ExtraPaths == {Extras[k] : k \in DOMAIN Extras}

ASSUME SeparateAssumption ==
  /\ ExtraPaths \cap File = {}
  /\ TempPaths \cap (File \cup ExtraPaths \cup BackupPaths) = {}
  /\ BackupPaths \cap (File \cup ExtraPaths) = {}
=============================================================================
