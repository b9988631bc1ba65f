------------------------------ MODULE Settings ------------------------------
(***************************************************************************)
(* The settings (src/src/settings.cpp) and the panel that edits them       *)
(* (src/src/ui/settingsdialog.cpp), by how their values are kept.  One     *)
(* setting stands for all that are kept alike: ports for those that are    *)
(* read once, when the program starts; tls for the plain ones; overwrite,  *)
(* which reset() forgets; dir, the download folder, which must be          *)
(* writable to be set or loaded.                                           *)
(***************************************************************************)
EXTENDS Integers

CONSTANTS
  Ports, DefaultPort,  \* ports in use; 0 can be entered in the panel and is refused
  Folders, DefaultFolder

ASSUME SettingsAssumption ==
  /\ Ports \subseteq Nat \ {0} /\ DefaultPort \in Ports
  /\ DefaultFolder \in Folders

Setting == [ports : Ports, tls : BOOLEAN, overwrite : BOOLEAN, dir : Folders]

\* the fields of the panel
Fields == [ports : Ports \cup {0}, tls : BOOLEAN, overwrite : BOOLEAN, dir : Folders]

Defaults == [ports |-> DefaultPort, tls |-> TRUE, overwrite |-> FALSE, dir |-> DefaultFolder]

\* reset(), which leaves mReplaceExistingFile as it is
Reset(set) == [Defaults EXCEPT !.overwrite = set.overwrite]

\* the setters called by onSaveClicked(): a refused value leaves the setting as it was
Entered(set, fields, writable) ==
  [fields EXCEPT !.ports = IF @ > 0 THEN @ ELSE set.ports,
                 !.dir = IF @ \in writable THEN @ ELSE set.dir]

(***************************************************************************)
(* loadSettings(): a download folder that is gone is replaced by the       *)
(* default one, which is stored at once when it can be used.               *)
(***************************************************************************)
Loaded(stored, writable) ==
  IF stored.dir \in writable THEN stored ELSE [stored EXCEPT !.dir = DefaultFolder]

StoredByLoad(stored, writable) ==
  IF {stored.dir, DefaultFolder} \cap writable = {} THEN stored ELSE Loaded(stored, writable)
=============================================================================
