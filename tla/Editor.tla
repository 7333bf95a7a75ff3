-------------------------------- MODULE Editor --------------------------------
(***************************************************************************)
(* The two controllers of an open editor in one page (editor-overlay.tsx,   *)
(* publishing-runtime.ts): the one that saves the draft and the one that    *)
(* uploads its media.  They share no state here; each sends its commands    *)
(* for the account that the page works for, on its own.                     *)
(***************************************************************************)
EXTENDS DraftAutosave, UploadManager

EditorInit == AutosaveInit /\ UploadsInit
EditorNext == \/ AutosaveNext /\ UNCHANGED uploadVars
              \/ UploadsNext /\ UNCHANGED autosaveVars
EditorSpec == EditorInit /\ [][EditorNext]_<<autosaveVars, uploadVars>>

(* The records of both controllers keep their types, the counts of busy slots *)
(* their limits.                                                             *)
EditorTypeOK == AutosaveTypeOK /\ UploadsTypeOK

(* Whatever account the browser is switched to, and whenever: neither a save *)
(* nor a command for media is sent in an account the editor does not belong  *)
(* to (accountConfirmed, the fences of the upload manager).                  *)
CommandsStayInTheirAccount == SentInItsAccount /\ CommandsInTheirAccount
===============================================================================
