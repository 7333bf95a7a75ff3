------------------------------ MODULE MCEditor ------------------------------
(* Small instances of the two controllers of an open editor, in scenes that *)
(* are chosen once.  DraftAutosave: saving while other devices edit the     *)
(* draft, choosing between the versions of a conflict, switching saving     *)
(* off, an account that changes.  UploadManager: an item of two components, *)
(* an item of one, two of those, and an item whose account or saving        *)
(* changes.                                                                 *)
EXTENDS Editor, TLC

CONSTANTS e, a, b, p, q, s, Scenes

VARIABLE scene

Shown == [pair |-> {p}, still |-> {q}, items |-> {q, s}, switches |-> {q}]
HeldBy == [pair |-> "draft", still |-> "session", items |-> "draft", switches |-> "draft"]
Budget == [pair |-> 3, still |-> 4, items |-> 1, switches |-> 2]  \* bound: commands and faults

MCInit == EditorInit /\ scene \in Scenes

InSavingScene ==
    /\ scene # "accounts" => signedIn' = "own"
    /\ scene = "accounts" => ~ OthersStep
    /\ scene # "choosing" => choice'.step = "none"
    /\ scene \notin {"closing", "accounts"} => disabling'.step = "off"
    /\ Cardinality(late') <= 1

InUploadScene ==
    /\ \A k \in Keys \ Shown[scene] : m'.rec[k].phase = "absent"
    /\ \A t \in m'.threads : t.call = "register" /\ m'.saving => t.note = HeldBy[scene]
    /\ scene # "switches" => spent'.switches = 0
    /\ scene \in {"items", "switches"} => spent'.faults = 0
    /\ scene = "pair" => spent'.faults <= 1
    /\ spent'.commands + spent'.faults <= Budget[scene]

MCNext ==
    /\ scene' = scene
    /\ \/ /\ scene \notin DOMAIN Shown
          /\ AutosaveNext /\ InSavingScene /\ UNCHANGED uploadVars
       \/ /\ scene \in DOMAIN Shown
          /\ UploadsNext /\ InUploadScene /\ UNCHANGED autosaveVars

MCSpec == MCInit /\ [][MCNext]_<<autosaveVars, uploadVars, scene>>

Symmetric == Permutations({a, b})
=============================================================================
