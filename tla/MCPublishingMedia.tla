-------------------------- MODULE MCPublishingMedia --------------------------
(* Small instances of the media store and of a draft, in scenes that are     *)
(* chosen once.                                                              *)
(*   one: an item of one component with a draft and two purges at a time.    *)
(*   pair: an item of two components with a session and one purge at a time. *)
(*   choices: a draft with contents without media, five commands in two      *)
(* milliseconds.                                                             *)
(*   contents: a draft with contents that share media, four commands in one. *)
EXTENDS PublishingMedia, PublishingDrafts, TLC

CONSTANTS i1, i2, c1, c2, c3,
          v1, v2, v3, v4,   \* contents without media
          empty, x, y,      \* contents with none, one and two items
          phone, desktop,
          Scenes

Owners == c1 :> i1 @@ c2 :> i2 @@ c3 :> i2
Firsts == i1 :> c1 @@ i2 :> c2
Sizes == c1 :> 2 @@ c2 :> 2 @@ c3 :> 1
Allowances == i1 :> 1 @@ i2 :> 1

Versions == <<v1, v2, v3, v4>>
Plain == {v1, v2, v3, v4}
MediaItems == [c \in Plain |-> {}] @@ empty :> {} @@ x :> {i1} @@ y :> {i1, i2}

VARIABLE scene

Contents == [choices |-> Plain, contents |-> Content \ Plain]
Commands == [choices |-> MaxCommands, contents |-> MaxCommands - 1]   \* bound
Latest == [choices |-> MaxMoments, contents |-> MaxMoments - 1]       \* bound: the last time

MCInit == /\ Init /\ DraftsInit
          /\ scene \in Scenes
          /\ draft.content = IF scene = "choices" THEN v1 ELSE empty

InMediaScene ==
    IF scene = "one" THEN item'[i2] = "absent"
    ELSE /\ item'[i1] = "absent"
         /\ refs' \subseteq Items \X Sessions
         /\ Cardinality({p \in Purgers : purge'[p] # NoPurge}) <= 1

(* Contents no row has are alike, and so are classes without a copy: of them *)
(* the first is taken.                                                       *)
Stored == {draft.content} \cup {row.content : row \in copies \cup snaps}
Saving == {c.class : c \in copies}
InDraftScene ==
    /\ draft'.content \in Contents[scene] /\ \A c \in copies' : c.content \in Contents[scene]
    /\ \A row \in copies' \cup snaps' : row.at <= Latest[scene]
    /\ \A m, n \in 1..4 : Versions[n] \in Stored' \ Stored /\ m < n => Versions[m] \in Stored
    /\ desktop \in Saving' \ Saving => phone \in Saving

MCNext ==
    /\ scene' = scene
    /\ \/ /\ scene \in {"one", "pair"}
          /\ Next /\ InMediaScene /\ UNCHANGED draftsVars
       \/ /\ scene \in DOMAIN Contents
          /\ \/ commands < Commands[scene] /\ (SaveStep \/ ChoiceStep)
             \/ scene = "contents" /\ MediaStep
             \/ DeleteStep
          /\ InDraftScene /\ UNCHANGED vars

MCSpec == MCInit /\ [][MCNext]_<<vars, draftsVars, scene>>

Names == Permutations(Blobs) \cup Permutations(Transfers) \cup Permutations(Purgers)
=============================================================================
