-------------------------- MODULE MCPublishingWorks --------------------------
(* Two scenes that share one instance: the commands of any number of editors *)
(* against the server alone ("server"), and one editor with its controller   *)
(* over a network ("editor").  The scene is chosen once.                     *)
EXTENDS PublishingSubmission, TLC

CONSTANTS w1, w2, d1, s1, r1, r2, e1, i1, text, photo,
          TotalVersion  \* bound: the sum of the works' versions in each scene

Media == text :> {} @@ photo :> {i1}
Scenes == {"server", "editor"}
ServerAndEditor == [server |-> 5, editor |-> 2]

VARIABLE scene

MCInit == SubmissionInit /\ scene \in Scenes

(* In scene "editor" no moderator reads a page. *)
InBounds == /\ works'[w1].version + works'[w2].version <= TotalVersion[scene]
            /\ scene = "editor" => page' = Null

MCNext == /\ scene' = scene
          /\ \/ scene = "server" /\ Next /\ UNCHANGED submissionVars
             \/ scene = "editor" /\ SubmissionNext
          /\ InBounds

MCSpec == MCInit /\ [][MCNext]_<<allVars, scene>>

Symmetric == Permutations(Works) \cup Permutations(Requests)
=============================================================================
