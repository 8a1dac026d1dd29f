--------------------------------- MODULE MCPeople ---------------------------------
(* Two persons with a voice sample each; one more can be made. *)
EXTENDS People, TLC

MCFirstOwner == "x" :> "ann" @@ "y" :> "bob"
=============================================================================
