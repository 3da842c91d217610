---------------------------- MODULE MCUcService ----------------------------
(* Finite instances of UcService for TLC.                                  *)
EXTENDS UcService, TLC

(* Renames, alone and with a null that is dropped, and an e-mail change    *)
(* with a null username: an update that must not touch the index.          *)
MCPayloads ==
       {"username" :> n : n \in Usernames}
  \cup {("email" :> e) @@ ("username" :> None) : e \in Emails}

MCStatuses == {"active"}

=============================================================================
