---------------------------- MODULE MCLifecycle ----------------------------
(***************************************************************************)
(* Lifecycle for TLC: file names of which one begins another, a file that  *)
(* is not there, an image that fits the memory and one that does not.      *)
(***************************************************************************)
EXTENDS Lifecycle

Short   == <<"a">>
Long    == <<"a", "b">>
Missing == <<"b">>

MCNames == {Short, Long, Missing}
MCFiles == (Short :> <<1, 2>>) @@ (Long :> <<2, 1, 3, 4>>)

=============================================================================
