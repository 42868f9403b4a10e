---------------------------- MODULE MCShredding ----------------------------
(* A small instance of Shredding: a store with one key in each of two      *)
(* directories, a lock, a name that begins like the locks', and what other *)
(* versions left.                                                          *)
EXTENDS Shredding, TLC

StoreKeys == {<<"v1", "start", "a">>, <<"v1", "stop", "b">>,
              <<"v0", "c">>, <<"stray", "d">>, <<"v2", "e">>, <<"locks", "f">>,
              <<"locksmith", "g">>}
Spared == {"locks", "locksmith"}
Versions == ("v0" :> 0) @@ ("v1" :> 1) @@ ("v2" :> 2)
=============================================================================
