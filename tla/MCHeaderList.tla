---------------------------- MODULE MCHeaderList ----------------------------
(***************************************************************************)
(* Requests whose first header may have no value, in whole and in pieces.  *)
(***************************************************************************)
EXTENDS HeaderList

Host == [name |-> <<"H", "o">>, value |-> <<"a", "b">>]
Empty == [name |-> <<"a", "b">>, value |-> <<>>]
MaybeEmpty == {[target |-> <<"/">>, headers |-> h] : h \in {<<Host>>, <<Host, Empty>>, <<Empty, Host>>}}
MCStored == {<<"h", "o">>}
=============================================================================
