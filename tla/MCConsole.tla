------------------------------ MODULE MCConsole ------------------------------
(* An instance of Console for TLC, in a ring of five bytes.  TAB finds two   *)
(* names after "a" and adds what they share, finds two and adds nothing      *)
(* after "aa", finds one and adds a blank after "aaa", and finds none after  *)
(* "aaaa".                                                                   *)
EXTENDS Console

Names == {<<"a", "a">>, <<"a", "a", "a">>}

=============================================================================
