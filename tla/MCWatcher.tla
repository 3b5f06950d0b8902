----------------------------- MODULE MCWatcher -----------------------------
(***************************************************************************)
(* Instances of Watcher for TLC.  Either file is written in place, or an   *)
(* editor renames the other over the observed one: one event, two paths.   *)
(***************************************************************************)
EXTENDS Watcher

MCEvents == {<<"file">>, <<"other">>, <<"other", "file">>}
=============================================================================
