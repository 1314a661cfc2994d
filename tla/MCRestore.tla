----------------------------- MODULE MCRestore -----------------------------
(***************************************************************************)
(* Three files at three depths, a prefix that is a directory and one       *)
(* that is a file, two storage entries, and two commands after each other. *)
(***************************************************************************)
EXTENDS Restore

MCOutput    == {[kind |-> "row",    path |-> <<"a", "d", "x">>],
                [kind |-> "digest", path |-> <<"a", "y">>],
                [kind |-> "plain",  path |-> <<"b">>],
                [kind |-> "digest", path |-> <<"b">>],
                [kind |-> "status", path |-> <<"total">>]}
MCPrefixes  == {<<>>, <<"a">>, <<"b">>}
MCTemplates == {{"storage", "revision"}}
=============================================================================
