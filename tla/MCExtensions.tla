---------------------------- MODULE MCExtensions ----------------------------
(* Small instances of Extensions: the client's own command is global, that of the *)
(* extension is registered in one guild. *)
EXTENDS Extensions

OneGuild == <<"guild">>
MCScope == [n \in Names |-> IF n = Own THEN <<Global>> ELSE OneGuild]
AllVersions == {1, BadData}
Before == {{[name |-> Own, ver |-> 1], [name |-> Ext, ver |-> 2]}}
OneVersion == {1}
=============================================================================
