----------------------------- MODULE MCScriptStore -----------------------------
(* ScriptStore with programs and a library that share pages of text and names. *)
EXTENDS ScriptStore

S(name, pages, uses, parses) == [name |-> name, pages |-> pages, uses |-> uses, parses |-> parses]

\* A program and a longer version that begins with it; one that imports the
\* library; one that imports a slot; one that does not parse.
MCScript ==
  {S("main", <<"a">>, None, TRUE), S("main", <<"a", "b">>, "common", TRUE),
   S("common", <<"c", "b">>, None, TRUE), S("common", <<"c">>, "app02", TRUE),
   S("broken", <<"d">>, None, FALSE)}
=============================================================================
