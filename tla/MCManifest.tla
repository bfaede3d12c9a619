----------------------------- MODULE MCManifest -----------------------------
(***************************************************************************)
(* SusuManifest on five machines: XDG_CONFIG_HOME unset, beneath HOME and  *)
(* a symbolic link to a third directory there, outside HOME and a link     *)
(* into it, equal to HOME on a case-insensitive file system, and malformed.*)
(***************************************************************************)
EXTENDS SusuManifest, TLC

MCName == {"h", "a", "A", "a.enc", "b", "c", "d", "x", ".config", ".kube", "cache", "bad", "~q"}
MCEnc(c) == c \o ".enc"
MCFold(c) == IF c = "A" THEN "a" ELSE c
MCCache == <<".kube", "cache">>

Machine(xdg, links, platform) ==
    [home |-> <<"", "h">>, xdg |-> xdg, work |-> <<"", "h", "c">>, links |-> links,
     platform |-> platform, insensitive |-> platform = "darwin",
     protected |-> {<<"h", "c", "b">>}]

MCMachines == {
    Machine(<<"">>, << >>, "linux"),
    Machine(<<"", "h", "c">>, (<<"h", "c">> :> <<"h", "d">>), "linux"),
    Machine(<<"", "h", "c", ".">>, << >>, "linux"),
    Machine(<<"", "x">>, (<<"x">> :> <<"h", "d">>), "darwin"),
    Machine(<<"", "h">>, << >>, "darwin"),
    Machine(<<"h">>, << >>, "linux") }

MCArguments == {
    <<"~", "a">>, <<"~", "A">>, <<"~", "a.enc", "b">>, <<"", "h", "c", "a">>,
    <<"~", "x", "..", "d", "a">>, <<"", "h", ".config", "a">>, <<"~", "a", "b">>,
    <<XDGPrefix, "a">>, <<"", "x", "A">>, <<"~", "bad">>, <<"~q", "a">>,
    <<"~", ".kube", "cache", "a">>, <<"~", "c", "b">> }

MCCommands == {{a} : a \in MCArguments} \cup {
    {<<"~", "a">>, <<"~", "A">>}, {<<"~", "a">>, <<"~", "a.enc", "b">>},
    {<<"~", "d", "a">>, <<"a">>}, {<<XDGPrefix, "a">>, <<XDGPrefix, "A">>} }

Entry(path, sensitive) ==
    [path |-> path, source |-> SourceFor(path, sensitive), sensitive |-> sensitive]

MCPulled == {[crypto |-> TRUE, entries |-> es] : es \in
    {{Entry(<<"~", "c", "a">>, FALSE)},
     {Entry(<<"~", "c", "a">>, FALSE), Entry(<<XDGPrefix, "a", "b">>, TRUE)},
     {Entry(<<"~", "c", "b">>, FALSE)},
     {Entry(<<"~", "d", "a">>, TRUE), Entry(<<XDGPrefix, "a">>, TRUE)},
     {Entry(<<"~", "A">>, TRUE), Entry(<<"~", "a">>, FALSE)},
     {Entry(<<"~", "a">>, TRUE), Entry(<<"~", "a.enc", "b">>, TRUE)},
     {Entry(<<"~", ".config", "a">>, FALSE)}}}
=============================================================================
