--------------------------- MODULE MCPackageTools ---------------------------
(* A repository of two projects.  "prog" is described well, with a folder    *)
(* that is copied over a file's folder, and with a file that is missing      *)
(* before a folder that is written as a file;                               *)
(* "conf" by its configuration, a whole folder, without a project and twice. *)
EXTENDS PackageTools

bin == <<"prog", "bin", "prog.lua">>
lib == <<"prog", "lib">>
etc == <<"conf", "etc", "conf.cfg">>

MCNames == {"prog", "conf", "manifest", "bin", "lib", "etc", "sub", "usr", "boot",
            "share", "gone", "prog.lua", "a.lua", "b.lua", "conf.cfg", "list"}
MCTree == {bin, lib \o <<"a.lua">>, lib \o <<"sub", "b.lua">>, etc,
           <<"manifest", "list">>}
MCDefaultDir == <<"manifest">>

E(prefix, path, double, dst) ==
    [prefix |-> prefix, path |-> path, double |-> double, dst |-> dst]
Oppm(dir, entries) == [dir |-> dir, entries |-> entries]

MCOppmRecipes ==
    [prog |-> {
        Oppm(<<"prog">>, <<E("", bin, FALSE, <<"bin">>), E(":", lib, FALSE, <<"lib">>)>>),
        Oppm(<<"prog">>, <<E("", bin, FALSE, <<"lib">>), E(":", lib, FALSE, <<"lib">>)>>),
        Oppm(<<"prog">>, <<E("", lib, FALSE, <<"lib">>)>>),
        Oppm(<<"prog">>, <<E("", <<"prog", "gone">>, FALSE, <<"lib">>),
                           E("", lib, FALSE, <<"lib">>)>>)},
     conf |-> {
        Oppm(<<"conf">>, <<E("?", etc, TRUE, <<"etc">>)>>),
        Oppm(<<"conf">>, <<E("?", etc, FALSE, <<"share">>), E("", bin, TRUE, <<"boot">>)>>),
        Oppm(<< >>, <<E("?", etc, TRUE, <<"etc">>)>>)}]

F(path, absolute, dst) == [path |-> path, absolute |-> absolute, dst |-> dst]
Pm(dir, files, config) == [dir |-> dir, files |-> files, config |-> config]

MCPmRecipes ==
    [prog |-> {
        Pm(<<"prog">>, <<F(<<"bin", "prog.lua">>, TRUE, <<"usr", "bin">>),
                         F(<<"lib">>, TRUE, <<"usr", "lib">>)>>, << >>),
        Pm(<<"prog">>, <<F(<<"bin", "prog.lua">>, FALSE, <<"lib">>),
                         F(<<"lib">>, FALSE, <<"lib">>)>>, << >>),
        Pm(<<"prog">>, <<F(<<"lib">>, TRUE, <<"boot">>)>>,
                       <<F(<<"bin", "prog.lua">>, FALSE, <<"bin">>)>>)},
     conf |-> {
        Pm(<<"conf">>, << >>, <<F(<<"etc", "conf.cfg">>, TRUE, <<"etc">>)>>),
        Pm(<<"conf">>, << >>, <<F(<<"etc">>, TRUE, <<"usr", "share">>)>>),
        Pm(<<"conf">>, <<F(<<"etc", "conf.cfg">>, TRUE, <<"usr", "share">>)>>,
                       <<F(<<"etc", "conf.cfg">>, TRUE, <<"etc">>)>>)}]
=============================================================================
