--------------------------- MODULE MCModuleChanges ---------------------------
(***************************************************************************)
(* Three modules in two versions, every go.mod of at most two requirements *)
(* (of one module, too), and file lists with vendor/ in them and without,  *)
(* in orders git may report them in, shorter and longer than what a        *)
(* failure names.                                                          *)
(***************************************************************************)
EXTENDS ModuleChanges

MCModulePaths == 1 .. 3

MCVersions == {"v1", "v2"}

MCContents == UNION {[1 .. n -> MCModulePaths \X MCVersions] : n \in 0 .. 2}

\* 1 is go.mod, 2 vendor/, 3 and 4 are files under it, 5 comes after it.
MCFileLists ==
    {<<1>>, <<5, 1>>, <<4, 1, 3>>, <<5, 3, 1>>, <<5>>, <<4>>, <<5, 4, 3>>}

MCVendored == {3, 4}
==============================================================================
