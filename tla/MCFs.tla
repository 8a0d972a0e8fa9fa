-------------------------------- MODULE MCFs --------------------------------
(* The file system for TLC: a directory /d and a file that is linked, moved  *)
(* and removed under the names /f and /d/f.                                  *)
EXTENDS Fs, TLC

Abs(op, path) == [op |-> op, abs |-> TRUE, path |-> path]

Create(abs, path, type) ==
    [op |-> "create", abs |-> abs, path |-> path, type |-> type]

\* Calls that build, link and remove, and some that must fail.
MCCalls ==
    { Create(TRUE, <<"d">>, "T_DIR"), Create(FALSE, <<"f">>, "T_FILE"),
      Create(TRUE, <<>>, "T_DEV"),
      [op |-> "open", abs |-> FALSE, path |-> <<"..", "f">>, omode |-> "O_RDWR"],
      [op |-> "open", abs |-> TRUE, path |-> <<"d">>, omode |-> "O_RDWR"],
      [op |-> "link", abs |-> TRUE, path |-> <<"f">>, new |-> <<"d", "f">>],
      [op |-> "link", abs |-> TRUE, path |-> <<"d">>, new |-> <<"f">>],
      [op |-> "link", abs |-> TRUE, path |-> <<"f">>, new |-> <<".">>],
      Abs("unlink", <<"d">>), Abs("unlink", <<"d", "f">>), Abs("unlink", <<"f">>),
      Abs("chdir", <<"d">>), Abs("chdir", <<"f">>),
      [op |-> "write"], [op |-> "close"] }

\* Two calls on one name.
OneName == { Create(TRUE, <<"d">>, "T_DIR"), Abs("unlink", <<"d">>) }

\* Make /d/d, work in it, remove it and then /d, and look at "..".
OrphanCalls ==
    { Create(TRUE, <<"d">>, "T_DIR"), Create(TRUE, <<"d", "d">>, "T_DIR"),
      Abs("chdir", <<"d", "d">>),
      Abs("unlink", <<"d", "d">>), Abs("unlink", <<"d">>),
      [op |-> "open", abs |-> FALSE, path |-> <<"..">>, omode |-> "O_RDONLY"] }

Symmetry == Permutations(Procs)
=============================================================================
