--------------------------- MODULE MCProcessInfo ----------------------------
(* An instance of ProcessInfo for TLC: a program, the vDSO, one linked library, *)
(* two plugins; processes of which everything, something or nothing is known.   *)
EXTENDS ProcessInfo

MCLinked    == <<"program", "vdso", "libogrt">>
MCPlugins   == {"plugin1", "plugin2"}
MCSignature == [o \in Objects |-> IF o \in {"program", "plugin1"} THEN "signature of " \o o ELSE NULL]

MCWhitelist == <<"HOME", "LANG">>

MCArguments == {NULL, <<>>, <<<<"x">>>>, <<<<"x">>, <<>>>>, <<<<"x", "y">>, <<"y">>>>,
                <<<<"x", "x", "x">>, <<"y", "y">>>>}

\* Which of the job, the user and the host can be told.
MCKnown == {{}, {"job", "host"}, {"user"}, {"job", "user", "host"}}

MCProcesses ==
  {[pid |-> 7, parent_pid |-> 3, time |-> 100, exe |-> exe, exe_fills |-> fills,
    arguments |-> arguments,
    job_id   |-> IF "job" \in known THEN "4711" ELSE NULL,
    username |-> IF "user" \in known THEN "alice" ELSE NULL,
    hostname |-> IF "host" \in known THEN "node1" ELSE NULL,
    loadedmodules |-> modules,
    environment |-> [HOME |-> IF known = {} THEN NULL ELSE "/home", LANG |-> lang]] :
     exe \in {"/bin/x", NULL}, fills \in BOOLEAN, arguments \in MCArguments,
     known \in MCKnown, modules \in {NULL, <<"">>, <<"m1", "", "m2">>},
     lang \in {"C", NULL}}
=============================================================================
