-------------------------- MODULE MCFileTransactions --------------------------
(* Small instances of the transactions on a file tree for TLC. *)
EXTENDS FileTransactions

CONSTANTS t1, c1, x, y, torn

MCClients == {c1}

\* A directory d, a directory e to be made, and the two names in each.  Moving e
\* back to d when d still exists puts it inside d.
MCPaths == {<<"a">>, <<"b">>, <<"d">>, <<"d", "a">>, <<"d", "b">>,
            <<"d", "e">>, <<"d", "e", "a">>, <<"d", "e", "b">>,
            <<"e">>, <<"e", "a">>, <<"e", "b">>,
            <<"e", "e">>, <<"e", "e", "a">>, <<"e", "e", "b">>}

With(entries) == [p \in MCPaths |-> IF p \in DOMAIN entries THEN entries[p] ELSE Absent]

\* Files a and d/b: the directory d exists, e does not.
MCInitialTrees ==
  {With([p \in {<<"a">>, <<"d">>, <<"d", "b">>} |->
           CASE p = <<"a">> -> x [] p = <<"d">> -> Directory [] OTHER -> y])}

Transfer(type, src, dst, policy) == [type |-> type, src |-> src, dst |-> dst, policy |-> policy]

MCOperations ==
  { Transfer("MOVE", <<"d", "b">>, <<"a">>, "OVERWRITE"),
    Transfer("RENAME", <<"a">>, <<"b">>, "SKIP"),
    Transfer("COPY", <<"a">>, <<"e", "a">>, "DENY"),
    Transfer("COPY_DIRECTORY", <<"d">>, <<"e">>, "DENY"),
    [type |-> "MOVE_DIRECTORY", src |-> <<"d">>, dst |-> <<"e">>],
    [type |-> "CREATE_DIRECTORY", dst |-> <<"d">>],
    [type |-> "DELETE_DIRECTORY", src |-> <<"d">>, recursive |-> FALSE] }

MCDirect == {[type |-> "DELETE", src |-> <<"a">>]}

MCCreateDirectory == {[type |-> "CREATE_DIRECTORY", dst |-> <<"d">>]}
\* While the copy is between its check and its change, e/b comes from d/b.
MCDeniedCopy      == {Transfer("COPY", <<"a">>, <<"e", "b">>, "DENY")}
MCMovedMeanwhile  == {[type |-> "MOVE_DIRECTORY", src |-> <<"d">>, dst |-> <<"e">>]}
MCRenamePolicy    == {Transfer("COPY", <<"a">>, <<"d", "b">>, "RENAME")}
=============================================================================
