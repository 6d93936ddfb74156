--------------------------- MODULE MCProjectTree ---------------------------
(* Two clients that send files which cannot both be in the tree, and         *)
(* archives inside archives.                                                 *)
EXTENDS ProjectTree
LOCAL INSTANCE SequencesExt

E(path, is, what) == [path |-> path, is |-> is, what |-> what, holds |-> <<>>]
ZipAt(path, what, holds) == [path |-> path, is |-> "zip", what |-> what, holds |-> holds]
Deep == <<E(<<"f">>, "file", "x"), ZipAt(<<"g">>, "zg", <<>>), E(<<"k">>, "left_out", "")>>

MCUpload == {<<E(<<"a">>, "file", "x")>>,
             <<E(<<"a", "b">>, "file", "x"), E(<<"a">>, "folder", "")>>,
             <<E(<<"a", "c">>, "damaged", "zb"), E(<<"a">>, "damaged", "za")>>,
             <<ZipAt(<<"a">>, "za", <<ZipAt(<<"b">>, "zb", Deep), E(<<"h">>, "file", "y")>>),
               E(<<"c">>, "empty", "")>>}
MCArchive == {<<E(<<"a">>, "left_out", ""), E(<<"k">>, "secret", ""), E(<<"m">>, "clutter", ""),
                ZipAt(<<"z">>, "zz", Deep)>>,
              <<E(<<"a", "b">>, "file", "y")>>}

Inside(es) == es \cup UNION {ToSet(e.holds) : e \in es}
MCEntries == Inside(Inside(Inside(UNION {ToSet(u) : u \in MCUpload \cup MCArchive})))
=============================================================================
