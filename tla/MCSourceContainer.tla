-------------------------- MODULE MCSourceContainer --------------------------
(* Instances of SourceContainer for TLC.                                     *)
EXTENDS SourceContainerProps, TLC

CONSTANTS c1, c2, page, hot, file

OneContext == {c1}
TwoContexts == {c1, c2}

(* A bundle, and a hot update of it.                                         *)
Page == {page}
Hot == {hot}
PageAndHot == {page, hot}
None == {}
File == {file}
Maps == page :> {file} @@ hot :> {file}
NoMap == page :> {}
=============================================================================
