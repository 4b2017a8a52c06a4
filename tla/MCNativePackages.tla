--------------------------- MODULE MCNativePackages ---------------------------
EXTENDS NativePackages, MCVersionConstraints, TLC

app     == 1
lib     == 2
runtime == 3

None == <<>>

(* The constraints of the catalogs as the sets of versions they admit ...  *)
Either == {1, 2}
Older  == {1}
Newer  == {2}

(* ... which is what constraints as they are written mean, where version 1 *)
(* is spelled 1-ohos.2 and version 2 is spelled 2.                         *)
Spelling == <<"1-ohos.2", "2">>
Admits(constraint) == {v \in DOMAIN Spelling : Satisfies(Spelling[v], constraint) = "yes"}

ASSUME ConstraintsAsWritten ==
    /\ Admits(<<"*">>) = Either
    /\ Admits(<<">", "=", "1", " ", "<", "2">>) = Older
    /\ Admits(<<">", "1b", ",", "!", "=", "1">>) = Newer

Meta(deps, content) == [deps |-> deps, content |-> content]

\* lib 2 wants the new runtime, which app does not allow: the solver has to
\* give lib 2 up for lib 1.
CatalogNew ==
    app :> (1 :> Meta(lib :> Either @@ runtime :> Older, 1))
    @@ lib :> (1 :> Meta(runtime :> Either, 1) @@ 2 :> Meta(runtime :> Newer, 1))
    @@ runtime :> (1 :> Meta(None, 1) @@ 2 :> Meta(None, 1))

\* app has lost its dependency on the runtime, runtime 2 depends on app,
\* which would be a cycle, and lib 1 has been published with other contents.
CatalogOdd ==
    app :> (1 :> Meta(lib :> Either, 1))
    @@ lib :> (1 :> Meta(runtime :> Either, 2) @@ 2 :> Meta(runtime :> Newer, 1))
    @@ runtime :> (1 :> Meta(None, 1) @@ 2 :> Meta(app :> Older, 1))

Catalogs == {CatalogNew, CatalogOdd}
=============================================================================
